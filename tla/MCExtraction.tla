---------------------------- MODULE MCExtraction ----------------------------
(* Instances of Extraction for TLC. *)
EXTENDS Extraction, TLC

\* One slot for each class of job.
OneEach == [c \in Class |-> 1]

\* Windows that fall back on the whole file and on single tracks; metadata, durations and a batch
\* under a drop; thumbnails.
Mixes == {{"window", "other"}, {"meta", "whole", "drop"}, {"meta", "duration", "drop"}, {"thumb"}}
=============================================================================
