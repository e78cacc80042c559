---------------------------- MODULE MCEvidenceStore ----------------------------
(***************************************************************************)
(* Two sessions, each a command, an LLM or an SFTP session, that start     *)
(* MaxCalls commands or uploads between them; two virtual files, one chunk *)
(* of data and files of at most one chunk: enough for two files to have    *)
(* the same content, for one to be reused, emptied or appended to, and for *)
(* two uploads to meet in the same second or in two different ones.        *)
(***************************************************************************)
EXTENDS EvidenceStore, TLC

EvidenceSymmetry == Permutations(Sessions) \cup Permutations(Files)
=============================================================================
