---------------------------- MODULE MCScorePath ----------------------------
(***************************************************************************)
(* Instance of ScorePath for TLC: two runs of the process.                 *)
(***************************************************************************)
EXTENDS ScorePath

MCSamples == (1 .. MaxSessions) \X Ids
MCIdOf == [s \in MCSamples |-> s[2]]
=============================================================================
