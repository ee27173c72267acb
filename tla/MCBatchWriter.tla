---------------------------- MODULE MCBatchWriter ----------------------------
EXTENDS BatchWriter
CONSTANTS c1, c2, login, beat
Prio == [j \in Jobs |-> CASE j \in {c1, c2} -> 0 [] j = login -> 5 [] OTHER -> 10]
\* Two claims meet a login that one of them may displace; or, in a process that
\* stays up, one claim meets a login and a heartbeat that compete for the one slot
\* not reserved.
SecondClaimOrHeartbeat ==
  reply[beat] # "none" => reply[c2] = "none" /\ crashes = 0
=============================================================================
