----------------------------- MODULE ImportGate -----------------------------
(***************************************************************************)
(* ImportBodyLimitMiddleware of server/main.py: roster uploads take one of *)
(* MAX_CONCURRENT_IMPORTS slots of their class while their body is read    *)
(* and their handler runs.  The class is decided by whether the request    *)
(* carries a live administrator's session, read in a thread; the import    *)
(* itself is a transaction of SeatLedger.  Sizes are counted in units that *)
(* an upload may exceed, time in fractions of the deadline.                *)
(***************************************************************************)
EXTENDS Naturals, FiniteSets

CONSTANTS
  Uploads,     \* requests; each is made at most once
  MaxImports,  \* MAX_CONCURRENT_IMPORTS
  MaxBody,     \* MAX_IMPORT_BODY_BYTES
  Deadline     \* IMPORT_BODY_TIMEOUT_SECONDS

ASSUME GateAssumption ==
  /\ IsFiniteSet(Uploads)
  /\ MaxImports \in Nat \ {0} /\ MaxBody \in Nat /\ Deadline \in Nat \ {0}

VARIABLES
  upload,  \* each request: its stage, class, bytes received and time remaining
  active   \* _active_imports and _active_untrusted_imports

gateVars == <<upload, active>>

Classes == {"trusted", "untrusted"}
Held == {"receiving", "handling", "replying"}

Untouched(stage) ==
  [stage |-> stage, class |-> "untrusted", received |-> 0, remaining |-> Deadline]

GateTypeOK ==
  /\ upload \in [Uploads -> [stage : Held \cup {"idle", "done"}, class : Classes,
                             received : 0 .. MaxBody, remaining : 0 .. Deadline]]
  /\ active \in [Classes -> 0 .. MaxImports]

GateInit ==
  /\ upload = [u \in Uploads |-> Untouched("idle")]
  /\ active = [c \in Classes |-> 0]

-----------------------------------------------------------------------------

To(u, stage) == upload' = [upload EXCEPT ![u].stage = stage]
Over(u) == upload' = [upload EXCEPT ![u] = Untouched("done")]

\* A full class answers 429 and takes no slot.  A length header that is no
\* number or is too large is answered before the body is read.
Enter(u) ==
  /\ upload[u].stage = "idle"
  /\ \E class \in Classes :
       \/ /\ active[class] >= MaxImports
          /\ Over(u) /\ UNCHANGED active
       \/ /\ active[class] < MaxImports
          /\ \E stage \in {"receiving", "replying"} :
               upload' = [upload EXCEPT ![u].stage = stage, ![u].class = class]
          /\ active' = [active EXCEPT ![class] = @ + 1]

\* Slip, for the runs on mutated code: every message starts the time anew.
MessageRenewingDeadline(u) ==
  /\ upload[u].stage = "receiving" /\ upload[u].remaining > 0
  /\ \E bytes \in {0, 1}, more \in BOOLEAN :
       IF upload[u].received + bytes > MaxBody THEN To(u, "replying")
       ELSE upload' = [upload EXCEPT ![u].received = @ + bytes, ![u].remaining = Deadline,
                                     ![u].stage = IF more THEN @ ELSE "handling"]
  /\ UNCHANGED active
\* A message of the body, which may be empty; too many bytes are answered 413,
\* the last message hands the request to the application.
Message(u) ==
  /\ upload[u].stage = "receiving" /\ upload[u].remaining > 0
  /\ \E bytes \in {0, 1}, more \in BOOLEAN :
       IF upload[u].received + bytes > MaxBody THEN To(u, "replying")
       ELSE upload' = [upload EXCEPT ![u].received = @ + bytes,
                                     ![u].stage = IF more THEN @ ELSE "handling"]
  /\ UNCHANGED active

\* TimeoutError, answered 408.
TimeOut(u) ==
  /\ upload[u].stage = "receiving" /\ upload[u].remaining = 0
  /\ To(u, "replying")
  /\ UNCHANGED active

\* The finally clause.
Leave(u) ==
  /\ Over(u)
  /\ active' = [active EXCEPT ![upload[u].class] = @ - 1]

\* The client has gone; the request was answered; the application returned or
\* raised; the task was cancelled.
Disconnect(u) == upload[u].stage = "receiving" /\ Leave(u)
Replied(u) == upload[u].stage = "replying" /\ Leave(u)
Handled(u) == upload[u].stage = "handling" /\ Leave(u)
\* Slip, for the runs on mutated code: the cancellation is raised past the finally.
CancelledKeepingSlot(u) ==
  /\ upload[u].stage \in Held
  /\ Over(u)
  /\ UNCHANGED active
Cancelled(u) == upload[u].stage \in Held /\ Leave(u)

\* Time passes for every body being read.
Wait ==
  /\ \E u \in Uploads : upload[u].stage = "receiving" /\ upload[u].remaining > 0
  /\ upload' = [u \in Uploads |->
       IF upload[u].stage = "receiving" /\ upload[u].remaining > 0
       THEN [upload[u] EXCEPT !.remaining = @ - 1] ELSE upload[u]]
  /\ UNCHANGED active

GateNext ==
  \/ \E u \in Uploads : \/ Enter(u) \/ Message(u) \/ TimeOut(u) \/ Disconnect(u)
                        \/ Replied(u) \/ Handled(u) \/ Cancelled(u)
  \/ Wait

\* Time passes, wait_for raises, the application returns and a short answer is
\* taken by the server's buffer; nothing makes a client send.
GateFairness ==
  /\ WF_gateVars(Wait)
  /\ \A u \in Uploads : /\ WF_gateVars(TimeOut(u)) /\ WF_gateVars(Replied(u))
                        /\ WF_gateVars(Handled(u))

GateSpec == GateInit /\ [][GateNext]_gateVars /\ GateFairness

-----------------------------------------------------------------------------
(* Properties *)

Holders(c) == {u \in Uploads : upload[u].stage \in Held /\ upload[u].class = c}

\* "active" counts the uploads under way, class by class: no ending loses a slot
\* and none, such as that of a refused upload, returns a slot it did not take.
SlotsExact == \A c \in Classes : active[c] = Cardinality(Holders(c))

\* A class whose slots are all taken gets one back, whatever the clients that
\* hold them do: stall, send an endless empty body, disconnect or be refused.
GateReopens == \A c \in Classes : active[c] = MaxImports ~> active[c] < MaxImports
=============================================================================
