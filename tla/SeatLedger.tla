------------------------------ MODULE SeatLedger ------------------------------
(***************************************************************************)
(* The seat ledger: the business tables of server/database.py and every    *)
(* transaction of server/main.py that changes them.                        *)
(*                                                                         *)
(* Each handler opens its connection with BEGIN IMMEDIATE (or runs inside  *)
(* the batch writer's own BEGIN IMMEDIATE) and commits or rolls back as a  *)
(* whole, so a handler is one action: its guard is every check the handler *)
(* makes, its effect every row it writes.  A refused request rolls back    *)
(* and is no step.                                                         *)
(*                                                                         *)
(* What is abstracted: names, codes, credentials and sort orders (a file   *)
(* names majors and students directly; ties that the code breaks by        *)
(* sort_order may break either way, since sort_order is editable);         *)
(* sessions and the activity version of a request, which have modules of   *)
(* their own in the plan; audit rows.  Times are kept relative to now: a   *)
(* stored instant is the number of ticks until it, 0 once it has passed,   *)
(* which is all that the code's comparisons with utc_now() can see.        *)
(***************************************************************************)
EXTENDS Integers, FiniteSets, Functions

CONSTANTS
  Students,      \* student numbers a roster may name
  Majors,        \* majors that may be created
  Groups,        \* teaching groups that may be created
  NoMajor,       \* the student number has no row in the students table
  MaxCapacity,   \* largest capacity an administrator types (a bound)
  Countdown,     \* COUNTDOWN_SECONDS, in ticks
  ConfigOrigin,  \* TRUE iff PUBLIC_BASE_URL is set in the environment
  SeedCapacity,  \* total capacity of a seeded group
  SeedQuota      \* quota matrix of the seeded structure

NoRow  == -1     \* the quota row does not exist
NoTime == -1     \* a NULL timestamp column

ASSUME LedgerAssumption ==
  /\ IsFiniteSet(Students) /\ IsFiniteSet(Majors) /\ IsFiniteSet(Groups)
  /\ NoMajor \notin Majors
  /\ MaxCapacity \in Nat
  /\ Countdown \in Nat \ {0}
  /\ ConfigOrigin \in BOOLEAN
  /\ SeedCapacity \in Nat
  /\ SeedQuota \in [Majors -> [Groups -> Nat]]
  /\ \A g \in Groups : SumFunction([m \in Majors |-> SeedQuota[m][g]]) <= SeedCapacity

VARIABLES
  majors,          \* rows of majors
  activeMajors,    \* majors.active = 1
  groups,          \* rows of teaching_groups
  activeGroups,    \* teaching_groups.active = 1
  capacity,        \* teaching_groups.total_capacity
  quota,           \* quotas.capacity, NoRow where the row is missing
  majorOf,         \* students.major_id, NoMajor where the row is missing
  activeStudents,  \* students.active = 1
  live,            \* <<student, group>> of selections with revoked_at NULL
  revoked,         \* <<student, group>> of selections with revoked_at set
  status,          \* activities.status of the current activity
  opensIn,         \* activities.selection_opens_at
  openedIn,        \* activities.opened_at
  origin,          \* TRUE iff settings.public_base_url is not empty
  ran              \* history: a round of this activity has been open

structure == <<majors, activeMajors, groups, activeGroups, capacity, quota>>
roster    == <<majorOf, activeStudents>>
ledger    == <<live, revoked>>
activity  == <<status, opensIn, openedIn, ran>>
vars      == <<structure, roster, ledger, activity, origin>>

-----------------------------------------------------------------------------
(* Queries the handlers share. *)

\* Active selections in a group, and those of one major in it.
HeldIn(g)  == {p \in live : p[2] = g}
Held(m, g) == {p \in live : p[2] = g /\ majorOf[p[1]] = m}

\* The student holds an active selection.
HasSelection(s) == \E p \in live : p[1] = s

\* A new row of quotas: one zero cell for every teaching group there is.
ZeroRow == [g \in Groups |-> IF g \in groups THEN 0 ELSE NoRow]

\* SELECT SUM(capacity) FROM quotas WHERE group_id = g
QuotaSum(g) == SumFunctionOnSet([m \in Majors |-> quota[m][g]], majors)

\* The phase a handler computes when it runs inside its transaction.
Phase ==
  IF status = "open"
  THEN IF opensIn > 0 THEN "countdown" ELSE "open"
  ELSE IF openedIn = NoTime THEN "waiting" ELSE "closed"

\* Slip, for the runs on mutated code: only the countdown locks the rows.
EnsureNotCountdown == Phase # "countdown"
\* ensure_closed: structure, quotas and roster change between rounds only.
EnsureClosed == status = "closed"

-----------------------------------------------------------------------------
(* Start of the service on a new database. *)

Init ==
  /\ \E seeded \in BOOLEAN :
       /\ majors = IF seeded THEN Majors ELSE {}
       /\ activeMajors = majors
       /\ groups = IF seeded THEN Groups ELSE {}
       /\ activeGroups = groups
       /\ capacity = [g \in Groups |-> IF seeded THEN SeedCapacity ELSE 0]
       /\ quota = [m \in Majors |-> [g \in Groups |->
                     IF seeded THEN SeedQuota[m][g] ELSE NoRow]]
  /\ majorOf = [s \in Students |-> NoMajor]
  /\ activeStudents = {}
  /\ live = {}
  /\ revoked = {}
  /\ status = "closed"
  /\ opensIn = NoTime
  /\ openedIn = NoTime
  /\ origin = ConfigOrigin
  /\ ran = FALSE

-----------------------------------------------------------------------------
(* Structure: majors, groups and the quota matrix between them. *)

CreateMajor(m) ==
  /\ EnsureClosed
  /\ m \notin majors
  /\ majors' = majors \cup {m}
  /\ activeMajors' = activeMajors \cup {m}
  /\ quota' = [quota EXCEPT ![m] = ZeroRow]
  /\ UNCHANGED <<groups, activeGroups, capacity, roster, ledger, activity, origin>>

EnableMajor(m) ==
  /\ EnsureClosed
  /\ m \in majors
  /\ activeMajors' = activeMajors \cup {m}
  /\ UNCHANGED <<majors, groups, activeGroups, capacity, quota>>
  /\ UNCHANGED <<roster, ledger, activity, origin>>

DisableMajor(m) ==
  /\ EnsureClosed
  /\ m \in majors
  /\ m \in activeMajors => \A s \in activeStudents : majorOf[s] # m
  /\ activeMajors' = activeMajors \ {m}
  /\ UNCHANGED <<majors, groups, activeGroups, capacity, quota>>
  /\ UNCHANGED <<roster, ledger, activity, origin>>

\* The quota rows of the major go with it (ON DELETE CASCADE).
DeleteMajor(m) ==
  /\ EnsureClosed
  /\ m \in majors
  /\ \A s \in Students : majorOf[s] # m
  /\ majors' = majors \ {m}
  /\ activeMajors' = activeMajors \ {m}
  /\ quota' = [quota EXCEPT ![m] = [g \in Groups |-> NoRow]]
  /\ UNCHANGED <<groups, activeGroups, capacity, roster, ledger, activity, origin>>

CreateGroup(g, c) ==
  /\ EnsureClosed
  /\ g \notin groups
  /\ groups' = groups \cup {g}
  /\ activeGroups' = activeGroups \cup {g}
  /\ capacity' = [capacity EXCEPT ![g] = c]
  /\ quota' = [m \in Majors |->
                 [quota[m] EXCEPT ![g] = IF m \in majors THEN 0 ELSE NoRow]]
  /\ UNCHANGED <<majors, activeMajors, roster, ledger, activity, origin>>

\* Slip, for the runs on mutated code: without a quota nobody has weight.
WeightsByQuotaOnly(g) ==
  [m \in Majors |-> IF m \in activeMajors /\ quota[m][g] # NoRow
                    THEN quota[m][g] ELSE 0]
\* The weights of rebalance_group_quotas: the quotas of the active majors, or
\* their active students when all those are zero, or one each when those are.
Weights(g) ==
  LET quotas   == [m \in Majors |-> IF m \in activeMajors /\ quota[m][g] # NoRow
                                    THEN quota[m][g] ELSE 0]
      students == [m \in Majors |-> IF m \in activeMajors
                     THEN Cardinality({s \in activeStudents : majorOf[s] = m})
                     ELSE 0]
      equal    == [m \in Majors |-> IF m \in activeMajors THEN 1 ELSE 0]
  IN  CASE \E m \in majors : quotas[m] > 0   -> quotas
        [] \A m \in majors : quotas[m] = 0
           /\ \E n \in majors : students[n] > 0 -> students
        [] OTHER -> equal

\* Largest-remainder shares of n seats: the floors, plus one for the majors
\* with the largest remainders until none is left.  Nothing is shared out
\* when no major carries weight.
Shares(n, weight) ==
  LET total     == SumFunctionOnSet(weight, majors)
      floor     == [m \in Majors |-> (n * weight[m]) \div total]
      remainder == [m \in Majors |-> (n * weight[m]) % total]
      left      == n - SumFunctionOnSet(floor, majors)
      eligible  == {m \in majors : weight[m] > 0}
  IN  IF total = 0
      THEN {[m \in Majors |-> 0]}
      ELSE {share \in [Majors -> 0..n] :
              \E bonus \in SUBSET eligible :
                /\ Cardinality(bonus) = left
                /\ \A a \in bonus, b \in eligible \ bonus : remainder[a] >= remainder[b]
                /\ share = [m \in Majors |-> IF m \in bonus
                                             THEN floor[m] + 1 ELSE floor[m]]}

\* rebalance_group_quotas: every major keeps the seats it already holds in the
\* group and receives its share of the seats nobody holds.
Rebalance(g, c) ==
  /\ \E share \in Shares(c - Cardinality(HeldIn(g)), Weights(g)) :
       quota' = [m \in Majors |->
                   [quota[m] EXCEPT ![g] = IF m \in majors
                                           THEN Cardinality(Held(m, g)) + share[m]
                                           ELSE NoRow]]
  /\ capacity' = [capacity EXCEPT ![g] = c]

\* The quota triggers let every row of a rebalance pass: each cell of the group
\* is lowered to what the major holds, then the total changes, then each cell is
\* raised to its target.
RebalanceFits(g, c) ==
  LET held(m) == Cardinality(Held(m, g))
  IN  /\ \A lowered \in SUBSET majors :
           SumFunctionOnSet([m \in Majors |-> IF m \in lowered THEN held(m)
                                              ELSE quota[m][g]], majors) <= capacity[g]
      /\ \A share \in Shares(c - Cardinality(HeldIn(g)), Weights(g)),
            raised \in SUBSET majors :
           SumFunctionOnSet([m \in Majors |-> IF m \in raised THEN held(m) + share[m]
                                              ELSE held(m)], majors) <= c

\* A request that leaves total_capacity out sends the value already stored.
UpdateGroup(g, c, active) ==
  /\ EnsureClosed
  /\ g \in groups
  /\ c # capacity[g] => c >= Cardinality(HeldIn(g))
  /\ ~active /\ g \in activeGroups => HeldIn(g) = {}
  /\ IF c = capacity[g] THEN UNCHANGED <<quota, capacity>> ELSE Rebalance(g, c)
  /\ activeGroups' = IF active THEN activeGroups \cup {g} ELSE activeGroups \ {g}
  /\ UNCHANGED <<majors, activeMajors, groups, roster, ledger, activity, origin>>

\* The group has a selection on record, revoked ones included.
InUse(g) == \E p \in live \cup revoked : p[2] = g

DeleteGroup(g) ==
  /\ EnsureClosed
  /\ g \in groups
  /\ ~InUse(g)
  /\ groups' = groups \ {g}
  /\ activeGroups' = activeGroups \ {g}
  /\ capacity' = [capacity EXCEPT ![g] = 0]
  /\ quota' = [m \in Majors |-> [quota[m] EXCEPT ![g] = NoRow]]
  /\ UNCHANGED <<majors, activeMajors, roster, ledger, activity, origin>>

\* The final sum of a group's quotas once the listed cells are replaced.
SumAfter(g, desired) ==
  SumFunctionOnSet([m \in Majors |-> IF <<m, g>> \in DOMAIN desired
                                     THEN desired[<<m, g>>] ELSE quota[m][g]],
                   majors)

\* The checks of update_quotas_batch; with one cell, of update_quota.
QuotasAllowed(desired) ==
  \A cell \in DOMAIN desired :
    /\ quota[cell[1]][cell[2]] # NoRow
    /\ desired[cell] >= Cardinality(Held(cell[1], cell[2]))
    /\ SumAfter(cell[2], desired) <= capacity[cell[2]]

\* Slip, for the runs on mutated code: the cells are written as they were listed.
ReleasesAnywhere(written, desired) == TRUE
\* The cells lowered by a request are written before those it raises.
ReleasesFirst(written, desired) ==
  \A a \in written, b \in DOMAIN desired \ written :
    desired[a] > quota[a[1]][a[2]] => desired[b] > quota[b[1]][b[2]]

\* quota_group_capacity_guard_update lets every row of the request pass.
QuotaRowsFit(desired) ==
  \A written \in SUBSET DOMAIN desired :
    ReleasesFirst(written, desired) =>
      \A g \in groups : SumAfter(g, Restrict(desired, written)) <= capacity[g]

UpdateQuotas(desired) ==
  LET cells == DOMAIN desired
  IN  /\ EnsureClosed
      /\ QuotasAllowed(desired)
      /\ quota' = [m \in Majors |-> [g \in Groups |->
                     IF <<m, g>> \in cells THEN desired[<<m, g>>] ELSE quota[m][g]]]
      /\ UNCHANGED <<majors, activeMajors, groups, activeGroups, capacity>>
      /\ UNCHANGED <<roster, ledger, activity, origin>>

-----------------------------------------------------------------------------
(* Roster. *)

\* Slip, for the runs on mutated code: the sync import retires anyone.
ImportChecksMajorOnly(listed, file, mode) ==
  \A s \in listed : HasSelection(s) => file[s] = majorOf[s]
\* A selection pins its student: the major may not change, and a synchronised
\* roster may not leave the student out.
ImportAllowed(listed, file, mode) ==
  /\ \A s \in listed : HasSelection(s) => file[s] = majorOf[s]
  /\ mode = "sync" => \A s \in activeStudents \ listed : ~HasSelection(s)

\* One import of a parsed roster: file[s] is the major the file gives student
\* s, NoMajor when s is not listed.  "sync" also retires the active students
\* that the file leaves out.
ImportStudents(file, mode) ==
  LET listed == {s \in Students : file[s] # NoMajor}
      named  == {file[s] : s \in listed}
  IN  /\ EnsureClosed
      /\ listed # {}
      /\ ImportAllowed(listed, file, mode)
      /\ majors' = majors \cup named
      /\ activeMajors' = activeMajors \cup named
      /\ quota' = [m \in Majors |-> IF m \in named \ majors THEN ZeroRow ELSE quota[m]]
      /\ majorOf' = [s \in Students |-> IF s \in listed THEN file[s] ELSE majorOf[s]]
      /\ activeStudents' = IF mode = "sync" THEN listed ELSE activeStudents \cup listed
      /\ UNCHANGED <<groups, activeGroups, capacity, ledger, activity, origin>>

-----------------------------------------------------------------------------
(* The activity and its rounds. *)

\* Slip, for the runs on mutated code: disabled groups count as an offer.
SeatsInAllGroups(m) ==
  SumFunctionOnSet([g \in Groups |-> IF quota[m][g] = NoRow THEN 0 ELSE quota[m][g]],
                   groups)
\* What the groups in use offer a major.
SeatsFor(m) ==
  SumFunctionOnSet([g \in Groups |-> IF quota[m][g] = NoRow THEN 0 ELSE quota[m][g]],
                   activeGroups)

\* activity_readiness has no blocker.
Ready ==
  /\ activeStudents # {}
  /\ activeGroups # {}
  /\ \A s \in activeStudents : majorOf[s] \in activeMajors
  /\ SumFunctionOnSet(capacity, activeGroups) >= Cardinality(activeStudents)
  /\ \A g \in activeGroups : QuotaSum(g) <= capacity[g]
  /\ \A m \in activeMajors :
       SeatsFor(m) >= Cardinality({s \in activeStudents : majorOf[s] = m})
  /\ origin

StartCountdown ==
  /\ status # "open"
  /\ Ready
  /\ status' = "open"
  /\ opensIn' = Countdown
  /\ openedIn' = Countdown
  /\ UNCHANGED <<structure, roster, ledger, origin, ran>>

\* Slip, for the runs on mutated code: the announced instant survives the close.
CloseKeepingTarget ==
  /\ status' = "closed"
  /\ openedIn' = IF opensIn > 0 /\ openedIn = opensIn THEN NoTime ELSE openedIn
  /\ UNCHANGED <<structure, roster, ledger, origin, ran, opensIn>>
\* update_status with "closed": cancels a running countdown, ends a round, and
\* may be repeated on an activity that is closed already.
Close ==
  /\ status' = "closed"
  /\ openedIn' = IF opensIn > 0 /\ openedIn = opensIn THEN NoTime ELSE openedIn
  /\ opensIn' = NoTime
  /\ UNCHANGED <<structure, roster, ledger, origin, ran>>

\* Time passes; the countdown needs no write to expire.
Tick ==
  LET later(t) == IF t > 0 THEN t - 1 ELSE t
  IN  /\ opensIn > 0 \/ openedIn > 0
      /\ opensIn' = later(opensIn)
      /\ openedIn' = later(openedIn)
      /\ ran' = (ran \/ (status = "open" /\ opensIn' = 0))
      /\ UNCHANGED <<structure, roster, ledger, origin, status>>

\* create_activity: the current activity is archived and the working tables
\* emptied; the structure is optionally copied into the new activity.
CreateActivity(copy) ==
  /\ status # "open"
  /\ IF copy
     THEN UNCHANGED structure
     ELSE /\ majors' = {} /\ activeMajors' = {}
          /\ groups' = {} /\ activeGroups' = {}
          /\ capacity' = [g \in Groups |-> 0]
          /\ quota' = [m \in Majors |-> [g \in Groups |-> NoRow]]
  /\ majorOf' = [s \in Students |-> NoMajor]
  /\ activeStudents' = {}
  /\ live' = {}
  /\ revoked' = {}
  /\ status' = "closed"
  /\ opensIn' = NoTime
  /\ openedIn' = NoTime
  /\ ran' = FALSE
  /\ UNCHANGED origin

\* update_settings has no ensure_closed: the address can change at any time.
SetOrigin(set) ==
  /\ origin' = set
  /\ UNCHANGED <<structure, roster, ledger, activity>>

-----------------------------------------------------------------------------
(* Selections. *)

\* Slip, for the runs on mutated code: the quota is compared with <= instead of <.
CapacityGuardOffByOne(s, g) ==
  /\ quota[majorOf[s]][g] # NoRow
  /\ Cardinality(HeldIn(g)) < capacity[g]
  /\ Cardinality(Held(majorOf[s], g)) <= quota[majorOf[s]][g]
\* The selection_capacity_guard trigger on INSERT.
CapacityGuard(s, g) ==
  /\ quota[majorOf[s]][g] # NoRow
  /\ Cardinality(HeldIn(g)) < capacity[g]
  /\ Cardinality(Held(majorOf[s], g)) < quota[majorOf[s]][g]

\* The part of choose_group that both kinds of caller share.  A student's
\* replay of the group already held answers with the stored selection and
\* writes nothing, so it is no step here.
ClaimSeat(s, g) ==
  /\ s \in activeStudents
  /\ majorOf[s] \in activeMajors
  /\ ~HasSelection(s)
  /\ g \in activeGroups
  /\ origin \/ ConfigOrigin
  /\ CapacityGuard(s, g)
  /\ live' = live \cup {<<s, g>>}
  /\ UNCHANGED <<structure, roster, activity, origin, revoked>>

Select(s, g) == Phase = "open" /\ ClaimSeat(s, g)

AdminAssign(s, g) == Phase # "countdown" /\ ClaimSeat(s, g)

\* Slip, for the runs on mutated code: the revoked row is deleted.
RevokeByDeleting(p) ==
  /\ Phase # "countdown"
  /\ p \in live
  /\ live' = live \ {p}
  /\ UNCHANGED <<structure, roster, activity, origin, revoked>>
\* The row stays, with revoked_at set.
RevokeSelection(p) ==
  /\ Phase # "countdown"
  /\ p \in live
  /\ live' = live \ {p}
  /\ revoked' = revoked \cup {p}
  /\ UNCHANGED <<structure, roster, activity, origin>>

-----------------------------------------------------------------------------

\* Requests that put a value in one or more cells of the quota matrix.
QuotaRequests ==
  UNION {[cells -> 0..MaxCapacity] : cells \in SUBSET (Majors \X Groups) \ {{}}}

EditStructure ==
  \/ \E m \in Majors : CreateMajor(m) \/ EnableMajor(m) \/ DisableMajor(m) \/ DeleteMajor(m)
  \/ \E g \in Groups, c \in 0..MaxCapacity :
       CreateGroup(g, c) \/ \E active \in BOOLEAN : UpdateGroup(g, c, active)
  \/ \E g \in Groups : DeleteGroup(g)
  \/ \E desired \in QuotaRequests : UpdateQuotas(desired)

EditRoster ==
  \E file \in [Students -> Majors \cup {NoMajor}], mode \in {"merge", "sync"} :
    ImportStudents(file, mode)

RunActivity ==
  \/ StartCountdown
  \/ Close
  \/ Tick
  \/ \E copy \in BOOLEAN : CreateActivity(copy)
  \/ \E set \in BOOLEAN : SetOrigin(set)

ChangeLedger ==
  \/ \E s \in Students, g \in Groups : Select(s, g) \/ AdminAssign(s, g)
  \/ \E p \in live : RevokeSelection(p)

Next == EditStructure \/ EditRoster \/ RunActivity \/ ChangeLedger

Spec == Init /\ [][Next]_vars

-----------------------------------------------------------------------------
(* What must hold. *)

\* Types and referential integrity: flags only on rows that exist, selections
\* only of students and groups that exist, students only in majors that exist.
TypeOK ==
  /\ majors \subseteq Majors /\ activeMajors \subseteq majors
  /\ groups \subseteq Groups /\ activeGroups \subseteq groups
  /\ capacity \in [Groups -> Nat]
  /\ quota \in [Majors -> [Groups -> Nat \cup {NoRow}]]
  /\ majorOf \in [Students -> majors \cup {NoMajor}]
  /\ activeStudents \subseteq {s \in Students : majorOf[s] # NoMajor}
  /\ live \subseteq {s \in Students : majorOf[s] # NoMajor} \X groups
  /\ revoked \subseteq {s \in Students : majorOf[s] # NoMajor} \X groups
  /\ status \in {"open", "closed"}
  /\ opensIn \in Nat \cup {NoTime} /\ openedIn \in Nat \cup {NoTime}
  /\ origin \in BOOLEAN /\ ran \in BOOLEAN

\* No overselling: whatever mixture of claims, back-fills, revocations, quota
\* edits, capacity changes and re-imports came before, a group never holds more
\* active selections than its total, nor a major more than its quota there.
NoOversell ==
  \A g \in groups :
    /\ Cardinality(HeldIn(g)) <= capacity[g]
    /\ \A m \in majors : Held(m, g) # {} => Cardinality(Held(m, g)) <= quota[m][g]

\* A student never holds two active selections, across student claims and
\* administrator back-fills, revocations and new claims.
OneSelectionEach == \A p, q \in live : p[1] = q[1] => p = q

\* An active selection stays redeemable: no edit of the roster or of the
\* structure retires its student, the student's major, its group or the quota
\* cell it was taken from.  A revoked one, which no longer protects a flag or a
\* seat, still keeps the student and the group of its record from being deleted.
SelectionsStand ==
  /\ \A p \in live :
       /\ p[1] \in activeStudents
       /\ majorOf[p[1]] \in activeMajors
       /\ p[2] \in activeGroups
       /\ quota[majorOf[p[1]]][p[2]] # NoRow
  /\ \A p \in revoked : majorOf[p[1]] # NoMajor /\ p[2] \in groups

\* The quota matrix has a cell for each major and group there is, and no other.
QuotaRows ==
  \A m \in Majors, g \in Groups :
    quota[m][g] # NoRow <=> m \in majors /\ g \in groups

\* The handlers' own checks keep every statement within the database's quota
\* triggers, which look at each row as it is written: whichever request the
\* checks accept, no order of rows that the handler may write makes a trigger
\* refuse one, on the way to the new matrix or at its end.
RowUpdatesFit ==
  /\ QuotaRows
  /\ \A g \in groups : QuotaSum(g) <= capacity[g]
  /\ EnsureClosed =>
       /\ \A g \in groups, c \in 0..MaxCapacity :
            c >= Cardinality(HeldIn(g)) => RebalanceFits(g, c)
       /\ \A desired \in QuotaRequests :
            QuotasAllowed(desired) => QuotaRowsFit(desired)

\* What the readiness check of start_countdown buys: from the start of the
\* countdown until the round is closed, every active student without a seat
\* still finds a group in use with room in the total and in the major's quota.
NobodyStranded ==
  status = "open" =>
    \A s \in activeStudents :
      HasSelection(s) \/ \E g \in activeGroups : CapacityGuard(s, g)

\* The stored activity passes the checks initialize_database repeats on every
\* start (status, opening time and opened_at agree), so a restart at any point
\* finds a database it accepts.
StartupValid ==
  IF status = "open" THEN opensIn # NoTime /\ openedIn = opensIn ELSE opensIn = NoTime

\* The terms of a round are fixed once its countdown starts: until it is closed
\* no structure, quota or roster row changes, the announced instant does not
\* move, and during the countdown the ledger does not change either.
RoundTermsFixed ==
  [][status = "open" /\ status' = "open" =>
       /\ UNCHANGED <<structure, roster>>
       /\ opensIn' \in {opensIn, opensIn - 1}
       /\ Phase = "countdown" => UNCHANGED ledger]_vars

\* The ledger keeps the promise of SeatAllocation, with the rows in force as the
\* seats taken: every handler is one of its steps or does not touch a seat.
Allocation == INSTANCE SeatAllocation WITH
  NoClass <- NoMajor, held <- live, past <- revoked,
  limit <- capacity, share <- quota, class <- majorOf
ImplementsAllocation == Allocation!Spec

\* A changed group total is sold completely: with an active major there is, the
\* new quotas of the group add up to its new total (docs/architecture.md, the
\* section on capacity and quotas).
RebalanceSellsEverySeat ==
  [][\A g \in groups \cap groups' :
       capacity'[g] # capacity[g] /\ activeMajors # {} /\ majorOf' = majorOf
         => QuotaSum(g)' = capacity'[g]]_vars

\* The status text of phase "waiting" says that the selection has not started;
\* so an activity that shows it has had no open round.
WaitingMeansNotStarted == Phase = "waiting" => ~ran
=============================================================================
