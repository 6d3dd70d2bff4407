------------------------------- MODULE Migrate -------------------------------
(***************************************************************************)
(* Schema migrations (internal/migrate, cmd/the-button-migrate): any       *)
(* number of migrate processes against one database, each told to go up,   *)
(* down, or down by force.  The goose provider takes a Postgres advisory   *)
(* lock for every call made to it; an unforced Down makes two calls, and   *)
(* others may come between them.  A migration runs in a transaction of its *)
(* own, and the lock goes with the session that holds it, so a process may *)
(* die anywhere.                                                           *)
(***************************************************************************)
EXTENDS Naturals, FiniteSets

CONSTANTS
  Runners,         \* migrate processes
  None,            \* nobody holds the lock
  Latest,          \* the newest embedded migration: 1 .. Latest exist
  MinSafe,         \* minSafeDownVersion
  MaxRuns          \* bound: how often a process is started

ASSUME MigrateConstants ==
  /\ None \notin Runners
  /\ Latest \in Nat /\ MinSafe \in Nat /\ MaxRuns \in Nat

Versions == 1 .. Latest

VARIABLES
  applied,    \* the versions goose_db_version lists
  lock,       \* who holds the advisory lock
  runner,     \* runner[r]: where it is, and the version it pinned
  runs,       \* starts so far
  reversed,   \* history: versions an unforced Down reversed
  crossed     \* history: an Up ran between the two calls of an unforced Down

vars == <<applied, lock, runner, runs, reversed, crossed>>

Off == [pc |-> "off", version |-> 0]

Init ==
  /\ applied = {}
  /\ lock = None
  /\ runner = [r \in Runners |-> Off]
  /\ runs = 0
  /\ reversed = {}
  /\ crossed = FALSE

At(r, pc) == runner[r].pc = pc
Goto(r, pc) == runner' = [runner EXCEPT ![r].pc = pc]

(* v is the latest applied version (0 on an empty database).               *)
IsVersion(v) == \A u \in applied : u <= v

(* main: up, down, or down -force-destructive.                             *)
Start(r) ==
  /\ At(r, "off")
  /\ runs < MaxRuns
  /\ runs' = runs + 1
  /\ \E pc \in {"up", "check", "force"} : Goto(r, pc)
  /\ UNCHANGED <<applied, lock, reversed, crossed>>

(* The session locker gets the lock; a process that waits too long, or     *)
(* fails in any other way, ends, and its session with it.                  *)
Locked(r) == lock = None /\ lock' = r

(* Wrong: the session, and the lock, outlive the call.                     *)
Exit_Wrong(r) == runner' = [runner EXCEPT ![r] = Off] /\ UNCHANGED lock

Exit(r) ==
  /\ runner' = [runner EXCEPT ![r] = Off]
  /\ lock' = IF lock = r THEN None ELSE lock

Fail(r) ==
  /\ ~At(r, "off")
  /\ Exit(r)
  /\ UNCHANGED <<applied, runs, reversed, crossed>>

-----------------------------------------------------------------------------
(* Up.  It refuses a database with a gap; then it applies what is pending  *)
(* in order, the lock in its hands.                                        *)

Gap == \E v \in applied : \E u \in 1 .. v : u \notin applied

UpBegin(r) ==
  /\ At(r, "up")
  /\ ~Gap
  /\ Locked(r)
  /\ crossed' = (crossed \/ \E q \in Runners : At(q, "pinned"))
  /\ Goto(r, "upping")
  /\ UNCHANGED <<applied, runs, reversed>>

UpGap(r) ==
  /\ At(r, "up")
  /\ Gap
  /\ lock = None
  /\ Exit(r)
  /\ UNCHANGED <<applied, runs, reversed, crossed>>

(* Wrong: it starts from the newest and works back.                        *)
UpApply_Wrong(r) ==
  /\ At(r, "upping")
  /\ \E v \in Versions \ applied :
       /\ \A u \in Versions : u > v => u \in applied
       /\ applied' = applied \cup {v}
  /\ UNCHANGED <<lock, runner, runs, reversed, crossed>>

UpApply(r) ==
  /\ At(r, "upping")
  /\ \E v \in Versions \ applied :
       /\ \A u \in Versions : u < v => u \in applied
       /\ applied' = applied \cup {v}
  /\ UNCHANGED <<lock, runner, runs, reversed, crossed>>

UpEnd(r) ==
  /\ At(r, "upping")
  /\ Versions \subseteq applied
  /\ Exit(r)
  /\ UNCHANGED <<applied, runs, reversed, crossed>>

-----------------------------------------------------------------------------
(* Down without force: GetDBVersion under the lock, the guard, and         *)
(* ApplyVersion of that version under the lock again.                      *)

(* GetDBVersion: lock, read, release.                                      *)
DownCheck(r) ==
  /\ At(r, "check")
  /\ lock = None
  /\ \E v \in applied \cup {0} :
       /\ IsVersion(v)
       /\ runner' = [runner EXCEPT ![r] =
            IF v <= MinSafe THEN Off ELSE [pc |-> "pinned", version |-> v]]
  /\ UNCHANGED <<applied, lock, runs, reversed, crossed>>

(* Wrong: p.Down, which reverses whatever is latest when it runs.          *)
DownApply_Wrong(r) ==
  /\ At(r, "pinned")
  /\ lock = None
  /\ \E v \in applied :
       /\ IsVersion(v)
       /\ applied' = applied \ {v}
       /\ reversed' = reversed \cup {v}
  /\ runner' = [runner EXCEPT ![r] = Off]
  /\ UNCHANGED <<lock, runs, crossed>>

(* ApplyVersion(version, false): lock, verify, reverse, release.           *)
DownApply(r) ==
  /\ At(r, "pinned")
  /\ lock = None
  /\ runner[r].version \in applied
  /\ applied' = applied \ {runner[r].version}
  /\ reversed' = reversed \cup {runner[r].version}
  /\ runner' = [runner EXCEPT ![r] = Off]
  /\ UNCHANGED <<lock, runs, crossed>>

(* ErrNotApplied: another process has reversed that version.               *)
DownNotApplied(r) ==
  /\ At(r, "pinned")
  /\ lock = None
  /\ runner[r].version \notin applied
  /\ runner' = [runner EXCEPT ![r] = Off]
  /\ UNCHANGED <<applied, lock, runs, reversed, crossed>>

(* p.Down: it reverses the latest version, under one lock.                 *)
ForceDown(r) ==
  /\ At(r, "force")
  /\ lock = None
  /\ \E v \in applied : IsVersion(v) /\ applied' = applied \ {v}
  /\ runner' = [runner EXCEPT ![r] = Off]
  /\ UNCHANGED <<lock, runs, reversed, crossed>>

-----------------------------------------------------------------------------
Step(r) ==
  \/ Start(r) \/ Fail(r)
  \/ UpBegin(r) \/ UpGap(r) \/ UpApply(r) \/ UpEnd(r)
  \/ DownCheck(r) \/ DownApply(r) \/ DownNotApplied(r)
  \/ ForceDown(r)

Next == \E r \in Runners : Step(r)

Spec == Init /\ [][Next]_vars

-----------------------------------------------------------------------------
(* Every variable has its type; who works with a held lock holds it.       *)
TypeOK ==
  /\ applied \subseteq Versions
  /\ lock \in Runners \cup {None}
  /\ runner \in [Runners ->
       [pc : {"off", "up", "upping", "check", "pinned", "force"}, version : Nat]]
  /\ \A r \in Runners : At(r, "upping") <=> lock = r
  /\ runs \in 0 .. MaxRuns
  /\ reversed \subseteq Versions
  /\ crossed \in BOOLEAN

(* migrate.go:110-119.  However many processes go up, down and down by     *)
(* force around it, an unforced Down never reverses a version up to        *)
(* MinSafe: the tables of the clicks and achievements are not dropped.     *)
DataKept == \A v \in reversed : v > MinSafe

(* migrate.go:81-82, "exactly the one most-recently-applied migration":    *)
(* the applied versions have no gap -- unless an Up ran between the two    *)
(* calls of a Down, which then reverses a version that is no longer the    *)
(* latest and leaves a database that every further Up refuses.             *)
NoGap == crossed \/ ~Gap

(* The inductive invariant behind DataKept: what is pinned passed the      *)
(* guard.                                                                  *)
PinnedSafe == \A r \in Runners : At(r, "pinned") => runner[r].version > MinSafe
=============================================================================
