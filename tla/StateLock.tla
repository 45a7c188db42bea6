------------------------------ MODULE StateLock ------------------------------
(***************************************************************************)
(* internal/state: every dockup process changes %APPDATA%\dockup\state.json *)
(* through WithLock, a lock file created exclusively, expired by age, and   *)
(* removed on return; the new state goes to state.json.tmp and is renamed.  *)
(*                                                                          *)
(* A process may be suspended or killed between any two system calls.  The  *)
(* state is abstracted to the set of updates it contains: the update of a   *)
(* call is <<process, call number>>, and fn(&s) adds it to what was loaded. *)
(***************************************************************************)
EXTENDS Naturals

CONSTANTS
  Proc,       \* slots for dockup processes; a slot is reused after a crash
  MaxCalls,   \* bound: WithLock calls made by a slot
  MaxMisses,  \* bound: failing removals of the lock file (another program, a
              \* scanner or a backup, holds it open, which Windows respects)
  StaleAge,   \* a lock file older than this is expired (30s)
  Deadline,   \* a caller that waited longer than this gives up (15s)
  Crashes,    \* may a process die inside WithLock?
  Timely,     \* does a live holder always return before its lock is stale?
  Free,       \* value of holder: no lock file
  Orphan      \* value of holder: a lock file that its creator left behind

ASSUME ConstantsAssumption ==
  /\ MaxCalls \in Nat
  /\ MaxMisses \in Nat
  /\ StaleAge \in Nat
  /\ Deadline \in Nat
  /\ Crashes \in BOOLEAN
  /\ Timely \in BOOLEAN
  /\ Free \notin Proc
  /\ Orphan \notin Proc
  /\ Free # Orphan

VARIABLES
  pc,      \* where each process is inside WithLock
  calls,   \* calls each slot has begun
  waited,  \* time since the call began, capped above Deadline
  snap,    \* what fn made of the loaded state
  ret,     \* the call is about to return nil
  holder,  \* who created the lock file that exists now (the file names a pid
           \* but no code reads it)
  age,     \* its age, capped above StaleAge
  misses,  \* removals that failed so far
  file,    \* state.json
  tmp,     \* state.json.tmp
  staged,  \* state.json.tmp exists
  acked,   \* history: updates whose call returned nil
  stolen   \* history: a lock file was removed while its creator was alive

vars == <<pc, calls, waited, snap, ret, holder, age, misses, file, tmp, staged, acked,
          stolen>>

Update  == Proc \X (1..MaxCalls)
Content == [ups : SUBSET Update, whole : BOOLEAN]
Truncated == [ups |-> {}, whole |-> FALSE]

\* Mutant of Mine: the call number is off by one.
MineOffByOne(p) == <<p, calls[p] + 1>>

\* The update of p's current call.
Mine(p) == <<p, calls[p]>>

Waiting  == {"open", "stat", "expire"}
Critical == {"load", "create", "write", "rename", "unlock"}

\* p is between its exclusive create and its deferred remove.
InCS(p) == pc[p] \in Critical

Init ==
  /\ pc = [p \in Proc |-> "idle"]
  /\ calls = [p \in Proc |-> 0]
  /\ waited = [p \in Proc |-> 0]
  /\ snap = [p \in Proc |-> {}]
  /\ ret = [p \in Proc |-> FALSE]
  /\ holder = Free
  /\ age = 0
  /\ misses = 0
  /\ file = [ups |-> {}, whole |-> TRUE]
  /\ tmp = Truncated
  /\ staged = FALSE
  /\ acked = {}
  /\ stolen = FALSE

-----------------------------------------------------------------------------
Goto(p, label) == pc' = [pc EXCEPT ![p] = label]

Begin(p) ==
  /\ pc[p] = "idle"
  /\ calls[p] < MaxCalls
  /\ calls' = [calls EXCEPT ![p] = @ + 1]
  /\ waited' = [waited EXCEPT ![p] = 0]
  /\ ret' = [ret EXCEPT ![p] = FALSE]
  /\ Goto(p, "open")
  /\ UNCHANGED <<snap, holder, age, misses, file, tmp, staged, acked, stolen>>

\* Mutant of Open: the lock file is opened without O_EXCL.
OpenShared(p) ==
  /\ pc[p] = "open"
  /\ holder' = p
  /\ age' = 0
  /\ Goto(p, "load")
  /\ UNCHANGED <<calls, waited, snap, ret, misses, file, tmp, staged, acked, stolen>>

\* OpenFile(O_CREATE|O_EXCL) succeeds only when no lock file exists.
Open(p) ==
  /\ pc[p] = "open"
  /\ \/ /\ holder = Free
        /\ holder' = p
        /\ age' = 0
        /\ Goto(p, "load")
     \/ /\ holder # Free
        /\ Goto(p, "stat")
        /\ UNCHANGED <<holder, age>>
  /\ UNCHANGED <<calls, waited, snap, ret, misses, file, tmp, staged, acked, stolen>>

\* os.Remove of the lock file, by path and with its error ignored: the file goes,
\* or becomes left, who would remove it otherwise.
Removed(left) ==
  \/ holder' = Free /\ UNCHANGED misses
  \/ holder # Free /\ holder' = left /\ misses < MaxMisses /\ misses' = misses + 1

IsStale == holder # Free /\ age > StaleAge

\* Stat the lock file: stale leads to the removal, young to another try, and
\* young past the deadline to "state is locked by another dockup process".
Stat(p) ==
  /\ pc[p] = "stat"
  /\ \/ IsStale /\ Goto(p, "expire")
     \/ ~IsStale /\ waited[p] > Deadline /\ Goto(p, "idle")
     \/ ~IsStale /\ waited[p] <= Deadline /\ Goto(p, "open")
  /\ UNCHANGED <<calls, waited, snap, ret, holder, age, misses, file, tmp, staged, acked,
                 stolen>>

\* Mutant of RemoveStale: the removal fails every time, and is not reported.
RemoveNothing(p) ==
  /\ pc[p] = "expire"
  /\ Goto(p, "open")
  /\ UNCHANGED <<calls, waited, snap, ret, holder, age, misses, file, tmp, staged, acked, stolen>>

\* The lock file that exists now may no longer be the one that was found stale.
\* The loop goes on at once, without a look at the deadline.
RemoveStale(p) ==
  /\ pc[p] = "expire"
  /\ Removed(holder)
  /\ stolen' = (stolen \/ (holder \in Proc /\ holder' = Free))
  /\ Goto(p, "open")
  /\ UNCHANGED <<calls, waited, snap, ret, age, file, tmp, staged, acked>>

\* Mutant of LoadState: a state that was not read is taken for an empty one.
LoadEmpty(p) ==
  /\ pc[p] = "load"
  /\ snap' = [snap EXCEPT ![p] = {Mine(p)}]
  /\ Goto(p, "create")
  /\ UNCHANGED <<calls, waited, ret, holder, age, misses, file, tmp, staged, acked, stolen>>

\* Load, then fn(&s).
LoadState(p) ==
  /\ pc[p] = "load"
  /\ file.whole
  /\ snap' = [snap EXCEPT ![p] = file.ups \cup {Mine(p)}]
  /\ Goto(p, "create")
  /\ UNCHANGED <<calls, waited, ret, holder, age, misses, file, tmp, staged, acked, stolen>>

\* Save: os.WriteFile creates or truncates the temporary file ...
CreateTmp(p) ==
  /\ pc[p] = "create"
  /\ tmp' = Truncated
  /\ staged' = TRUE
  /\ Goto(p, "write")
  /\ UNCHANGED <<calls, waited, snap, ret, holder, age, misses, file, acked, stolen>>

\* ... and writes it; bytes another writer left there may outlast ours.
WriteTmp(p) ==
  /\ pc[p] = "write"
  /\ \E w \in (IF tmp = Truncated THEN {TRUE} ELSE BOOLEAN) :
        tmp' = [ups |-> snap[p], whole |-> w]
  /\ Goto(p, "rename")
  /\ UNCHANGED <<calls, waited, snap, ret, holder, age, misses, file, staged, acked, stolen>>

\* os.Rename: it needs the file, and Windows refuses while another process
\* holds it open for writing.
RenameTmp(p) ==
  /\ pc[p] = "rename"
  /\ staged
  /\ \A q \in Proc : pc[q] # "write"
  /\ file' = tmp
  /\ staged' = FALSE
  /\ ret' = [ret EXCEPT ![p] = TRUE]
  /\ Goto(p, "unlock")
  /\ UNCHANGED <<calls, waited, snap, holder, age, misses, tmp, acked, stolen>>

\* Load, fn or Save returns an error: nothing more is written.
Abandon(p) ==
  /\ pc[p] \in {"load", "create", "write", "rename"}
  /\ Goto(p, "unlock")
  /\ UNCHANGED <<calls, waited, snap, ret, holder, age, misses, file, tmp, staged, acked,
                 stolen>>

\* The deferred os.Remove, of whatever lock file exists now, and the return.
Unlock(p) ==
  /\ pc[p] = "unlock"
  /\ Removed(IF holder = p THEN Orphan ELSE holder)
  /\ stolen' = (stolen \/ (holder \in Proc \ {p} /\ holder' = Free))
  /\ acked' = IF ret[p] THEN acked \cup {Mine(p)} ELSE acked
  /\ Goto(p, "idle")
  /\ UNCHANGED <<calls, waited, snap, ret, age, file, tmp, staged>>

-----------------------------------------------------------------------------
\* The process is killed (a power cut, Task Manager, dockup shutdown): its
\* handles close, its files stay.
Crash(p) ==
  /\ Crashes
  /\ pc[p] # "idle"
  /\ Goto(p, "idle")
  /\ holder' = IF holder = p THEN Orphan ELSE holder
  /\ UNCHANGED <<calls, waited, snap, ret, age, misses, file, tmp, staged, acked, stolen>>

\* Time passes for the lock file and for every caller that waits for it.
Tick ==
  /\ \/ holder # Free /\ age <= StaleAge
     \/ \E p \in Proc : pc[p] \in Waiting /\ waited[p] <= Deadline
  /\ Timely => ~(holder \in Proc /\ age = StaleAge)
  /\ age' = IF holder # Free /\ age <= StaleAge THEN age + 1 ELSE age
  /\ waited' = [p \in Proc |->
                  IF pc[p] \in Waiting /\ waited[p] <= Deadline
                  THEN waited[p] + 1 ELSE waited[p]]
  /\ UNCHANGED <<pc, calls, snap, ret, holder, misses, file, tmp, staged, acked, stolen>>

\* The steps WithLock itself takes.
Advance(p) ==
  \/ Open(p) \/ Stat(p) \/ RemoveStale(p) \/ LoadState(p) \/ CreateTmp(p)
  \/ WriteTmp(p) \/ RenameTmp(p) \/ Abandon(p) \/ Unlock(p)

Next ==
  \/ \E p \in Proc : Begin(p)
  \/ \E p \in Proc : Open(p)
  \/ \E p \in Proc : Stat(p)
  \/ \E p \in Proc : RemoveStale(p)
  \/ \E p \in Proc : LoadState(p)
  \/ \E p \in Proc : CreateTmp(p)
  \/ \E p \in Proc : WriteTmp(p)
  \/ \E p \in Proc : RenameTmp(p)
  \/ \E p \in Proc : Abandon(p)
  \/ \E p \in Proc : Unlock(p)
  \/ \E p \in Proc : Crash(p)
  \/ Tick

Spec == Init /\ [][Next]_vars

\* A running process is scheduled and the clock advances.
Fairness == WF_vars(Tick) /\ \A p \in Proc : WF_vars(Advance(p))

FairSpec == Spec /\ Fairness

-----------------------------------------------------------------------------
TypeOK ==
  /\ pc \in [Proc -> {"idle"} \cup Waiting \cup Critical]
  /\ calls \in [Proc -> 0..MaxCalls]
  /\ waited \in [Proc -> 0..(Deadline + 1)]
  /\ snap \in [Proc -> SUBSET Update]
  /\ ret \in [Proc -> BOOLEAN]
  /\ holder \in Proc \cup {Free, Orphan}
  /\ age \in 0..(StaleAge + 1)
  /\ misses \in 0..MaxMisses
  /\ file \in Content
  /\ tmp \in Content
  /\ staged \in BOOLEAN
  /\ acked \in SUBSET Update
  /\ stolen \in BOOLEAN

-----------------------------------------------------------------------------
\* WithLock "serializes read-modify-write": two processes are never between
\* the exclusive create and the deferred remove at once.
Mutex == \A p, q \in Proc : InCS(p) /\ InCS(q) => p = q

\* An update whose call returned nil is in state.json from then on: no other
\* process writes back a state it loaded before that update.
NoLostUpdate == acked \subseteq file.ups

\* state.json parses whenever a process may read it (status, ps and the boot
\* of the daemon read it without the lock).
AlwaysParses == file.whole

\* The same promises, as long as no lock file is removed under its live
\* creator: every failure of WithLock starts with such a removal.
SafeUnlessStolen == ~stolen => Mutex /\ NoLostUpdate /\ AlwaysParses

\* Implements the abstract cell: each step of WithLock is an atomic update on
\* top of the state.json of that moment, an acknowledgement, or invisible.
Store == INSTANCE StateStore WITH Updates <- Update, stored <- file.ups
StoreSpec == Store!Spec

\* Step by step, as long as no lock file was removed under its live creator.
StoreSteps == [][~stolen => Store!Next]_<<file.ups, acked>>

\* A call gives up or gets the lock, and returns: nobody waits forever on the
\* lock file of a dead process, or on one that could not be removed for a while.
\* (As long as it cannot, the call spins, past its deadline: state.go:90.)
CallsReturn == \A p \in Proc : pc[p] = "open" ~> pc[p] = "idle"

-----------------------------------------------------------------------------
\* The inductive invariant.  While no lock was stolen the process in its
\* critical section is the one the lock file stands for, what it loaded is
\* still what state.json holds, and the temporary file is its own.
Owner ==
  ~stolen =>
    /\ \A p \in Proc : InCS(p) => holder = p
    /\ \A p \in Proc : pc[p] \in {"create", "write", "rename"}
                         => snap[p] = file.ups \cup {Mine(p)}
    /\ \A p \in Proc : pc[p] = "write" => tmp = Truncated
    /\ \A p \in Proc : pc[p] = "rename"
                         => tmp = [ups |-> snap[p], whole |-> TRUE]
    /\ \A p \in Proc : pc[p] = "unlock" /\ ret[p] => Mine(p) \in file.ups
    /\ AlwaysParses
    /\ NoLostUpdate

Pending == Waiting \cup {"load", "create", "write", "rename"}

\* A call in progress is counted, so Mine(p) is an update, and it returns nil
\* only past the rename.
Numbered ==
  /\ \A p \in Proc : pc[p] # "idle" => calls[p] \in 1..MaxCalls
  /\ \A p \in Proc : pc[p] \in Pending => ~ret[p]

\* An update reaches state.json only in the call that makes it.
Fresh ==
  ~stolen =>
    /\ \A p \in Proc, n \in 1..MaxCalls : <<p, n>> \in file.ups => n <= calls[p]
    /\ \A p \in Proc : pc[p] \in Pending => Mine(p) \notin file.ups

IInv == TypeOK /\ Numbered /\ Owner /\ Fresh
=============================================================================
