--------------------------- MODULE ProcessLedger ---------------------------
(* Supervised child processes (src/src/core/process_supervisor.py,           *)
(* _process_ledger.py, _process_orphans.py).  The server and the worker      *)
(* daemon each launch one crawler at a time and share one ledger file, which *)
(* they read and replace whole; each reconciles it once when it starts.      *)
EXTENDS Naturals, FiniteSets

CONSTANTS
    Supervisors,  \* the processes of this engine
    Patient,      \* those that reconcile before they launch: the daemon
    Pids,         \* the operating system's process ids
    MaxStarts     \* bound on the processes that are ever started

ASSUME LedgerAssumption ==
    Patient \subseteq Supervisors /\ 0 \notin Pids /\ MaxStarts \in Nat

VARIABLES
    holder,   \* pid -> start time of the process that has it, 0 when free
    parent,   \* pid -> the pid that its holder was started from, 0 for one outside Pids
    started,  \* the clock of start times
    kids,     \* the children that are alive
    ledger,   \* the file's entries
    sup,      \* each supervisor's own state
    missed,   \* orphans that were not killed when others of their tree were
    torn      \* a ledger write replaced entries its writer had not read

ledgerVars == <<holder, parent, started, kids, ledger, sup, missed, torn>>

Identity == [pid : Pids, start : 1 .. MaxStarts]
Entry == [child : Identity, owner : Identity]
Kid == [id : Identity, owner : Identity, enrolled : BOOLEAN, jobbed : BOOLEAN, resumed : BOOLEAN]

Alive(id) == holder[id.pid] = id.start

\* `me` and `child` hold at most one identity, `mark` the entry of the orphan to be killed;
\* `since` is when it was identified, `targets` what of its tree is still to be killed and `hit`
\* that some of it was.
Down == [me |-> {}, launch |-> "idle", child |-> {}, held |-> {},
         sweep |-> "done", seen |-> {}, todo |-> {}, keep |-> {},
         mark |-> {}, since |-> 0, targets |-> {}, hit |-> FALSE]

LedgerInit ==
    /\ holder = [p \in Pids |-> 0] /\ parent = [p \in Pids |-> 0] /\ started = 0
    /\ kids = {} /\ ledger = {} /\ missed = {} /\ torn = FALSE
    /\ sup = [s \in Supervisors |-> Down]

Owner(s) == CHOOSE id \in sup[s].me : TRUE
Child(s) == CHOOSE id \in sup[s].child : TRUE
EntryOf(s) == [child |-> Child(s), owner |-> Owner(s)]
IsMine(s, k) == k.id \in sup[s].child

\* A supervisor's handle on its child keeps the child's pid from being given away.
HandleClosed == {"terminated", "removing"}
Reserved(p) ==
    \E s \in Supervisors : sup[s].launch \notin HandleClosed /\ \E id \in sup[s].child : id.pid = p

\* The operating system starts a process on a free pid; the pid of the one that asked for it
\* stays recorded when that one is gone.
Starts(p, from) ==
    /\ holder[p] = 0 /\ ~Reserved(p) /\ started < MaxStarts
    /\ started' = started + 1
    /\ holder' = [holder EXCEPT ![p] = started + 1]
    /\ parent' = [parent EXCEPT ![p] = from]

Running(p) == [pid |-> p, start |-> holder[p]]
Strangers ==
    {p \in Pids : /\ holder[p] # 0
                  /\ \A s \in Supervisors : Running(p) \notin sup[s].me
                  /\ \A k \in kids : k.id # Running(p)}

NewIdentity(p) == [pid |-> p, start |-> started + 1]

Die(gone) ==
    /\ holder' = [p \in Pids |-> IF \E id \in gone : id.pid = p /\ Alive(id) THEN 0 ELSE holder[p]]
    /\ parent' = [p \in Pids |-> IF holder'[p] = 0 THEN 0 ELSE parent[p]]
    /\ kids' = {k \in kids : k.id \notin gone}

Write(entries, read) ==
    /\ ledger' = entries
    /\ torn' = (torn \/ ledger # read)

-----------------------------------------------------------------------------
(* launch_supervised and SupervisedProcess.terminate.                        *)

StartSupervisor(s) ==
    /\ sup[s].me = {}
    /\ \E p \in Pids, from \in Strangers \cup {0} :
         /\ Starts(p, from)
         /\ sup' = [sup EXCEPT ![s].me = {NewIdentity(p)}, ![s].sweep = "unread"]
    /\ UNCHANGED <<kids, ledger, missed, torn>>

CreateSuspended(s) ==
    /\ sup[s].me # {} /\ sup[s].launch = "idle"
    /\ s \in Patient => sup[s].sweep = "done"
    /\ \E p \in Pids :
         /\ Starts(p, Owner(s).pid)
         /\ sup' = [sup EXCEPT ![s].child = {NewIdentity(p)}, ![s].launch = "created"]
         /\ kids' = kids \cup {[id |-> NewIdentity(p), owner |-> Owner(s),
                                enrolled |-> FALSE, jobbed |-> FALSE, resumed |-> FALSE]}
    /\ UNCHANGED <<ledger, missed, torn>>

Reading == [created |-> "enrolling", assigned |-> "naming", terminated |-> "removing"]

\* upsert_entry and remove_entry read the file first; one that cannot be read is taken as empty.
ReadLedger(s) ==
    /\ sup[s].launch \in DOMAIN Reading
    /\ \E read \in {ledger, {}} :
         sup' = [sup EXCEPT ![s].launch = Reading[@], ![s].held = read]
    /\ UNCHANGED <<holder, parent, started, kids, ledger, missed, torn>>

Enrol(s) ==
    /\ sup[s].launch = "enrolling"
    /\ Write(sup[s].held \cup {EntryOf(s)}, sup[s].held)
    /\ kids' = {IF IsMine(s, k) THEN [k EXCEPT !.enrolled = TRUE] ELSE k : k \in kids}
    /\ sup' = [sup EXCEPT ![s].launch = "enrolled", ![s].held = {}]
    /\ UNCHANGED <<holder, parent, started, missed>>

\* The write fails: nothing terminates the suspended child.
EnrolFails(s) ==
    /\ sup[s].launch = "enrolling"
    /\ sup' = [sup EXCEPT ![s].launch = "idle", ![s].child = {}, ![s].held = {}]
    /\ UNCHANGED <<holder, parent, started, kids, ledger, missed, torn>>

\* Mistake: the job object does not kill its processes when its last handle is closed.
AssignWithoutLimit(s) ==
    /\ sup[s].launch = "enrolled"
    /\ sup' = [sup EXCEPT ![s].launch = "assigned"]
    /\ UNCHANGED <<holder, parent, started, kids, ledger, missed, torn>>

AssignJob(s) ==
    /\ sup[s].launch = "enrolled"
    /\ kids' = {IF IsMine(s, k) THEN [k EXCEPT !.jobbed = TRUE] ELSE k : k \in kids}
    /\ sup' = [sup EXCEPT ![s].launch = "assigned"]
    /\ UNCHANGED <<holder, parent, started, ledger, missed, torn>>

AssignFails(s) ==
    /\ sup[s].launch = "enrolled"
    /\ Die(sup[s].child)
    /\ sup' = [sup EXCEPT ![s].launch = "terminated"]
    /\ UNCHANGED <<started, ledger, missed, torn>>

NameJob(s) ==
    /\ sup[s].launch = "naming"
    /\ Write(sup[s].held \cup {EntryOf(s)}, sup[s].held)
    /\ sup' = [sup EXCEPT ![s].launch = "named", ![s].held = {}]
    /\ UNCHANGED <<holder, parent, started, kids, missed>>

\* The write fails: the job's handle goes with the call, and the child with the handle.
NameFails(s) ==
    /\ sup[s].launch = "naming"
    /\ Die(sup[s].child)
    /\ sup' = [sup EXCEPT ![s].launch = "idle", ![s].child = {}, ![s].held = {}]
    /\ UNCHANGED <<started, ledger, missed, torn>>

ResumeThread(s) ==
    /\ sup[s].launch = "named"
    /\ kids' = {IF IsMine(s, k) THEN [k EXCEPT !.resumed = TRUE] ELSE k : k \in kids}
    /\ sup' = [sup EXCEPT ![s].launch = "watching"]
    /\ UNCHANGED <<holder, parent, started, ledger, missed, torn>>

\* The child has exited, or has run for too long.
Terminate(s) ==
    /\ sup[s].launch = "watching"
    /\ Die(sup[s].child)
    /\ sup' = [sup EXCEPT ![s].launch = "terminated"]
    /\ UNCHANGED <<started, ledger, missed, torn>>

RemoveEntry(s) ==
    /\ sup[s].launch = "removing"
    /\ IF EntryOf(s) \in sup[s].held
       THEN Write(sup[s].held \ {EntryOf(s)}, sup[s].held)
       ELSE UNCHANGED <<ledger, torn>>
    /\ sup' = [sup EXCEPT ![s].launch = "idle", ![s].child = {}, ![s].held = {}]
    /\ UNCHANGED <<holder, parent, started, kids, missed>>

-----------------------------------------------------------------------------
(* reconcile_orphans.  It does not take the lock of the functions above.     *)

SweepReads(s) ==
    /\ sup[s].sweep = "unread"
    /\ \E read \in {ledger, {}} :
         sup' = [sup EXCEPT ![s].sweep = "judging", ![s].seen = read, ![s].todo = read]
    /\ UNCHANGED <<holder, parent, started, kids, ledger, missed, torn>>

Judged(s, e, kept) == sup' = [sup EXCEPT ![s].todo = @ \ {e}, ![s].keep = @ \cup kept]

Spare(s, e) == Judged(s, e, {e})
Drop(s, e) == Judged(s, e, {})

Mark(s, e) ==
    sup' = [sup EXCEPT ![s].todo = @ \ {e}, ![s].sweep = "killing",
                       ![s].mark = {e}, ![s].since = started]

\* Mistake: a pid alone identifies a process.
VerdictByPid(s, e) ==
    \/ Alive(e.owner) /\ Spare(s, e)
    \/ ~Alive(e.owner) /\ holder[e.child.pid] = 0 /\ Drop(s, e)
    \/ ~Alive(e.owner) /\ holder[e.child.pid] # 0 /\ Mark(s, e)

\* Mistake: a supervised child's entry is not written back.
VerdictDroppingWatched(s, e) ==
    \/ Alive(e.owner) /\ Drop(s, e)
    \/ ~Alive(e.owner) /\ ~Alive(e.child) /\ Drop(s, e)
    \/ ~Alive(e.owner) /\ Alive(e.child) /\ Mark(s, e)

Verdict(s, e) ==
    \/ Alive(e.owner) /\ Spare(s, e)
    \/ ~Alive(e.owner) /\ ~Alive(e.child) /\ Drop(s, e)
    \/ ~Alive(e.owner) /\ Alive(e.child) /\ Mark(s, e)

Judge(s) ==
    /\ sup[s].sweep = "judging"
    /\ \E e \in sup[s].todo : Verdict(s, e)
    /\ UNCHANGED <<holder, parent, started, kids, ledger, missed, torn>>

Marked(s) == CHOOSE e \in sup[s].mark : TRUE

\* _descendant_pids: all whose recorded parents lead to a pid.
Below(p) ==
    {q \in Pids : \A S \in SUBSET Pids :
        (\A x \in Pids : holder[x] # 0 /\ parent[x] \in S \cup {p} => x \in S) => q \in S}

\* One snapshot, of what the pid's tree is by now; a pid below itself is walked for ever.  No job
\* object is left to reopen: its last handle was its supervisor's, and it has killed its processes.
TakeSnapshot(s) ==
    /\ sup[s].sweep = "killing"
    /\ LET p == Marked(s).child.pid IN
         /\ p \notin Below(p)
         /\ sup' = [sup EXCEPT ![s].sweep = "walking",
                               ![s].targets = {Marked(s).child} \cup {Running(q) : q \in Below(p)}]
    /\ UNCHANGED <<holder, parent, started, kids, ledger, missed, torn>>

\* What closing the handles of its job objects makes of a supervisor's death.
WithJobs(gone) == gone \cup {k.id : k \in {j \in kids : j.owner \in gone /\ j.jobbed}}

\* TerminateProcess on whatever has the pid now, a supervisor included.
KillTarget(s, t) ==
    LET id == Running(t.pid) IN
    /\ id.start # 0
    /\ Die(WithJobs({id}))
    /\ sup' = [x \in Supervisors |->
         IF id \in sup[x].me THEN Down
         ELSE IF x = s THEN [sup[s] EXCEPT !.targets = @ \ {t}, !.hit = TRUE] ELSE sup[x]]

\* It cannot be opened, or is gone.
MissTarget(s, t) ==
    /\ sup' = [sup EXCEPT ![s].targets = @ \ {t}]
    /\ UNCHANGED <<holder, parent, kids>>

\* The child's pid comes first.
KillTree(s) ==
    /\ sup[s].sweep = "walking"
    /\ \E t \in sup[s].targets :
         /\ Marked(s).child \in sup[s].targets => t = Marked(s).child
         /\ KillTarget(s, t) \/ MissTarget(s, t)
    /\ UNCHANGED <<started, ledger, missed, torn>>

\* The entry goes when any of the tree was killed.
TreeWalked(s) ==
    /\ sup[s].sweep = "walking" /\ sup[s].targets = {}
    /\ sup' = [sup EXCEPT ![s].sweep = "judging", ![s].mark = {}, ![s].since = 0, ![s].hit = FALSE,
                          ![s].keep = IF sup[s].hit THEN @ ELSE @ \cup sup[s].mark]
    /\ missed' = IF sup[s].hit THEN missed \cup {id \in {e.child : e \in sup[s].mark} : Alive(id)}
               ELSE missed
    /\ UNCHANGED <<holder, parent, started, kids, ledger, torn>>

SweepWrites(s) ==
    /\ sup[s].sweep = "judging" /\ sup[s].todo = {}
    /\ Write(sup[s].keep, sup[s].seen)
    /\ sup' = [sup EXCEPT ![s].sweep = "done", ![s].seen = {}, ![s].keep = {}]
    /\ UNCHANGED <<holder, parent, started, kids, missed>>

-----------------------------------------------------------------------------
(* The operating system.                                                     *)

SupervisorDies(s) ==
    /\ sup[s].me # {}
    /\ Die(WithJobs(sup[s].me))
    /\ sup' = [sup EXCEPT ![s] = Down]
    /\ UNCHANGED <<started, ledger, missed, torn>>

\* By itself once it runs, and from outside at any time.
ChildExits(k) ==
    /\ Die({k.id})
    /\ UNCHANGED <<started, ledger, sup, missed, torn>>

StrangerStarts(p) ==
    /\ \E from \in Strangers \cup {0} : Starts(p, from)
    /\ UNCHANGED <<kids, ledger, sup, missed, torn>>

StrangerExits(p) ==
    /\ Die({Running(p)})
    /\ UNCHANGED <<started, ledger, sup, missed, torn>>

LedgerNext ==
    \/ \E s \in Supervisors :
         \/ StartSupervisor(s) \/ CreateSuspended(s) \/ ReadLedger(s) \/ Enrol(s)
         \/ EnrolFails(s) \/ AssignJob(s) \/ AssignFails(s) \/ NameJob(s) \/ NameFails(s)
         \/ ResumeThread(s) \/ Terminate(s) \/ RemoveEntry(s) \/ SweepReads(s) \/ Judge(s)
         \/ TakeSnapshot(s) \/ KillTree(s) \/ TreeWalked(s) \/ SweepWrites(s)
         \/ SupervisorDies(s)
    \/ \E k \in kids : ChildExits(k)
    \/ \E p \in Pids : StrangerStarts(p)
    \/ \E p \in Strangers : StrangerExits(p)

LedgerSpec == LedgerInit /\ [][LedgerNext]_ledgerVars

-----------------------------------------------------------------------------
(* Properties.                                                               *)

\* What a reconciliation kills is the child of a supervisor that is gone, and not a crawl that
\* the other process is watching nor a stranger on a pid that was used again.  The pid is all that
\* the kill itself goes by: it reaches what has taken the pid since the child was identified, and
\* what the parents that are recorded put below it.
ReapsOnlyOrphans ==
    [][\A s \in Supervisors : \A t \in sup[s].targets :
         KillTarget(s, t)
            => \/ \E k \in kids : k.id = Running(t.pid) /\ ~Alive(k.owner)
               \/ holder[t.pid] > sup[s].since
               \/ Alive(t) /\ t # Marked(s).child]_ledgerVars

\* No crawler runs its own code unless the process that launched it is alive: a crash at any
\* step of launch_supervised leaves at most a suspended child.
RunningChildHasSupervisor ==
    \A k \in kids : k.resumed => Alive(k.owner)

\* A child that was recorded and whose supervisor died stays in the ledger for the next
\* reconciliation, unless two read-modify-writes of the file overlapped, one could not read it,
\* or a reconciliation killed some of its tree and not the child.
EnrolledOrphanIsRecorded ==
    \A k \in kids : k.enrolled /\ ~Alive(k.owner) /\ ~torn /\ k.id \notin missed
                    => [child |-> k.id, owner |-> k.owner] \in ledger
=============================================================================
