---------------------------- MODULE RuntimeManager ----------------------------
(***************************************************************************)
(* The runtime manager (internal/runtime/manager.go): the registry of      *)
(* worker processes keyed by runtime and subcontext, their leases, and the *)
(* JSON-RPC exchange with a worker over its stdin and stdout.  Its callers *)
(* are tasks and API requests: EnsureReady (acp_submit.go), one call at a  *)
(* time through acpSessionTransport, StopTarget and StopAll.               *)
(*                                                                         *)
(* A runtime may stop reading or answering at any time, close its stdout,  *)
(* or die.  Notifications are in AcpRun; EnsureProcess, which starts a     *)
(* runtime without a pipe, is used by test adapters only.                  *)
(***************************************************************************)
EXTENDS Naturals, Sequences, FiniteSets, FiniteSetsExt

CONSTANTS Keys,      \* runtime and subcontext, the argument of entryKey
          Callers,   \* goroutines that use the manager
          Workers,   \* bound: processes that may be started
          None,
          MaxCalls   \* bound: requests to all workers together

ASSUME ManagerAssumption ==
  /\ None \notin Keys \cup Callers \cup Workers
  /\ MaxCalls \in Nat

VARIABLES entries,  \* Manager.entries: the registered worker of a key
          proc,     \* the process; killed: signalled and not yet reaped
          lease,    \* its row in runtime_leases
          launch,   \* its row in launch_history
          loop,     \* readLoop: reading or ended
          writer,   \* who holds writeMu
          calls,    \* requests of a worker, by id: see CallRecord
          caller    \* the goroutines: see CallerState

registry == <<entries, proc, lease, launch>>
rpc == <<loop, writer, calls>>
vars == <<entries, proc, lease, launch, loop, writer, calls, caller>>

\* wire: what the runtime has done about a request; chan: the response channel
\* ("answer": one message buffered, and closed); pending: in StdioWorker.pending.
CallRecord == [wire : {"unsent", "asked", "answered"},
               chan : {"empty", "answer", "closed"},
               pending : BOOLEAN]

\* The last thing a goroutine did, for the key it works on.  EnsureStdioWorker:
\* missed .. ready; the probe of EnsureReady and any other call: running,
\* called, writing, waiting, late; Stop: removed.
Steps == {"idle", "missed", "spawned", "ready", "running",
          "called", "writing", "waiting", "late", "removed"}

\* why: the first or second probe of EnsureReady, another call, or a stop;
\* victims: workers a stop has taken out of the registry.
CallerState == [at : Steps, why : {"probe", "reprobe", "call", "stop"},
                key : Keys, worker : Workers \cup {None}, id : Nat,
                victims : SUBSET Workers]

RuntimeTypeOK ==
  /\ entries \in [Keys -> Workers \cup {None}]
  /\ proc \in [Workers -> {"none", "live", "killed", "exited"}]
  /\ lease \in [Workers -> {"none", "held", "released"}]
  /\ launch \in [Workers -> {"none", "launching", "ready", "failed"}]
  /\ loop \in [Workers -> {"reading", "ended"}]
  /\ writer \in [Workers -> Callers \cup {None}]
  /\ calls \in [Workers -> Seq(CallRecord)]
  /\ caller \in [Callers -> CallerState]

Init ==
  /\ entries = [k \in Keys |-> None]
  /\ proc = [w \in Workers |-> "none"]
  /\ lease = [w \in Workers |-> "none"]
  /\ launch = [w \in Workers |-> "none"]
  /\ loop = [w \in Workers |-> "reading"]
  /\ writer = [w \in Workers |-> None]
  /\ calls = [w \in Workers |-> <<>>]
  /\ caller \in [Callers -> [at : {"idle"}, why : {"stop"}, key : Keys,
                             worker : {None}, id : {0}, victims : {{}}]]

-----------------------------------------------------------------------------
(* Helpers *)

\* ManagedProcess.IsAlive: false once the process has been reaped.
IsAlive(w) == proc[w] \in {"live", "killed"}

Registered(k) == entries[k] # None /\ IsAlive(entries[k])

Goto(c, step) == caller' = [caller EXCEPT ![c].at = step]

\* The operation ends; a local variable lives no longer than its function.
Return(c) == caller' = [caller EXCEPT ![c].at = "idle", ![c].why = "stop",
                                      ![c].worker = None, ![c].id = 0]

\* An API request or a task starts an operation on some key.
Begin(c, k, step, why) ==
  /\ caller[c].at = "idle"
  /\ caller' = [caller EXCEPT ![c].at = step, ![c].why = why, ![c].key = k]

Call(c) == calls[caller[c].worker][caller[c].id]

-----------------------------------------------------------------------------
(* EnsureStdioWorker *)

\* A registered worker is reused; the lookup holds m.mu, what follows does not.
Ensure(c, k, why) ==
  /\ Begin(c, k, IF Registered(k) THEN "running" ELSE "missed", why)
  /\ UNCHANGED <<registry, rpc>>

\* InsertLaunchHistory, then spawnStdioWorker.
Spawn(c) ==
  /\ caller[c].at = "missed"
  /\ \E w \in Workers : launch[w] = "none"
  /\ LET w == CHOOSE w \in Workers : launch[w] = "none"
     IN /\ launch' = [launch EXCEPT ![w] = "launching"]
        /\ proc' = [proc EXCEPT ![w] = "live"]
        /\ caller' = [caller EXCEPT ![c].at = "spawned", ![c].worker = w]
  /\ UNCHANGED <<entries, lease, rpc>>

\* No launch record, or the command cannot be started.
SpawnFails(c) ==
  /\ caller[c].at = "missed"
  /\ Return(c)
  /\ UNCHANGED <<registry, rpc>>

\* After 200 ms.
ExitedEarly(c) ==
  LET w == caller[c].worker IN
  /\ caller[c].at = "spawned" /\ ~IsAlive(w)
  /\ launch' = [launch EXCEPT ![w] = "failed"]
  /\ Return(c)
  /\ UNCHANGED <<entries, proc, lease, rpc>>

\* InsertLease and FinishLaunchHistory.
RecordReady(c) ==
  LET w == caller[c].worker IN
  /\ caller[c].at = "spawned" /\ IsAlive(w)
  /\ lease' = [lease EXCEPT ![w] = "held"]
  /\ launch' = [launch EXCEPT ![w] = "ready"]
  /\ Goto(c, "ready")
  /\ UNCHANGED <<entries, proc, rpc>>

\* One of the two fails, with the context of the request or with the store: the
\* process keeps running, its lease held or not.
RecordFails(c) ==
  LET w == caller[c].worker IN
  /\ caller[c].at = "spawned" /\ IsAlive(w)
  /\ \E row \in {"none", "held"} : lease' = [lease EXCEPT ![w] = row]
  /\ Return(c)
  /\ UNCHANGED <<entries, proc, launch, rpc>>

\* The entry of the key is overwritten, whatever it holds by now.
Register(c) ==
  /\ caller[c].at = "ready"
  /\ entries' = [entries EXCEPT ![caller[c].key] = caller[c].worker]
  /\ Goto(c, "running")
  /\ UNCHANGED <<proc, lease, launch, rpc>>

-----------------------------------------------------------------------------
(* RequestWithTimeout, by way of acpSessionTransport *)

\* Plausible bug: the id of a request that was given up is used again.
StartCallReusingId(c) ==
  LET w == entries[caller[c].key] IN
  /\ caller[c].at = "running" /\ Registered(caller[c].key)
  /\ LET n == IF \E i \in DOMAIN calls[w] : ~calls[w][i].pending
                THEN CHOOSE i \in DOMAIN calls[w] : ~calls[w][i].pending
                ELSE Len(calls[w]) + 1
     IN /\ n <= MaxCalls
        /\ calls' = [calls EXCEPT ![w] =
             [i \in 1..(IF n > Len(@) THEN n ELSE Len(@)) |->
                IF i = n THEN [wire |-> IF i \in DOMAIN @ THEN @[i].wire ELSE "unsent",
                               chan |-> "empty", pending |-> TRUE] ELSE @[i]]]
        /\ caller' = [caller EXCEPT ![c].at = "called", ![c].worker = w, ![c].id = n]
  /\ UNCHANGED <<registry, loop, writer>>

\* GetStdioWorker, the next id, and the entry in the pending map.
StartCall(c) ==
  LET w == entries[caller[c].key] IN
  /\ caller[c].at = "running" /\ Registered(caller[c].key)
  /\ MapThenSumSet(LAMBDA v : Len(calls[v]), Workers) < MaxCalls
  /\ calls' = [calls EXCEPT ![w] =
       Append(@, [wire |-> "unsent", chan |-> "empty", pending |-> TRUE])]
  /\ caller' = [caller EXCEPT ![c].at = "called", ![c].worker = w,
                              ![c].id = Len(calls[w]) + 1]
  /\ UNCHANGED <<registry, loop, writer>>

MissingWorker(c) ==
  /\ caller[c].at = "running" /\ ~Registered(caller[c].key)
  /\ Return(c)
  /\ UNCHANGED <<registry, rpc>>

LockWrite(c) ==
  LET w == caller[c].worker IN
  /\ caller[c].at = "called" /\ writer[w] = None
  /\ writer' = [writer EXCEPT ![w] = c]
  /\ Goto(c, "writing")
  /\ UNCHANGED <<registry, loop, calls>>

\* The write returns when the pipe has room, which is up to the runtime.
Write(c) ==
  LET w == caller[c].worker IN
  /\ caller[c].at = "writing" /\ proc[w] # "exited"
  /\ calls' = [calls EXCEPT ![w][caller[c].id].wire = "asked"]
  /\ writer' = [writer EXCEPT ![w] = None]
  /\ Goto(c, "waiting")
  /\ UNCHANGED <<registry, loop>>

\* Plausible bug: the error path forgets the mutex.
WriteFailsLocked(c) ==
  /\ caller[c].at = "writing" /\ proc[caller[c].worker] = "exited"
  /\ Return(c)
  /\ UNCHANGED <<registry, rpc>>

\* A broken pipe; the entry in the pending map stays.
WriteFails(c) ==
  LET w == caller[c].worker IN
  /\ caller[c].at = "writing" /\ proc[w] = "exited"
  /\ writer' = [writer EXCEPT ![w] = None]
  /\ Return(c)
  /\ UNCHANGED <<registry, loop, calls>>

\* A result, or an error of the runtime; EnsureReady and the call are done.
TakeAnswer(c) ==
  /\ caller[c].at = "waiting" /\ Call(c).chan = "answer"
  /\ Return(c)
  /\ UNCHANGED <<registry, rpc>>

\* The select may choose this although the answer is there.
WorkerGone(c) ==
  /\ caller[c].at = "waiting"
  /\ Call(c).chan = "closed" \/ loop[caller[c].worker] = "ended"
  /\ Return(c)
  /\ UNCHANGED <<registry, rpc>>

TimeOut(c) ==
  /\ caller[c].at = "waiting"
  /\ calls' = [calls EXCEPT ![caller[c].worker][caller[c].id].pending = FALSE]
  /\ Goto(c, "late")
  /\ UNCHANGED <<registry, loop, writer>>

-----------------------------------------------------------------------------
(* Stop and StopAll *)

\* A stop or a timed-out call goes on: the first probe launches once more.
AfterStop(c) ==
  IF caller[c].why = "probe"
    THEN IF Registered(caller[c].key) THEN "running" ELSE "missed"
    ELSE "idle"

WhyNext(why, next) ==
  CASE next = "removed" -> why [] next = "idle" -> "stop" [] OTHER -> "reprobe"

StopKeys(c, ks) ==
  LET found == {entries[k] : k \in ks} \ {None}
      next == IF found = {} THEN AfterStop(c) ELSE "removed"
  IN /\ entries' = [k \in Keys |-> IF k \in ks THEN None ELSE entries[k]]
     /\ caller' = [caller EXCEPT
          ![c].at = next,
          ![c].why = WhyNext(@, next),
          ![c].worker = None, ![c].id = 0, ![c].victims = found]
     /\ UNCHANGED <<proc, lease, launch, rpc>>

Stop(c) == caller[c].at = "idle" /\ \E k \in Keys : StopKeys(c, {k})

StopAll(c) == caller[c].at = "idle" /\ StopKeys(c, Keys)

\* Plausible bug: the worker is killed and its entry stays.
StopKeepingEntry(c) ==
  /\ caller[c].at = "late"
  /\ entries[caller[c].key] # None
  /\ caller' = [caller EXCEPT ![c].at = "removed", ![c].worker = None, ![c].id = 0,
                              ![c].victims = {entries[caller[c].key]}]
  /\ UNCHANGED <<registry, rpc>>

\* acpSessionTransport.request stops whatever its key names now.
StopLate(c) == caller[c].at = "late" /\ StopKeys(c, {caller[c].key})

\* Kill signals and returns; a ReleaseLease that fails is left out.
KillAndRelease(c) ==
  \E w \in caller[c].victims :
    LET rest == caller[c].victims \ {w}
        next == IF rest = {} THEN AfterStop(c) ELSE "removed"
    IN /\ caller[c].at = "removed"
       /\ proc' = [proc EXCEPT ![w] = IF @ = "live" THEN "killed" ELSE @]
       /\ lease' = [lease EXCEPT ![w] = "released"]
       /\ caller' = [caller EXCEPT ![c].at = next, ![c].victims = rest,
                                   ![c].why = WhyNext(@, next)]
       /\ UNCHANGED <<entries, launch, rpc>>

-----------------------------------------------------------------------------
(* The runtime, and readLoop *)

Exit(w) ==
  /\ proc[w] \in {"live", "killed"}
  /\ proc' = [proc EXCEPT ![w] = "exited"]
  /\ UNCHANGED <<entries, lease, launch, rpc, caller>>

\* Plausible bug: an answered request stays in the pending map.
ReadAnswerKeeping(w) ==
  /\ loop[w] = "reading"
  /\ \E i \in DOMAIN calls[w] :
       /\ calls[w][i].wire = "asked"
       /\ calls' = [calls EXCEPT ![w][i].wire = "answered",
            ![w][i].chan = IF calls[w][i].pending THEN "answer" ELSE @]
  /\ UNCHANGED <<registry, loop, writer, caller>>

\* An answer, which may outlive the runtime in the pipe, goes to the channel of its
\* id; one nobody waits for is dropped.
ReadAnswer(w) ==
  /\ loop[w] = "reading"
  /\ \E i \in DOMAIN calls[w] :
       /\ calls[w][i].wire = "asked"
       /\ calls' = [calls EXCEPT ![w][i] =
            [wire |-> "answered", pending |-> FALSE,
             chan |-> IF @.pending THEN "answer" ELSE @.chan]]
  /\ UNCHANGED <<registry, loop, writer, caller>>

\* End of file, a line longer than the scanner's buffer, or the read end that
\* Wait closes under the loop: unread answers are lost, the pending channels are
\* closed, and so is the worker's closed channel.
EndLoop(w) ==
  /\ proc[w] # "none" /\ loop[w] = "reading"
  /\ loop' = [loop EXCEPT ![w] = "ended"]
  /\ calls' = [calls EXCEPT ![w] = [i \in DOMAIN @ |->
       IF @[i].pending THEN [@[i] EXCEPT !.pending = FALSE, !.chan = "closed"]
       ELSE @[i]]]
  /\ UNCHANGED <<registry, writer, caller>>

-----------------------------------------------------------------------------
EnsureStep(c) ==
  \/ Spawn(c) \/ SpawnFails(c) \/ ExitedEarly(c)
  \/ RecordReady(c) \/ RecordFails(c) \/ Register(c)

CallStep(c) ==
  \/ StartCall(c) \/ MissingWorker(c) \/ LockWrite(c) \/ Write(c) \/ WriteFails(c)
  \/ TakeAnswer(c) \/ WorkerGone(c) \/ TimeOut(c)

StopStep(c) == Stop(c) \/ StopAll(c) \/ StopLate(c) \/ KillAndRelease(c)

BeginCall(c, k) == Begin(c, k, "running", "call") /\ UNCHANGED <<registry, rpc>>

Next ==
  \/ \E c \in Callers :
       \/ \E k \in Keys : Ensure(c, k, "probe") \/ BeginCall(c, k)
       \/ EnsureStep(c) \/ CallStep(c) \/ StopStep(c)
  \/ \E w \in Workers :
       Exit(w) \/ ReadAnswer(w) \/ EndLoop(w)

Spec == Init /\ [][Next]_vars

\* Goroutines run on.  No runtime reads, answers or exits by necessity, and no
\* timeout is assumed: what follows has to come from the exit itself.
FairSpec ==
  /\ Spec
  /\ \A c \in Callers : WF_vars(LockWrite(c)) /\ WF_vars(WriteFails(c))
                        /\ WF_vars(WorkerGone(c))
  /\ \A w \in Workers : WF_vars(proc[w] = "exited" /\ EndLoop(w))

-----------------------------------------------------------------------------
InCall == {"called", "writing", "waiting"}

CallsDead(c) == caller[c].at \in InCall /\ proc[caller[c].worker] = "exited"

(***************************************************************************)
(* The registry hands out no worker that a stop has killed or is about to: *)
(* Stop takes the entry out under the mutex before it kills, two stops     *)
(* never share a worker, and a registered worker has its lease and a       *)
(* finished launch.  IsAlive lags behind a kill, so the order is all that  *)
(* protects the next caller.                                               *)
(***************************************************************************)
RegistryIsSound ==
  /\ RuntimeTypeOK
  /\ \A k \in Keys : entries[k] # None =>
       /\ lease[entries[k]] = "held" /\ launch[entries[k]] = "ready"
       /\ proc[entries[k]] # "killed"
       /\ \A c \in Callers : entries[k] \notin caller[c].victims
  /\ \A c, d \in Callers : c # d => caller[c].victims \cap caller[d].victims = {}

(***************************************************************************)
(* An answer reaches the call it answers and no other: not the next call   *)
(* of a caller that gave up, not one that has not been written yet.        *)
(***************************************************************************)
AnswersOwnCall ==
  /\ \A c \in Callers : caller[c].at \in InCall /\ Call(c).chan = "answer" =>
       caller[c].at = "waiting" /\ Call(c).wire = "answered"
  /\ \A c, d \in Callers :
       /\ c # d /\ caller[c].at \in InCall /\ caller[d].at \in InCall
       /\ caller[c].worker = caller[d].worker
       => caller[c].id # caller[d].id

(***************************************************************************)
(* readLoop, the timeout and the end of the loop take a channel out of the *)
(* pending map before they close it, so no channel is closed twice (which  *)
(* panics); and a caller that is still waiting can be reached, through its *)
(* channel or, when it came after the loop drained the map, through        *)
(* closed.                                                                 *)
(***************************************************************************)
NoCallIsStranded ==
  /\ \A w \in Workers : \A i \in DOMAIN calls[w] :
       calls[w][i].pending => calls[w][i].chan = "empty"
  /\ \A c \in Callers : caller[c].at \in InCall =>
       \/ Call(c).pending \/ Call(c).chan # "empty"
       \/ loop[caller[c].worker] = "ended"

(***************************************************************************)
(* A worker that dies lets every caller go, without its timeout: the one   *)
(* that waits for an answer, the one blocked in the write, and those that  *)
(* queue for the mutex behind it (manager_test.go, "process dies before    *)
(* reply").                                                                *)
(***************************************************************************)
DeadWorkerFreesCallers ==
  \A c \in Callers :
     CallsDead(c) ~> ~CallsDead(c)

(***************************************************************************)
(* docs/adapter_contracts.md asks for one live worker per executor: "if an *)
(* alive worker already exists for the executor, reuse it".                *)
(***************************************************************************)
OneWorkerPerKey ==
  Cardinality({w \in Workers : proc[w] = "live" /\ launch[w] = "ready"})
    <= Cardinality(Keys)
=============================================================================
