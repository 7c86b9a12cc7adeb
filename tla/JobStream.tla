----------------------------- MODULE JobStream ------------------------------
(***************************************************************************)
(* One provisioning job and the clients that follow it (server.go):        *)
(*                                                                         *)
(*   - runJob starts one pipeline per VM, waits for all of them, settles   *)
(*     the job's status and logs a final job_complete event;               *)
(*   - every event is appended to job.Events and offered to the listeners  *)
(*     copied in the same critical section; a full channel drops it;       *)
(*   - handleJobEvents replays the log to a client while it holds job.mu,  *)
(*     registers a channel, and streams until job_complete or disconnect;  *)
(*   - handleJobs reads the status without job.mu.                         *)
(*                                                                         *)
(* What a pipeline does between two events is the subject of module        *)
(* Provisioning; here it only emits.                                       *)
(***************************************************************************)
EXTENDS Naturals, Sequences, FiniteSets

CONSTANTS VM,      \* the job's VMs, one pipeline each
          Client,  \* GET /api/jobs/{id}/events requests
          Slow,    \* clients that may stop reading without disconnecting
          Lister,  \* GET /api/jobs requests
          Steps,   \* progress events of a pipeline before "ready" (8)
          Cap      \* capacity of a listener's channel (100)

ASSUME StepsAssumption == Steps \in Nat \ {0}
ASSUME CapAssumption == Cap \in Nat \ {0}
ASSUME ClientAssumption ==
  Slow \subseteq Client /\ "" \notin Client /\ "runner" \notin Client
ASSUME VMAssumption == "job" \notin VM

VARIABLES
  mu,         \* holder of job.mu across steps: "", "runner" or a client
  Events,     \* job.Events
  listeners,  \* clients whose channel is in job.listeners
  Status,     \* the two words of the string job.Status
  done,       \* is job.done closed?
  pipe,       \* per VM: its pipeline
  runner,     \* runJob after wg.Wait
  chan,       \* per client: contents of its channel
  handler,    \* per client: its request
  gone,       \* clients that have disconnected
  list,       \* per lister: the word of the status it has read
  out,        \* history: what each handler has written to its client
  dropped     \* history: events a full channel refused

clients == <<chan, handler, gone, out>>
vars == <<mu, Events, listeners, Status, done, pipe, runner, chan, handler,
          gone, list, out, dropped>>

ProvisionEvent == [vm : VM, n : 1 .. Steps + 1,
                   step : {"progress", "ready", "failed"}]
job_complete == [vm |-> "job", n |-> 0, step |-> "job_complete"]
Event == ProvisionEvent \cup {job_complete}

Word == {"running", "completed", "failed"}

Elements(s) == {s[i] : i \in DOMAIN s}

TypeOK ==
  /\ mu \in {"", "runner"} \cup Client
  /\ mu = "runner" <=> runner.pc = "status"
  /\ \A c \in Client : mu = c <=> handler[c].pc = "replay"
  /\ Events \in Seq(Event)
  /\ listeners \subseteq Client
  /\ Status \in [ptr : Word, len : Word]
  /\ done \in BOOLEAN
  /\ pipe \in [VM -> [pc : {"run", "send", "end"}, n : 0 .. Steps + 1,
                      step : {"progress", "ready", "failed"},
                      to : SUBSET Client]]
  /\ runner \in [pc : {"wait", "status", "send", "end"}, to : SUBSET Client]
  /\ chan \in [Client -> Seq(Event)]
  /\ \A c \in Client : Len(chan[c]) <= Cap
  /\ handler \in [Client -> [pc : {"start", "replay", "stream", "leave", "returned"},
                             i : Nat]]
  /\ gone \subseteq Client
  /\ list \in [Lister -> [ptr : Word \cup {""}, len : Word \cup {""}]]
  /\ out \in [Client -> Seq(Event)]
  /\ dropped \in [Client -> SUBSET Event]

Init ==
  /\ mu = ""
  /\ Events = <<>>
  /\ listeners = {}
  /\ Status = [ptr |-> "running", len |-> "running"]
  /\ done = FALSE
  /\ pipe = [v \in VM |-> [pc |-> "run", n |-> 0, step |-> "progress", to |-> {}]]
  /\ runner = [pc |-> "wait", to |-> {}]
  /\ chan = [c \in Client |-> <<>>]
  /\ handler = [c \in Client |-> [pc |-> "start", i |-> 1]]
  /\ gone = {}
  /\ list = [l \in Lister |-> [ptr |-> "", len |-> ""]]
  /\ out = [c \in Client |-> <<>>]
  /\ dropped = [c \in Client |-> {}]

-----------------------------------------------------------------------------
(* The pipelines and their emit callback                                   *)

\* The event a pipeline is emitting, or emitted last.
EventOf(v) == [vm |-> v, n |-> pipe[v].n, step |-> pipe[v].step]

\* What may follow n events: the first is always "cloning", afterwards the
\* next step can fail, and "ready" comes after all of them.
NextSteps(n) == CASE n = 0 -> {"progress"}
                  [] n \in 1 .. Steps - 1 -> {"progress", "failed"}
                  [] n = Steps -> {"ready", "failed"}

\* Append the event and copy the listeners, in one critical section.
Emit(v) ==
  /\ mu = ""
  /\ pipe[v].pc = "run"
  /\ \E step \in NextSteps(pipe[v].n) :
        /\ pipe' = [pipe EXCEPT ![v] = [pc |-> "send", n |-> @.n + 1,
                                        step |-> step, to |-> listeners]]
        /\ Events' = Append(Events, [vm |-> v, n |-> pipe[v].n + 1, step |-> step])
  /\ UNCHANGED <<mu, listeners, Status, done, runner, clients, list, dropped>>

\* Mutant: a full channel loses its oldest event.
Offer_DropsOldest(c, e) ==
  /\ chan' = [chan EXCEPT ![c] = IF Len(@) < Cap THEN Append(@, e)
                                 ELSE Append(Tail(@), e)]
  /\ UNCHANGED dropped

\* Mutant: the send waits for room.
Offer_Blocking(c, e) ==
  /\ Len(chan[c]) < Cap
  /\ chan' = [chan EXCEPT ![c] = Append(@, e)]
  /\ UNCHANGED dropped

\* Mutant: the last place of the channel is never used.
Offer_OffByOne(c, e) ==
  IF Len(chan[c]) < Cap - 1
  THEN /\ chan' = [chan EXCEPT ![c] = Append(@, e)]
       /\ UNCHANGED dropped
  ELSE /\ dropped' = [dropped EXCEPT ![c] = @ \cup {e}]
       /\ UNCHANGED chan

\* Non-blocking send: a full channel drops the event.
Offer(c, e) ==
  IF Len(chan[c]) < Cap
  THEN /\ chan' = [chan EXCEPT ![c] = Append(@, e)]
       /\ UNCHANGED dropped
  ELSE /\ dropped' = [dropped EXCEPT ![c] = @ \cup {e}]
       /\ UNCHANGED chan

EmitSend(v, c) ==
  /\ pipe[v].pc = "send"
  /\ c \in pipe[v].to
  /\ Offer(c, EventOf(v))
  /\ pipe' = [pipe EXCEPT ![v].to = @ \ {c}]
  /\ UNCHANGED <<mu, Events, listeners, Status, done, runner, handler, gone,
                 list, out>>

\* emit returns; after the last event provisionVM returns too and wg.Done
\* runs.
EmitReturn(v) ==
  /\ pipe[v].pc = "send"
  /\ pipe[v].to = {}
  /\ pipe' = [pipe EXCEPT ![v].pc = IF pipe[v].step = "progress"
                                    THEN "run" ELSE "end"]
  /\ UNCHANGED <<mu, Events, listeners, Status, done, runner, clients, list,
                 dropped>>

-----------------------------------------------------------------------------
(* runJob after wg.Wait                                                    *)

\* Mutant: a job counts as failed only if no VM succeeded.
Summary_AllFailed == IF \A v \in VM : pipe[v].step = "failed"
                     THEN "failed" ELSE "completed"

Summary == IF \E v \in VM : pipe[v].step = "failed" THEN "failed" ELSE "completed"

\* Mutant: without wg.Wait.
WaitAndLock_NoWait ==
  /\ runner.pc = "wait"
  /\ mu = ""
  /\ mu' = "runner"
  /\ runner' = [runner EXCEPT !.pc = "status"]
  /\ UNCHANGED <<Events, listeners, Status, done, pipe, clients, list, dropped>>

WaitAndLock ==
  /\ runner.pc = "wait"
  /\ \A v \in VM : pipe[v].pc = "end"
  /\ mu = ""
  /\ mu' = "runner"
  /\ runner' = [runner EXCEPT !.pc = "status"]
  /\ UNCHANGED <<Events, listeners, Status, done, pipe, clients, list, dropped>>

\* job.Status is a string, two words written one after the other; a reader
\* that does not hold job.mu can see one of them.
WriteStatusWord ==
  /\ runner.pc = "status"
  /\ \E word \in {"ptr", "len"} :
        /\ Status[word] = "running"
        /\ Status' = [Status EXCEPT ![word] = Summary]
  /\ UNCHANGED <<mu, Events, listeners, done, pipe, runner, clients, list, dropped>>

LogComplete ==
  /\ runner.pc = "status"
  /\ Status.ptr # "running" /\ Status.len # "running"
  /\ Events' = Append(Events, job_complete)
  /\ runner' = [pc |-> "send", to |-> listeners]
  /\ mu' = ""
  /\ UNCHANGED <<listeners, Status, done, pipe, clients, list, dropped>>

CompleteSend(c) ==
  /\ runner.pc = "send"
  /\ c \in runner.to
  /\ Offer(c, job_complete)
  /\ runner' = [runner EXCEPT !.to = @ \ {c}]
  /\ UNCHANGED <<mu, Events, listeners, Status, done, pipe, handler, gone, list, out>>

CloseDone ==
  /\ runner.pc = "send"
  /\ runner.to = {}
  /\ done' = TRUE
  /\ runner' = [runner EXCEPT !.pc = "end"]
  /\ UNCHANGED <<mu, Events, listeners, Status, pipe, clients, list, dropped>>

-----------------------------------------------------------------------------
(* handleJobEvents                                                         *)

\* Listers that hold ws.mu, from their first read to their reply.
Listing == {l \in Lister : list[l].ptr # list[l].len}

\* Mutant: register first and replay without job.mu.
Open_Unlocked(c) ==
  /\ handler[c].pc = "start"
  /\ Listing = {} /\ mu = ""
  /\ listeners' = listeners \cup {c}
  /\ handler' = [handler EXCEPT ![c].pc = "replay"]
  /\ UNCHANGED <<mu, Events, Status, done, pipe, runner, chan, gone, list, out,
                 dropped>>

\* Look up the job, under ws.mu, and wait for job.mu.
Open(c) ==
  /\ handler[c].pc = "start"
  /\ Listing = {} /\ mu = ""
  /\ mu' = c
  /\ handler' = [handler EXCEPT ![c].pc = "replay"]
  /\ UNCHANGED <<Events, listeners, Status, done, pipe, runner, chan, gone,
                 list, out, dropped>>

\* Write one past event to the client, with job.mu held.
Replay(c) ==
  /\ handler[c].pc = "replay"
  /\ handler[c].i <= Len(Events)
  /\ out' = [out EXCEPT ![c] = Append(@, Events[handler[c].i])]
  /\ handler' = [handler EXCEPT ![c].i = @ + 1]
  /\ UNCHANGED <<mu, Events, listeners, Status, done, pipe, runner, chan, gone,
                 list, dropped>>

\* Flush what was replayed; return if the job is done, else register.
Subscribe(c) ==
  /\ handler[c].pc = "replay"
  /\ handler[c].i > Len(Events)
  /\ mu' = ""
  /\ IF done
     THEN /\ handler' = [handler EXCEPT ![c].pc = "returned"]
          /\ UNCHANGED listeners
     ELSE /\ handler' = [handler EXCEPT ![c].pc = "stream"]
          /\ listeners' = listeners \cup {c}
  /\ UNCHANGED <<Events, Status, done, pipe, runner, chan, gone, list, out, dropped>>

\* Mutant: the loop goes on after job_complete.
Receive_NoReturn(c) ==
  /\ handler[c].pc = "stream"
  /\ chan[c] # <<>>
  /\ chan' = [chan EXCEPT ![c] = Tail(@)]
  /\ out' = [out EXCEPT ![c] = Append(@, Head(chan[c]))]
  /\ UNCHANGED <<mu, Events, listeners, Status, done, pipe, runner, handler,
                 gone, list, dropped>>

Receive(c) ==
  /\ handler[c].pc = "stream"
  /\ chan[c] # <<>>
  /\ chan' = [chan EXCEPT ![c] = Tail(@)]
  /\ out' = [out EXCEPT ![c] = Append(@, Head(chan[c]))]
  /\ handler' = [handler EXCEPT ![c].pc = IF Head(chan[c]) = job_complete
                                          THEN "leave" ELSE "stream"]
  /\ UNCHANGED <<mu, Events, listeners, Status, done, pipe, runner, gone, list,
                 dropped>>

ContextDone(c) ==
  /\ handler[c].pc = "stream"
  /\ c \in gone
  /\ handler' = [handler EXCEPT ![c].pc = "leave"]
  /\ UNCHANGED <<mu, Events, listeners, Status, done, pipe, runner, chan, gone,
                 list, out, dropped>>

\* Mutant: the cleanup forgets to release job.mu.
Leave_KeepsLock(c) ==
  /\ handler[c].pc = "leave"
  /\ mu = ""
  /\ mu' = c
  /\ listeners' = listeners \ {c}
  /\ handler' = [handler EXCEPT ![c].pc = "returned"]
  /\ UNCHANGED <<Events, Status, done, pipe, runner, chan, gone, list, out,
                 dropped>>

\* The deferred cleanup.
Leave(c) ==
  /\ handler[c].pc = "leave"
  /\ mu = ""
  /\ listeners' = listeners \ {c}
  /\ handler' = [handler EXCEPT ![c].pc = "returned"]
  /\ UNCHANGED <<mu, Events, Status, done, pipe, runner, chan, gone, list, out,
                 dropped>>

Disconnect(c) ==
  /\ handler[c].pc \notin {"start", "returned"}
  /\ c \notin gone
  /\ gone' = gone \cup {c}
  /\ UNCHANGED <<mu, Events, listeners, Status, done, pipe, runner, chan,
                 handler, list, out, dropped>>

-----------------------------------------------------------------------------
(* handleListJobs                                                          *)

\* Read one word of the status of a job: ws.mu is held, job.mu is not.  With the
\* second word the lister has its copy, which may be torn, and replies.
ReadStatusWord(l) ==
  /\ Listing \subseteq {l}
  /\ \E word \in {"ptr", "len"} :
        /\ list[l][word] = ""
        /\ list' = [list EXCEPT ![l] = IF @.ptr = @.len
                                       THEN [@ EXCEPT ![word] = Status[word]]
                                       ELSE [ptr |-> "", len |-> ""]]
  /\ UNCHANGED <<mu, Events, listeners, Status, done, pipe, runner, clients, dropped>>

-----------------------------------------------------------------------------
Pipeline(v) == Emit(v) \/ EmitReturn(v) \/ \E c \in Client : EmitSend(v, c)

runJob == \/ WaitAndLock \/ WriteStatusWord \/ LogComplete \/ CloseDone
          \/ \E c \in Client : CompleteSend(c)

\* The steps that write to the client, and so wait for it to read.
Write(c) == Replay(c) \/ Subscribe(c) \/ Receive(c)

handleJobEvents(c) == Open(c) \/ Write(c) \/ ContextDone(c) \/ Leave(c)

Next ==
  \/ \E v \in VM : Pipeline(v)
  \/ runJob
  \/ \E c \in Client : handleJobEvents(c) \/ Disconnect(c)
  \/ \E l \in Lister : ReadStatusWord(l)

Spec == Init /\ [][Next]_vars

\* Every goroutine runs on and every Proxmox call returns; a client that is
\* not slow keeps reading, and a write to a closed connection fails at once.
\* Each client opens the stream once, so job.mu is taken by clients finitely
\* often and weak fairness is enough for those who wait for it.
Fairness ==
  /\ \A v \in VM : WF_vars(Pipeline(v))
  /\ WF_vars(runJob)
  /\ \A c \in Client : WF_vars(ContextDone(c)) /\ WF_vars(Leave(c))
  /\ \A c \in Client : WF_vars((c \notin Slow \/ c \in gone) /\ Write(c))

FairSpec == Spec /\ Fairness

-----------------------------------------------------------------------------
(* Properties                                                              *)

\* What a client has been sent, or will be sent once it drains its channel.
Stream(c) == out[c] \o chan[c]

\* Events whose sender still has client c on its copy of the listeners.
InFlight(c) ==
  {EventOf(v) : v \in {u \in VM : pipe[u].pc = "send" /\ c \in pipe[u].to}}
    \cup {e \in {job_complete} : runner.pc = "send" /\ c \in runner.to}

\* server.go:1030, "so we don't miss events": for a registered client every
\* event of the log has been replayed, is in the channel, is about to be
\* offered by the pipeline that logged it, or was refused by a full channel;
\* it is in only one of these places.  Replaying, registering and emitting
\* under job.mu is what makes it true.
NothingMissed ==
  \A c \in Client : handler[c].pc \in {"stream", "leave"} =>
     /\ Elements(Events) = Elements(Stream(c)) \cup InFlight(c) \cup dropped[c]
     /\ Elements(Stream(c)) \cap InFlight(c) = {}
     /\ dropped[c] \cap (Elements(Stream(c)) \cup InFlight(c)) = {}

\* Pipelines send outside job.mu, so events of different VMs reach a client in
\* another order than the log's.  Those of one VM keep their order, none
\* comes twice, and nothing follows job_complete.
StreamOrdered ==
  \A c \in Client : \A i, j \in DOMAIN Stream(c) :
     i < j => /\ Stream(c)[i] # job_complete
              /\ Stream(c)[i].vm = Stream(c)[j].vm
                    => Stream(c)[i].n < Stream(c)[j].n

\* A stream that ends although the client stayed has shown job_complete and
\* everything else the job logged, except what its full channel refused.
EndedStreamIsWhole ==
  \A c \in Client : handler[c].pc = "returned" /\ c \notin gone =>
     /\ job_complete \in Elements(out[c])
     /\ Elements(Events) = Elements(out[c]) \cup dropped[c]

\* Once job_complete is logged, the status is that of the VMs' last events:
\* "completed" exactly if every VM is ready.
StatusMatchesLog ==
  job_complete \in Elements(Events) =>
     /\ Status.ptr = Status.len
     /\ \A v \in VM : \E e \in Elements(Events) :
            e.vm = v /\ e.step \in {"ready", "failed"}
     /\ Status.ptr = "completed" <=>
            \A e \in Elements(Events) : e.step # "failed"

\* No pipeline outlives the completion of its job: after job_complete the
\* log and the status never change.
CompletedJobIsFinal ==
  [][(job_complete \in Elements(Events)) => UNCHANGED <<Events, Status>>]_vars

\* server.go:1030 and 2008: to its followers the job is one log.  Replaying
\* under the lock, registering, sending outside the lock from copies of the
\* listeners, and channels that overflow add up to this: each VM's events
\* without a gap, except what was refused to a client for which more events
\* than fit its channel were on the way.
Verdict == IF job_complete \in Elements(Events) THEN Status.ptr ELSE "running"
Log == INSTANCE JobLog
         WITH Event <- ProvisionEvent, complete <- job_complete, log <- Events,
              verdict <- Verdict, got <- out, refused <- dropped, left <- gone,
              ended <- {c \in Client : handler[c].pc = "returned"}
ImplementsJobLog == Log!Spec

\* With clients that read or disconnect, a job always finishes.
JobEnds == <>done

\* A client that was registered before the job completed, and whose channel
\* did not refuse job_complete, gets its stream ended.
RegisteredStreamEnds ==
  \A c \in Client :
     (c \in listeners /\ job_complete \notin Elements(Events))
        ~> (handler[c].pc = "returned" \/ job_complete \in dropped[c])

\* server.go:1065 says "Stream events until job completes or client
\* disconnects".
StreamEndsWithJob ==
  \A c \in Client : (handler[c].pc = "stream" /\ done) ~> (handler[c].pc = "returned")
=============================================================================
