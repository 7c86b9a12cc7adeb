--------------------------- MODULE JobStreamProofs ----------------------------
(***************************************************************************)
(* Theorems about JobStream, for any VMs, clients, number of steps and     *)
(* capacity of a listener's channel.                                       *)
(***************************************************************************)
EXTENDS JobStream, SequenceTheorems, FiniteSetTheorems, FunctionTheorems, TLAPS

-----------------------------------------------------------------------------
(* The inductive invariant                                                 *)

\* StreamOrdered, of one sequence.
Ordered(s) ==
  \A i, j \in DOMAIN s :
     i < j => /\ s[i] # job_complete
              /\ s[i].vm = s[j].vm => s[i].n < s[j].n

\* The log holds the events of every pipeline up to its last one, which alone
\* may be other than progress, and job_complete once the runner logged it.
LogInv ==
  /\ Ordered(Events)
  /\ \A e \in Elements(Events) : e # job_complete =>
        /\ e.n <= pipe[e.vm].n
        /\ e.n = pipe[e.vm].n => e = EventOf(e.vm)
        /\ e.step # "progress" => e.n = pipe[e.vm].n
  /\ \A v \in VM : pipe[v].n > 0 => EventOf(v) \in Elements(Events)
  /\ job_complete \in Elements(Events) <=> runner.pc \in {"send", "end"}

\* A pipeline goes on only after progress, and the runner only after all of them.
PipeInv(v) ==
  /\ pipe[v].pc = "run" => pipe[v].step = "progress" /\ pipe[v].n <= Steps
  /\ pipe[v].pc = "send" => pipe[v].n > 0 /\ (pipe[v].step = "progress" => pipe[v].n <= Steps)
  /\ pipe[v].pc = "end" => pipe[v].n > 0 /\ pipe[v].step # "progress"
  /\ runner.pc # "wait" => pipe[v].pc = "end"

\* The status is settled while the runner holds job.mu.
RunnerInv ==
  /\ runner.pc = "wait" => Status.ptr = "running" /\ Status.len = "running"
  /\ runner.pc = "status" => {Status.ptr, Status.len} \subseteq {"running", Summary}
  /\ runner.pc \in {"send", "end"} => Status.ptr = Summary /\ Status.len = Summary
  /\ done <=> runner.pc = "end"

\* Every event of the log is in at most one place, for whatever client, and in
\* one at least for a registered one (NothingMissed).
PlacesInv(c) ==
  /\ Elements(Stream(c)) \cup InFlight(c) \cup dropped[c] \subseteq Elements(Events)
  /\ Elements(Stream(c)) \cap InFlight(c) = {}
  /\ dropped[c] \cap (Elements(Stream(c)) \cup InFlight(c)) = {}
  /\ handler[c].pc \in {"stream", "leave"} =>
        Elements(Events) \subseteq Elements(Stream(c)) \cup InFlight(c) \cup dropped[c]

\* Until it registers, a client has what was replayed and nothing else; a stream
\* is left for no other reason than job_complete or a client that has gone.
HandlerInv(c) ==
  /\ c \in listeners <=> handler[c].pc \in {"stream", "leave"}
  /\ handler[c].pc \in {"start", "replay"} =>
        /\ chan[c] = <<>> /\ dropped[c] = {} /\ InFlight(c) = {}
        /\ handler[c].i = Len(out[c]) + 1 /\ Len(out[c]) <= Len(Events)
        /\ \A k \in 1 .. Len(out[c]) : out[c][k] = Events[k]
  /\ handler[c].pc = "start" => out[c] = <<>>
  /\ handler[c].pc = "leave" /\ c \notin gone => job_complete \in Elements(out[c])
  /\ handler[c].pc = "returned" /\ c \notin gone =>
        /\ job_complete \in Elements(out[c])
        /\ Elements(Events) = Elements(out[c]) \cup dropped[c]

ClientInv(c) == PlacesInv(c) /\ Ordered(Stream(c)) /\ HandlerInv(c)

IInv ==
  /\ TypeOK
  /\ LogInv
  /\ \A v \in VM : PipeInv(v)
  /\ RunnerInv
  /\ \A c \in Client : ClientInv(c)

-----------------------------------------------------------------------------
(* Sequences of events                                                     *)

LEMMA ElementsIs ==
  ASSUME NEW S, NEW s \in Seq(S)
  PROVE  /\ DOMAIN s = 1 .. Len(s) /\ Len(s) \in Nat
         /\ \A x : x \in Elements(s) <=> \E i \in 1 .. Len(s) : x = s[i]
         /\ Elements(s) \subseteq S
<1>1. DOMAIN s = 1 .. Len(s) /\ Len(s) \in Nat /\ \A i \in 1 .. Len(s) : s[i] \in S
  BY LenProperties, ElementOfSeq
<1> QED
  BY <1>1 DEF Elements

LEMMA AppendIs ==
  ASSUME NEW S, NEW s \in Seq(S), NEW e \in S
  PROVE  /\ Append(s, e) \in Seq(S)
         /\ Len(Append(s, e)) = Len(s) + 1
         /\ \A i \in 1 .. Len(s) : Append(s, e)[i] = s[i]
         /\ Append(s, e)[Len(s) + 1] = e
         /\ Elements(Append(s, e)) = Elements(s) \cup {e}
<1>1. /\ Append(s, e) \in Seq(S) /\ Len(s) \in Nat
      /\ Len(Append(s, e)) = Len(s) + 1
      /\ \A i \in 1 .. Len(s) : Append(s, e)[i] = s[i]
      /\ Append(s, e)[Len(s) + 1] = e
  OBVIOUS
<1>2. ASSUME NEW x
      PROVE  x \in Elements(Append(s, e)) <=> x \in Elements(s) \/ x = e
  <2>1. x \in Elements(Append(s, e)) <=> \E i \in 1 .. Len(s) + 1 : x = Append(s, e)[i]
    <3> DEFINE t == Append(s, e)
    <3>1. t \in Seq(S) /\ Len(t) = Len(s) + 1
      BY <1>1
    <3> HIDE DEF t
    <3>2. x \in Elements(t) <=> \E i \in 1 .. Len(t) : x = t[i]
      BY <3>1, ElementsIs
    <3> QED
      BY <3>1, <3>2 DEF t
  <2>2. x \in Elements(s) <=> \E i \in 1 .. Len(s) : x = s[i]
    BY ElementsIs
  <2>3. \A i : i \in 1 .. Len(s) + 1 <=> i \in 1 .. Len(s) \/ i = Len(s) + 1
    BY <1>1
  <2> QED
    BY <1>1, <2>1, <2>2, <2>3
<1> QED
  BY <1>1, <1>2

\* What may come after the events of s.
LEMMA AppendOrdered ==
  ASSUME NEW s \in Seq(Event), NEW e \in Event, Ordered(s),
         \A x \in Elements(s) : x # job_complete /\ (x.vm = e.vm => x.n < e.n)
  PROVE  Ordered(Append(s, e))
<1> DEFINE t == Append(s, e)
<1>1. /\ t \in Seq(Event) /\ Len(t) = Len(s) + 1 /\ Len(s) \in Nat
      /\ \A i \in 1 .. Len(s) : t[i] = s[i]
      /\ t[Len(s) + 1] = e
  BY AppendIs, ElementsIs
<1> HIDE DEF t
<1>2. DOMAIN t = 1 .. Len(s) + 1 /\ DOMAIN s = 1 .. Len(s)
  BY <1>1, ElementsIs
<1>3. SUFFICES ASSUME NEW i \in DOMAIN t, NEW j \in DOMAIN t, i < j
               PROVE  t[i] # job_complete /\ (t[i].vm = t[j].vm => t[i].n < t[j].n)
  BY DEF Ordered, t
<1>4. i \in 1 .. Len(s) /\ t[i] = s[i]
  BY <1>1, <1>2, <1>3
<1>5. CASE j = Len(s) + 1
  <2>1. s[i] \in Elements(s)
    BY <1>4, ElementsIs
  <2> QED
    BY <1>1, <1>4, <1>5, <2>1
<1>6. CASE j # Len(s) + 1
  <2>1. j \in 1 .. Len(s) /\ t[j] = s[j]
    BY <1>1, <1>2, <1>6
  <2> QED
    BY <1>2, <1>3, <1>4, <2>1 DEF Ordered
<1> QED
  BY <1>5, <1>6

LEMMA ConcatAppend ==
  ASSUME NEW S, NEW s \in Seq(S), NEW t \in Seq(S), NEW e \in S
  PROVE  s \o Append(t, e) = Append(s \o t, e)
<1> DEFINE l == s \o Append(t, e)
           r == Append(s \o t, e)
<1>1. Append(t, e) \in Seq(S) /\ s \o t \in Seq(S)
  BY AppendIs, ConcatProperties
<1>2. l \in Seq(S) /\ r \in Seq(S)
  BY <1>1, AppendIs, ConcatProperties
<1>3. Len(s) \in Nat /\ Len(t) \in Nat
  BY LenProperties
<1>4. /\ Len(s \o t) = Len(s) + Len(t) /\ Len(Append(t, e)) = Len(t) + 1
      /\ \A i \in 1 .. Len(s) + Len(t) :
            (s \o t)[i] = IF i <= Len(s) THEN s[i] ELSE t[i - Len(s)]
      /\ \A i \in 1 .. Len(t) : Append(t, e)[i] = t[i]
      /\ Append(t, e)[Len(t) + 1] = e
  BY AppendIs, ConcatProperties
<1>5. /\ Len(l) = Len(s) + Len(t) + 1
      /\ \A i \in 1 .. Len(s) + Len(t) + 1 :
            l[i] = IF i <= Len(s) THEN s[i] ELSE Append(t, e)[i - Len(s)]
  <2>1. Len(l) = Len(s) + Len(Append(t, e))
    BY <1>1, ConcatProperties
  <2>2. \A i \in 1 .. Len(s) + Len(Append(t, e)) :
            l[i] = IF i <= Len(s) THEN s[i] ELSE Append(t, e)[i - Len(s)]
    BY <1>1, ConcatProperties
  <2> HIDE DEF l
  <2> QED
    BY <1>3, <1>4, <2>1, <2>2
<1>6. /\ Len(r) = Len(s) + Len(t) + 1
      /\ \A i \in 1 .. Len(s) + Len(t) : r[i] = (s \o t)[i]
      /\ r[Len(s) + Len(t) + 1] = e
  BY <1>1, <1>4, AppendIs
<1> HIDE DEF l, r
<1>7. ASSUME NEW i \in 1 .. Len(l) PROVE l[i] = r[i]
  <2>1. CASE i <= Len(s)
    BY <1>3, <1>4, <1>5, <1>6, <2>1
  <2>2. CASE i > Len(s) /\ i <= Len(s) + Len(t)
    <3>1. i - Len(s) \in 1 .. Len(t) /\ i \in 1 .. Len(s) + Len(t) /\ ~(i <= Len(s))
      BY <1>3, <2>2
    <3> QED
      BY <1>3, <1>4, <1>5, <1>6, <3>1
  <2>3. CASE i = Len(s) + Len(t) + 1
    <3>1. i - Len(s) = Len(t) + 1 /\ ~(i <= Len(s))
      BY <1>3, <2>3
    <3> QED
      BY <1>3, <1>4, <1>5, <1>6, <2>3, <3>1
  <2>4. i \in Nat /\ i <= Len(s) + Len(t) + 1
    BY <1>3, <1>5
  <2> QED
    BY <1>3, <2>1, <2>2, <2>3, <2>4
<1>8. l = r
  BY <1>2, <1>5, <1>6, <1>7, SeqEqual
<1> QED
  BY <1>8 DEF l, r

LEMMA ConcatMove ==
  ASSUME NEW S, NEW s \in Seq(S), NEW t \in Seq(S), t # <<>>
  PROVE  Append(s, Head(t)) \o Tail(t) = s \o t
<1> DEFINE h == Append(s, Head(t))
           l == h \o Tail(t)
           r == s \o t
<1>1. /\ Head(t) \in S /\ Tail(t) \in Seq(S) /\ Len(Tail(t)) = Len(t) - 1
      /\ \A i \in 1 .. Len(Tail(t)) : Tail(t)[i] = t[i + 1]
      /\ Len(s) \in Nat /\ Len(t) \in Nat \ {0} /\ Head(t) = t[1]
  BY HeadTailProperties, LenProperties, EmptySeq
<1>2. /\ h \in Seq(S) /\ Len(h) = Len(s) + 1
      /\ \A i \in 1 .. Len(s) : h[i] = s[i]
      /\ h[Len(s) + 1] = t[1]
  BY <1>1, AppendIs
<1> HIDE DEF h
<1>3. /\ l \in Seq(S) /\ Len(l) = Len(s) + Len(t)
      /\ \A i \in 1 .. Len(s) + Len(t) :
            l[i] = IF i <= Len(s) + 1 THEN h[i] ELSE Tail(t)[i - (Len(s) + 1)]
  <2>1. /\ l \in Seq(S) /\ Len(l) = Len(h) + Len(Tail(t))
        /\ \A i \in 1 .. Len(h) + Len(Tail(t)) :
              l[i] = IF i <= Len(h) THEN h[i] ELSE Tail(t)[i - Len(h)]
    BY <1>1, <1>2, ConcatProperties
  <2>2. Len(h) + Len(Tail(t)) = Len(s) + Len(t)
    BY <1>1, <1>2
  <2> HIDE DEF l
  <2> QED
    BY <1>2, <2>1, <2>2
<1>4. /\ r \in Seq(S) /\ Len(r) = Len(s) + Len(t)
      /\ \A i \in 1 .. Len(s) + Len(t) : r[i] = IF i <= Len(s) THEN s[i] ELSE t[i - Len(s)]
  BY ConcatProperties
<1> HIDE DEF l, r
<1>5. ASSUME NEW i \in 1 .. Len(l) PROVE l[i] = r[i]
  <2>1. CASE i <= Len(s)
    <3>1. i \in 1 .. Len(s) /\ i <= Len(s) + 1 /\ i \in 1 .. Len(s) + Len(t)
      BY <1>1, <1>3, <2>1
    <3>2. l[i] = h[i] /\ h[i] = s[i] /\ r[i] = s[i]
      BY <1>2, <1>3, <1>4, <2>1, <3>1
    <3> QED
      BY <3>2
  <2>2. CASE i = Len(s) + 1
    <3>1. i - Len(s) = 1 /\ ~(i <= Len(s))
      BY <1>1, <2>2
    <3> QED
      BY <1>1, <1>2, <1>3, <1>4, <2>2, <3>1
  <2>3. CASE i > Len(s) + 1
    <3>1. /\ i - (Len(s) + 1) \in 1 .. Len(Tail(t)) /\ ~(i <= Len(s) + 1) /\ ~(i <= Len(s))
          /\ (i - (Len(s) + 1)) + 1 = i - Len(s)
      BY <1>1, <1>3, <2>3
    <3>2. Tail(t)[i - (Len(s) + 1)] = t[i - Len(s)]
      BY <1>1, <3>1
    <3> QED
      BY <1>3, <1>4, <3>1, <3>2
  <2> QED
    BY <1>1, <1>3, <2>1, <2>2, <2>3
<1>6. l = r
  BY <1>3, <1>4, <1>5, SeqEqual
<1> QED
  BY <1>6 DEF h, l, r

\* What a client has written to it is a part of its stream.
LEMMA StreamIs ==
  ASSUME NEW s \in Seq(Event), NEW t \in Seq(Event)
  PROVE  /\ s \o t \in Seq(Event)
         /\ Elements(s \o t) = Elements(s) \cup Elements(t)
         /\ s \o <<>> = s
<1>1. /\ s \o t \in Seq(Event) /\ Len(s \o t) = Len(s) + Len(t)
      /\ \A i \in 1 .. Len(s) + Len(t) :
            (s \o t)[i] = IF i <= Len(s) THEN s[i] ELSE t[i - Len(s)]
  BY ConcatProperties
<1>2. Len(s) \in Nat /\ Len(t) \in Nat
  BY LenProperties
<1>3. ASSUME NEW x PROVE x \in Elements(s \o t) <=> x \in Elements(s) \cup Elements(t)
  <2>1. x \in Elements(s \o t) <=> \E i \in 1 .. Len(s) + Len(t) : x = (s \o t)[i]
    <3> DEFINE u == s \o t
    <3>1. u \in Seq(Event) /\ Len(u) = Len(s) + Len(t)
      BY <1>1
    <3> HIDE DEF u
    <3>2. x \in Elements(u) <=> \E i \in 1 .. Len(u) : x = u[i]
      BY <3>1, ElementsIs
    <3> QED
      BY <3>1, <3>2 DEF u
  <2>2. x \in Elements(s) <=> \E i \in 1 .. Len(s) : x = s[i]
    BY ElementsIs
  <2>3. x \in Elements(t) <=> \E i \in 1 .. Len(t) : x = t[i]
    BY ElementsIs
  <2>4. ASSUME NEW i \in 1 .. Len(s) PROVE i \in 1 .. Len(s) + Len(t) /\ (s \o t)[i] = s[i]
    BY <1>1, <1>2
  <2>5. ASSUME NEW i \in 1 .. Len(t)
        PROVE  Len(s) + i \in 1 .. Len(s) + Len(t) /\ (s \o t)[Len(s) + i] = t[i]
    <3>1. Len(s) + i \in 1 .. Len(s) + Len(t) /\ ~(Len(s) + i <= Len(s))
          /\ (Len(s) + i) - Len(s) = i
      BY <1>2
    <3> QED
      BY <1>1, <3>1
  <2>6. ASSUME NEW i \in 1 .. Len(s) + Len(t), ~(i <= Len(s))
        PROVE  i - Len(s) \in 1 .. Len(t) /\ (s \o t)[i] = t[i - Len(s)]
    BY <1>1, <1>2, <2>6
  <2>7. ASSUME NEW i \in 1 .. Len(s) + Len(t), i <= Len(s)
        PROVE  i \in 1 .. Len(s)
    BY <1>2, <2>7
  <2> QED
    BY <2>1, <2>2, <2>3, <2>4, <2>5, <2>6, <2>7
<1>4. s \o <<>> = s
  BY ConcatEmptySeq
<1> QED
  BY <1>1, <1>3, <1>4

-----------------------------------------------------------------------------
(* Types                                                                   *)

PipeState == [pc : {"run", "send", "end"}, n : 0 .. Steps + 1,
              step : {"progress", "ready", "failed"}, to : SUBSET Client]
RunnerState == [pc : {"wait", "status", "send", "end"}, to : SUBSET Client]
HandlerState == [pc : {"start", "replay", "stream", "leave", "returned"}, i : Nat]

\* TypeOK in parts.
Lock == /\ mu \in {"", "runner"} \cup Client
        /\ mu = "runner" <=> runner.pc = "status"
        /\ \A c \in Client : mu = c <=> handler[c].pc = "replay"
Job == /\ Events \in Seq(Event) /\ listeners \subseteq Client /\ gone \subseteq Client
       /\ Status \in [ptr : Word, len : Word] /\ done \in BOOLEAN
Emitters == pipe \in [VM -> PipeState] /\ runner \in RunnerState
Channels == /\ chan \in [Client -> Seq(Event)] /\ \A c \in Client : Len(chan[c]) <= Cap
            /\ out \in [Client -> Seq(Event)] /\ dropped \in [Client -> SUBSET Event]
Handlers == handler \in [Client -> HandlerState]
Lists == list \in [Lister -> [ptr : Word \cup {""}, len : Word \cup {""}]]

LEMMA TypeOKParts ==
  /\ TypeOK <=> Lock /\ Job /\ Emitters /\ Channels /\ Handlers /\ Lists
  /\ TypeOK' <=> Lock' /\ Job' /\ Emitters' /\ Channels' /\ Handlers' /\ Lists'
BY DEF TypeOK, Lock, Job, Emitters, Channels, Handlers, Lists, PipeState, RunnerState,
       HandlerState

LEMMA EventIs ==
  /\ job_complete \in Event
  /\ \A e \in Event : /\ e.vm = "job" => e = job_complete
                      /\ e # job_complete => e \in ProvisionEvent /\ e.vm \in VM
                      /\ e.n \in Nat
  /\ \A e \in ProvisionEvent : e # job_complete
  /\ job_complete.vm = "job" /\ job_complete.n = 0 /\ job_complete.step = "job_complete"
<1>1. \A e \in ProvisionEvent : e.vm \in VM /\ e.n \in 1 .. Steps + 1
  BY DEF ProvisionEvent
<1>2. job_complete.vm = "job" /\ job_complete.n = 0 /\ job_complete.step = "job_complete"
  BY DEF job_complete
<1>3. \A e \in ProvisionEvent : e # job_complete /\ e.vm # "job" /\ e.n \in Nat
  BY <1>1, <1>2, VMAssumption, StepsAssumption
<1> QED
  BY <1>1, <1>2, <1>3 DEF Event

LEMMA EventOfIs ==
  ASSUME Emitters, NEW v \in VM
  PROVE  /\ EventOf(v).vm = v /\ EventOf(v).n = pipe[v].n /\ EventOf(v).step = pipe[v].step
         /\ pipe[v].n > 0 => EventOf(v) \in ProvisionEvent
         /\ pipe[v] \in PipeState
<1>1. pipe[v] \in PipeState
  BY DEF Emitters
<1>2. EventOf(v).vm = v /\ EventOf(v).n = pipe[v].n /\ EventOf(v).step = pipe[v].step
  BY DEF EventOf
<1>3. pipe[v].n > 0 => pipe[v].n \in 1 .. Steps + 1
  BY <1>1, StepsAssumption DEF PipeState
<1>4. pipe[v].n > 0 => EventOf(v) \in ProvisionEvent
  BY <1>1, <1>3 DEF EventOf, ProvisionEvent, PipeState
<1> QED
  BY <1>1, <1>2, <1>4

LEMMA InFlightIs ==
  ASSUME NEW c
  PROVE  /\ \A x : x \in InFlight(c) <=>
               \/ \E v \in VM : pipe[v].pc = "send" /\ c \in pipe[v].to /\ x = EventOf(v)
               \/ x = job_complete /\ runner.pc = "send" /\ c \in runner.to
         /\ \A x : x \in InFlight(c)' <=>
               \/ \E v \in VM : pipe'[v].pc = "send" /\ c \in pipe'[v].to /\ x = EventOf(v)'
               \/ x = job_complete /\ runner'.pc = "send" /\ c \in runner'.to
BY DEF InFlight

\* What the log says while a pipeline is at work, and of the event in flight.
LEMMA LogFacts ==
  ASSUME IInv
  PROVE  /\ Elements(Events) \subseteq Event
         /\ \A v \in VM : pipe[v].pc # "end" => runner.pc = "wait"
         /\ runner.pc \in {"wait", "status"} => job_complete \notin Elements(Events)
         /\ \A c \in Client : /\ Stream(c) \in Seq(Event)
                              /\ Elements(out[c]) \subseteq Elements(Stream(c))
                              /\ Elements(Stream(c)) \subseteq Elements(Events)
                              /\ Elements(chan[c]) \subseteq Elements(Stream(c))
<1>1. Job /\ Channels /\ Emitters
  BY TypeOKParts DEF IInv
<1>2. Elements(Events) \subseteq Event
  BY <1>1, ElementsIs DEF Job
<1>3. \A v \in VM : pipe[v].pc # "end" => runner.pc = "wait"
  BY DEF IInv, PipeInv
<1>4. runner.pc \in {"wait", "status"} => job_complete \notin Elements(Events)
  BY DEF IInv, LogInv
<1>5. ASSUME NEW c \in Client
      PROVE  /\ Stream(c) \in Seq(Event)
             /\ Elements(out[c]) \subseteq Elements(Stream(c))
             /\ Elements(chan[c]) \subseteq Elements(Stream(c))
             /\ Elements(Stream(c)) \subseteq Elements(Events)
  <2>1. out[c] \in Seq(Event) /\ chan[c] \in Seq(Event)
    BY <1>1 DEF Channels
  <2>2. Elements(Stream(c)) \subseteq Elements(Events)
    BY DEF IInv, ClientInv, PlacesInv
  <2> QED
    BY <2>1, <2>2, StreamIs DEF Stream
<1> QED
  BY <1>2, <1>3, <1>4, <1>5

LEMMA InitIInv == Init => IInv
<1> SUFFICES ASSUME Init PROVE IInv
  OBVIOUS
<1>1. <<>> \in Seq(Event) /\ Len(<<>>) = 0 /\ DOMAIN <<>> = {} /\ Elements(<<>>) = {}
      /\ <<>> \o <<>> = <<>>
  <2>1. <<>> \in Seq(Event) /\ Len(<<>>) = 0 /\ DOMAIN <<>> = {}
    OBVIOUS
  <2>2. Elements(<<>>) = {}
    BY <2>1 DEF Elements
  <2> QED
    BY <2>1, <2>2, StreamIs
<1>2. TypeOK
  <2>1. Lock /\ Job /\ Lists
    BY <1>1, ClientAssumption DEF Init, Lock, Job, Lists, Word
  <2>2. Emitters /\ Handlers
    <3>1. 0 \in 0 .. Steps + 1
      BY StepsAssumption
    <3>2. [pc |-> "run", n |-> 0, step |-> "progress", to |-> {}] \in PipeState
      BY <3>1 DEF PipeState
    <3>3. [pc |-> "wait", to |-> {}] \in RunnerState /\ [pc |-> "start", i |-> 1] \in HandlerState
      BY DEF RunnerState, HandlerState
    <3> QED
      BY <3>2, <3>3 DEF Init, Emitters, Handlers
  <2>3. Channels
    <3>1. 0 <= Cap
      BY CapAssumption
    <3>2. chan \in [Client -> Seq(Event)] /\ out \in [Client -> Seq(Event)]
          /\ dropped \in [Client -> SUBSET Event] /\ \A c \in Client : chan[c] = <<>>
      BY <1>1 DEF Init
    <3> QED
      BY <1>1, <3>1, <3>2 DEF Channels
  <2> QED
    BY <2>1, <2>2, <2>3, TypeOKParts
<1>3. LogInv
  <2>1. Events = <<>> /\ runner.pc = "wait" /\ \A v \in VM : pipe[v].n = 0
    BY DEF Init
  <2>2. Ordered(Events)
    BY <1>1, <2>1 DEF Ordered
  <2> QED
    BY <1>1, <2>1, <2>2 DEF LogInv
<1>4. \A v \in VM : PipeInv(v)
  <2>1. runner.pc = "wait"
        /\ \A v \in VM : pipe[v].pc = "run" /\ pipe[v].step = "progress" /\ pipe[v].n = 0
    BY DEF Init
  <2> QED
    BY <2>1, StepsAssumption DEF PipeInv
<1>5. RunnerInv
  BY DEF Init, RunnerInv
<1>6. ASSUME NEW c \in Client PROVE ClientInv(c)
  <2>1. Stream(c) = <<>> /\ InFlight(c) = {}
    BY <1>1, InFlightIs DEF Init, Stream
  <2>2. handler[c].pc = "start" /\ handler[c].i = 1 /\ chan[c] = <<>> /\ out[c] = <<>>
        /\ dropped[c] = {} /\ c \notin listeners /\ Events = <<>>
    BY DEF Init
  <2>3. PlacesInv(c)
    BY <1>1, <2>1, <2>2 DEF PlacesInv
  <2>4. Ordered(Stream(c))
    BY <1>1, <2>1 DEF Ordered
  <2>5. HandlerInv(c)
    BY <1>1, <2>1, <2>2 DEF HandlerInv
  <2> QED
    BY <2>3, <2>4, <2>5 DEF ClientInv
<1> QED
  BY <1>2, <1>3, <1>4, <1>5, <1>6 DEF IInv

-----------------------------------------------------------------------------
(* What the steps mean to a client                                         *)

\* A client whom the step does not concern.
LEMMA ClientRests ==
  ASSUME NEW c \in Client, ClientInv(c), UNCHANGED Events,
         out'[c] = out[c], chan'[c] = chan[c], dropped'[c] = dropped[c],
         InFlight(c)' = InFlight(c), handler'[c] = handler[c],
         c \in listeners' <=> c \in listeners, c \in gone' <=> c \in gone
  PROVE  ClientInv(c)'
<1>1. Stream(c)' = Stream(c)
  BY DEF Stream
<1>2. PlacesInv(c)'
  BY <1>1 DEF ClientInv, PlacesInv
<1>3. Ordered(Stream(c))'
  BY <1>1 DEF ClientInv, Ordered
<1>4. HandlerInv(c)'
  BY DEF ClientInv, HandlerInv
<1> QED
  BY <1>2, <1>3, <1>4 DEF ClientInv

\* An event is logged and the registered clients are copied, with job.mu held.
LEMMA ClientSeesLog ==
  ASSUME IInv, NEW e \in Event, Events' = Append(Events, e),
         e \notin Elements(Events), job_complete \notin Elements(Events),
         UNCHANGED <<listeners, clients, dropped>>,
         NEW c \in Client, handler[c].pc # "replay",
         InFlight(c)' = InFlight(c) \cup {x \in {e} : c \in listeners}
  PROVE  ClientInv(c)'
<1>1. /\ Stream(c)' = Stream(c) /\ out'[c] = out[c] /\ chan'[c] = chan[c]
      /\ dropped'[c] = dropped[c] /\ handler'[c] = handler[c] /\ gone' = gone
  BY DEF Stream, clients
<1>2. /\ Elements(Events') = Elements(Events) \cup {e}
      /\ Len(Events') = Len(Events) + 1 /\ Len(Events) \in Nat
  BY TypeOKParts, AppendIs, ElementsIs DEF IInv, Job
<1>3. PlacesInv(c) /\ Ordered(Stream(c)) /\ HandlerInv(c)
  BY DEF IInv, ClientInv
<1>4. Elements(out[c]) \subseteq Elements(Events)
  BY LogFacts
<1>5. PlacesInv(c)'
  <2>1. handler[c].pc \in {"stream", "leave"} => c \in listeners
    BY <1>3 DEF HandlerInv
  <2> QED
    BY <1>1, <1>2, <1>3, <2>1 DEF PlacesInv
<1>6. HandlerInv(c)'
  <2>1. handler[c].pc = "start" =>
          /\ chan[c] = <<>> /\ dropped[c] = {} /\ InFlight(c)' = {}
          /\ handler[c].i = Len(out[c]) + 1 /\ out[c] = <<>> /\ Len(out[c]) = 0
    BY <1>3 DEF HandlerInv
  <2>2. handler[c].pc = "returned" => c \in gone
    BY <1>3, <1>4 DEF HandlerInv
  <2> QED
    BY <1>1, <1>2, <1>3, <2>1, <2>2 DEF HandlerInv
<1>7. Ordered(Stream(c))'
  BY <1>1, <1>3 DEF Ordered
<1> QED
  BY <1>5, <1>6, <1>7 DEF ClientInv

\* What an offer does to the channel.
LEMMA OfferEffect ==
  ASSUME Channels, NEW c \in Client, NEW e \in Event, Offer(c, e), UNCHANGED out
  PROVE  /\ Channels'
         /\ \A d \in Client \ {c} : chan'[d] = chan[d] /\ dropped'[d] = dropped[d]
         /\ \/ Stream(c)' = Append(Stream(c), e) /\ dropped'[c] = dropped[c]
            \/ Stream(c)' = Stream(c) /\ dropped'[c] = dropped[c] \cup {e}
<1>1. CASE Len(chan[c]) < Cap
  <2>1. chan' = [chan EXCEPT ![c] = Append(chan[c], e)] /\ UNCHANGED dropped
    BY <1>1 DEF Offer
  <2>2. chan[c] \in Seq(Event) /\ out[c] \in Seq(Event)
    BY DEF Channels
  <2>3. Append(chan[c], e) \in Seq(Event) /\ Len(Append(chan[c], e)) <= Cap
    BY <1>1, <2>2, CapAssumption, AppendIs, ElementsIs
  <2>4. /\ chan' \in [Client -> Seq(Event)] /\ chan'[c] = Append(chan[c], e)
        /\ \A d \in Client \ {c} : chan'[d] = chan[d]
    BY <2>1, <2>3 DEF Channels
  <2>5. Channels'
    BY <2>1, <2>3, <2>4 DEF Channels
  <2>6. Stream(c)' = Append(Stream(c), e)
    <3>1. Stream(c)' = out[c] \o Append(chan[c], e)
      BY <2>4 DEF Stream
    <3>2. \A s, t \in Seq(Event) : s \o Append(t, e) = Append(s \o t, e)
      BY ConcatAppend
    <3>3. out[c] \o Append(chan[c], e) = Append(out[c] \o chan[c], e)
      BY <2>2, <3>2, Zenon
    <3> QED
      BY <3>1, <3>3 DEF Stream
  <2> QED
    BY <2>1, <2>4, <2>5, <2>6
<1>2. CASE ~(Len(chan[c]) < Cap)
  <2>1. dropped' = [dropped EXCEPT ![c] = dropped[c] \cup {e}] /\ UNCHANGED chan
    BY <1>2 DEF Offer
  <2>2. dropped[c] \cup {e} \in SUBSET Event
    BY DEF Channels
  <2>3. /\ dropped' \in [Client -> SUBSET Event] /\ dropped'[c] = dropped[c] \cup {e}
        /\ \A d \in Client \ {c} : dropped'[d] = dropped[d]
    BY <2>1, <2>2 DEF Channels
  <2>4. Channels'
    BY <2>1, <2>3 DEF Channels
  <2>5. Stream(c)' = Stream(c)
    BY <2>1 DEF Stream
  <2> QED
    BY <2>1, <2>3, <2>4, <2>5
<1> QED
  BY <1>1, <1>2

\* An event in flight comes after everything of its VM that was sent before.
LEMMA InFlightIsNext ==
  ASSUME IInv, NEW c \in Client, NEW e \in InFlight(c), NEW x \in Elements(Stream(c))
  PROVE  e \in Event /\ x # job_complete /\ (x.vm = e.vm => x.n < e.n)
<1>1. PlacesInv(c) /\ Emitters /\ LogInv
  BY TypeOKParts DEF IInv, ClientInv
<1>2. x \in Elements(Events) /\ e \in Elements(Events) /\ x # e /\ Elements(Events) \subseteq Event
  BY <1>1, LogFacts DEF PlacesInv
<1>3. ASSUME NEW v \in VM, pipe[v].pc = "send", e = EventOf(v)
      PROVE  x # job_complete /\ (x.vm = e.vm => x.n < e.n)
  <2>1. x # job_complete
    BY <1>2, <1>3, LogFacts
  <2>2. e.vm = v /\ e.n = pipe[v].n /\ e.n \in Nat
    BY <1>1, <1>2, <1>3, EventOfIs, EventIs
  <2>3. x.vm = v => x.n <= pipe[v].n /\ (x.n = pipe[v].n => x = EventOf(v))
    BY <1>1, <1>2, <2>1 DEF LogInv
  <2>4. x.n \in Nat
    BY <1>2, EventIs
  <2> QED
    BY <1>2, <1>3, <2>1, <2>2, <2>3, <2>4
<1>4. CASE e = job_complete
  BY <1>2, <1>4, EventIs
<1> QED
  BY <1>2, <1>3, <1>4, InFlightIs

\* An event in flight is offered to a client.
LEMMA ClientIsOffered ==
  ASSUME IInv, NEW c \in Client, NEW e \in InFlight(c), Offer(c, e),
         UNCHANGED <<Events, listeners, handler, gone, out>>,
         InFlight(c)' = InFlight(c) \ {e},
         \A d \in Client \ {c} : InFlight(d)' = InFlight(d)
  PROVE  Channels' /\ \A d \in Client : ClientInv(d)'
<1>1. e \in Event
  BY LogFacts DEF IInv, ClientInv, PlacesInv
<1>2. Channels
  BY TypeOKParts DEF IInv
<1>3. /\ Channels'
      /\ \A d \in Client \ {c} : chan'[d] = chan[d] /\ dropped'[d] = dropped[d]
      /\ \/ Stream(c)' = Append(Stream(c), e) /\ dropped'[c] = dropped[c]
         \/ Stream(c)' = Stream(c) /\ dropped'[c] = dropped[c] \cup {e}
  BY <1>1, <1>2, OfferEffect
<1>4. PlacesInv(c) /\ Ordered(Stream(c)) /\ HandlerInv(c) /\ Stream(c) \in Seq(Event)
  BY LogFacts DEF IInv, ClientInv
<1>5. Elements(Append(Stream(c), e)) = Elements(Stream(c)) \cup {e}
  BY <1>1, <1>4, AppendIs
<1>6. PlacesInv(c)'
  <2>1. CASE Stream(c)' = Append(Stream(c), e) /\ dropped'[c] = dropped[c]
    BY <1>4, <1>5, <2>1 DEF PlacesInv
  <2>2. CASE Stream(c)' = Stream(c) /\ dropped'[c] = dropped[c] \cup {e}
    BY <1>4, <2>2 DEF PlacesInv
  <2> QED
    BY <1>3, <2>1, <2>2
<1>7. Ordered(Stream(c))'
  <2>1. CASE Stream(c)' = Append(Stream(c), e)
    <3>1. Ordered(Append(Stream(c), e))
      BY <1>1, <1>4, InFlightIsNext, AppendOrdered
    <3> QED
      BY <2>1, <3>1 DEF Ordered
  <2>2. CASE Stream(c)' = Stream(c)
    BY <1>4, <2>2 DEF Ordered
  <2> QED
    BY <1>3, <2>1, <2>2
<1>8. HandlerInv(c)'
  <2>1. handler[c].pc \notin {"start", "replay"}
    BY <1>4 DEF HandlerInv
  <2>2. ~(handler[c].pc = "returned" /\ c \notin gone)
    <3>1. SUFFICES ASSUME handler[c].pc = "returned", c \notin gone PROVE FALSE
      OBVIOUS
    <3>2. e \in Elements(out[c]) \cup dropped[c]
      BY <1>4, <3>1 DEF HandlerInv, PlacesInv
    <3>3. Elements(out[c]) \subseteq Elements(Stream(c))
      BY LogFacts
    <3> QED
      BY <1>4, <3>2, <3>3 DEF PlacesInv
  <2> QED
    BY <1>4, <2>1, <2>2 DEF HandlerInv
<1>9. ASSUME NEW d \in Client \ {c} PROVE ClientInv(d)'
  BY <1>3, ClientRests DEF IInv
<1> QED
  BY <1>3, <1>6, <1>7, <1>8, <1>9 DEF ClientInv

-----------------------------------------------------------------------------
(* The steps of the pipelines and of the runner                            *)

LEMMA NextStepIs ==
  ASSUME NEW n \in 0 .. Steps, NEW step \in NextSteps(n)
  PROVE  step \in {"progress", "ready", "failed"} /\ (step = "progress" => n + 1 <= Steps)
<1>1. Steps \in Nat \ {0}
  BY StepsAssumption
<1>2. n = 0 \/ n \in 1 .. Steps - 1 \/ n = Steps
  BY <1>1
<1>3. CASE n = 0
  BY <1>1, <1>3 DEF NextSteps
<1>4. CASE n \in 1 .. Steps - 1
  BY <1>1, <1>4 DEF NextSteps
<1>5. CASE n = Steps
  BY <1>1, <1>5 DEF NextSteps
<1> QED
  BY <1>2, <1>3, <1>4, <1>5

\* With job.mu free, or the runner's, nobody replays.
LEMMA NobodyReplays ==
  ASSUME Lock, mu \in {"", "runner"}
  PROVE  \A c \in Client : handler[c].pc # "replay"
BY ClientAssumption DEF Lock

LEMMA EmitStep ==
  ASSUME IInv, NEW v \in VM, Emit(v) PROVE IInv'
<1>1. Lock /\ Job /\ Emitters /\ Channels /\ Handlers /\ Lists /\ LogInv
  BY TypeOKParts DEF IInv
<1> DEFINE n == pipe[v].n
<1>2. PICK step \in NextSteps(n) :
        /\ pipe' = [pipe EXCEPT ![v] = [pc |-> "send", n |-> n + 1,
                                        step |-> step, to |-> listeners]]
        /\ Events' = Append(Events, [vm |-> v, n |-> n + 1, step |-> step])
  BY DEF Emit
<1>3. /\ mu = "" /\ pipe[v].pc = "run" /\ pipe[v] \in PipeState
      /\ UNCHANGED <<mu, listeners, Status, done, runner, clients, list, dropped>>
      /\ UNCHANGED <<chan, handler, gone, out>>
  BY <1>1, EventOfIs DEF Emit, clients
<1>4. pipe[v].step = "progress" /\ n \in 0 .. Steps
  <2>1. pipe[v].step = "progress" /\ n <= Steps
    BY <1>3 DEF IInv, PipeInv
  <2>2. n \in 0 .. Steps + 1
    BY <1>3 DEF PipeState
  <2> HIDE DEF n
  <2> QED
    BY <2>1, <2>2, StepsAssumption
<1>5. step \in {"progress", "ready", "failed"} /\ (step = "progress" => n + 1 <= Steps)
  BY <1>4, NextStepIs
<1> DEFINE e == [vm |-> v, n |-> n + 1, step |-> step]
           new == [pc |-> "send", n |-> n + 1, step |-> step, to |-> listeners]
<1>6. e.vm = v /\ e.n = n + 1 /\ e.step = step /\ e \in ProvisionEvent
  <2>1. n + 1 \in 1 .. Steps + 1
    BY <1>4, StepsAssumption
  <2> QED
    BY <1>5, <2>1 DEF ProvisionEvent
<1>7. new \in PipeState /\ new.pc = "send" /\ new.n = n + 1 /\ new.step = step
      /\ new.to = listeners
  <2>1. n + 1 \in 0 .. Steps + 1
    BY <1>4, StepsAssumption
  <2> QED
    BY <1>1, <1>5, <2>1 DEF PipeState, Job
<1>8. pipe' \in [VM -> PipeState] /\ pipe'[v] = new /\ \A u \in VM \ {v} : pipe'[u] = pipe[u]
  BY <1>1, <1>2, <1>7 DEF Emitters
<1>9. EventOf(v)' = e /\ \A u \in VM \ {v} : EventOf(u)' = EventOf(u)
  BY <1>7, <1>8 DEF EventOf
<1>10. Events' = Append(Events, e) /\ e \in Event
  BY <1>2, <1>6 DEF Event
<1> HIDE DEF e, new
<1>11. runner.pc = "wait" /\ job_complete \notin Elements(Events) /\ Elements(Events) \subseteq Event
  BY <1>3, LogFacts
<1>12. ASSUME NEW x \in Elements(Events)
       PROVE  /\ x # job_complete /\ x.n \in Nat /\ x.vm \in VM
              /\ x.vm = v => x.n <= n /\ x.step = "progress"
  <2>1. x # job_complete /\ x.n \in Nat /\ x.vm \in VM
    BY <1>11, EventIs
  <2>2. x.vm = v => x.n <= n /\ (x.step # "progress" => x = EventOf(v))
    BY <1>1, <2>1 DEF LogInv
  <2>3. EventOf(v).step = "progress"
    BY <1>1, <1>4, EventOfIs
  <2> QED
    BY <2>1, <2>2, <2>3
<1>13. /\ Events' \in Seq(Event) /\ Elements(Events') = Elements(Events) \cup {e}
       /\ e \notin Elements(Events) /\ e # job_complete
  <2>1. e \notin Elements(Events)
    BY <1>4, <1>6, <1>12
  <2> QED
    BY <1>1, <1>6, <1>10, <2>1, AppendIs, EventIs DEF Job
<1>14. LogInv'
  <2>1. Ordered(Events)'
    <3>1. \A x \in Elements(Events) : x # job_complete /\ (x.vm = e.vm => x.n < e.n)
      BY <1>4, <1>6, <1>12
    <3>2. Ordered(Append(Events, e))
      BY <1>1, <1>10, <3>1, AppendOrdered DEF Job, LogInv
    <3> QED
      BY <1>10, <3>2 DEF Ordered
  <2>2. ASSUME NEW x \in Elements(Events'), x # job_complete
        PROVE  /\ x.n <= pipe'[x.vm].n
               /\ x.n = pipe'[x.vm].n => x = EventOf(x.vm)'
               /\ x.step # "progress" => x.n = pipe'[x.vm].n
    <3>1. CASE x = e
      BY <1>4, <1>6, <1>7, <1>8, <1>9, <3>1
    <3>2. CASE x \in Elements(Events) /\ x.vm = v
      BY <1>4, <1>7, <1>8, <1>12, <3>2
    <3>3. CASE x \in Elements(Events) /\ x.vm # v
      BY <1>1, <1>8, <1>9, <1>12, <3>3 DEF LogInv
    <3> QED
      BY <1>13, <3>1, <3>2, <3>3
  <2>3. ASSUME NEW u \in VM, pipe'[u].n > 0 PROVE EventOf(u)' \in Elements(Events')
    <3>1. CASE u = v
      BY <1>9, <1>13, <3>1
    <3>2. CASE u # v
      BY <1>1, <1>8, <1>9, <1>13, <2>3, <3>2 DEF LogInv
    <3> QED
      BY <3>1, <3>2
  <2>4. job_complete \in Elements(Events') <=> runner'.pc \in {"send", "end"}
    BY <1>3, <1>11, <1>13
  <2> QED
    BY <2>1, <2>2, <2>3, <2>4 DEF LogInv
<1>15. ASSUME NEW u \in VM PROVE PipeInv(u)'
  <2>1. CASE u = v
    <3>1. new.n > 0 /\ (new.step = "progress" => new.n <= Steps)
      BY <1>4, <1>5, <1>7, StepsAssumption
    <3>2. pipe'[u] = new /\ new.pc = "send" /\ runner'.pc = "wait"
      BY <1>3, <1>7, <1>8, <1>11, <2>1
    <3> QED
      BY <3>1, <3>2 DEF PipeInv
  <2>2. CASE u # v
    BY <1>3, <1>8, <2>2 DEF IInv, PipeInv
  <2> QED
    BY <2>1, <2>2
<1>16. RunnerInv'
  BY <1>3, <1>11 DEF IInv, RunnerInv
<1>17. ASSUME NEW c \in Client PROVE ClientInv(c)'
  <2>1. InFlight(c)' = InFlight(c) \cup {x \in {e} : c \in listeners}
    <3>1. ASSUME NEW x
          PROVE  (\E u \in VM : pipe'[u].pc = "send" /\ c \in pipe'[u].to /\ x = EventOf(u)')
                 <=> \/ \E u \in VM : pipe[u].pc = "send" /\ c \in pipe[u].to /\ x = EventOf(u)
                     \/ x = e /\ c \in listeners
      BY <1>3, <1>7, <1>8, <1>9
    <3>2. ASSUME NEW x
          PROVE  x \in InFlight(c)' <=> x \in InFlight(c) \/ (x = e /\ c \in listeners)
      <4>1. x \in InFlight(c)' <=>
              \/ \E u \in VM : pipe'[u].pc = "send" /\ c \in pipe'[u].to /\ x = EventOf(u)'
              \/ x = job_complete /\ runner'.pc = "send" /\ c \in runner'.to
        BY InFlightIs
      <4>2. x \in InFlight(c) <=>
              \/ \E u \in VM : pipe[u].pc = "send" /\ c \in pipe[u].to /\ x = EventOf(u)
              \/ x = job_complete /\ runner.pc = "send" /\ c \in runner.to
        BY InFlightIs
      <4>3. runner' = runner
        BY <1>3
      <4> QED
        BY <3>1, <4>1, <4>2, <4>3, Zenon
    <3> QED
      BY <3>2
  <2>2. handler[c].pc # "replay"
    BY <1>1, <1>3, NobodyReplays
  <2> QED
    BY <1>3, <1>10, <1>11, <1>13, <2>1, <2>2, ClientSeesLog
<1>18. TypeOK'
  <2>1. Lock' /\ Job' /\ Emitters' /\ Channels' /\ Handlers' /\ Lists'
    BY <1>1, <1>3, <1>8, <1>13 DEF Lock, Job, Emitters, Channels, Handlers, Lists
  <2> QED
    BY <2>1, TypeOKParts
<1> QED
  BY <1>14, <1>15, <1>16, <1>17, <1>18 DEF IInv

\* The log and the status while no event is logged and no last event changes.
LEMMA LogRests ==
  ASSUME IInv, UNCHANGED Events,
         \A v \in VM : pipe'[v].n = pipe[v].n /\ pipe'[v].step = pipe[v].step,
         runner'.pc \in {"send", "end"} <=> runner.pc \in {"send", "end"}
  PROVE  LogInv'
<1>1. \A v \in VM : EventOf(v)' = EventOf(v)
  BY DEF EventOf
<1>2. LogInv /\ Elements(Events) \subseteq Event
  BY LogFacts DEF IInv
<1>3. Ordered(Events)'
  BY <1>2 DEF LogInv, Ordered
<1>4. ASSUME NEW x \in Elements(Events'), x # job_complete
      PROVE  /\ x.n <= pipe'[x.vm].n
             /\ x.n = pipe'[x.vm].n => x = EventOf(x.vm)'
             /\ x.step # "progress" => x.n = pipe'[x.vm].n
  <2>1. x \in Elements(Events) /\ x.vm \in VM
    BY <1>2, <1>4, EventIs
  <2> QED
    BY <1>1, <1>2, <1>4, <2>1 DEF LogInv
<1>5. \A v \in VM : pipe'[v].n > 0 => EventOf(v)' \in Elements(Events')
  BY <1>1, <1>2 DEF LogInv
<1>6. job_complete \in Elements(Events') <=> runner'.pc \in {"send", "end"}
  BY <1>2 DEF LogInv
<1> QED
  BY <1>3, <1>4, <1>5, <1>6 DEF LogInv

LEMMA StatusRests ==
  ASSUME IInv, UNCHANGED <<Status, done>>, runner'.pc = runner.pc,
         \A v \in VM : pipe'[v].step = pipe[v].step
  PROVE  RunnerInv'
<1>1. Summary' = Summary
  BY DEF Summary
<1> QED
  BY <1>1 DEF IInv, RunnerInv

\* The clients, while nothing is written, registered, offered or received.
LEMMA ClientsRest ==
  ASSUME IInv, UNCHANGED <<Events, listeners, clients, dropped>>,
         \A c \in Client : InFlight(c)' = InFlight(c)
  PROVE  \A c \in Client : ClientInv(c)'
<1>1. UNCHANGED <<chan, handler, gone, out>>
  BY DEF clients
<1> QED
  BY <1>1, ClientRests DEF IInv

LEMMA EmitSendStep ==
  ASSUME IInv, NEW v \in VM, NEW c \in Client, EmitSend(v, c) PROVE IInv'
<1>1. Lock /\ Job /\ Emitters /\ Channels /\ Handlers /\ Lists
  BY TypeOKParts DEF IInv
<1>2. /\ pipe[v].pc = "send" /\ c \in pipe[v].to /\ Offer(c, EventOf(v))
      /\ pipe' = [pipe EXCEPT ![v].to = pipe[v].to \ {c}]
      /\ UNCHANGED <<mu, Events, listeners, Status, done, runner, handler, gone, list, out>>
  BY DEF EmitSend
<1>3. /\ pipe' \in [VM -> PipeState]
      /\ \A u \in VM : pipe'[u].pc = pipe[u].pc /\ pipe'[u].n = pipe[u].n
                       /\ pipe'[u].step = pipe[u].step
      /\ pipe'[v].to = pipe[v].to \ {c} /\ \A u \in VM \ {v} : pipe'[u].to = pipe[u].to
  BY <1>1, <1>2 DEF Emitters, PipeState
<1>4. \A u \in VM : EventOf(u)' = EventOf(u)
  BY <1>3 DEF EventOf
<1>5. pipe[v].n > 0 /\ EventOf(v) \in ProvisionEvent /\ EventOf(v) # job_complete
  BY <1>1, <1>2, EventOfIs, EventIs DEF IInv, PipeInv
<1>6. \A u \in VM : EventOf(u) = EventOf(v) => u = v
  BY <1>1, EventOfIs
<1>7. ASSUME NEW d \in Client
      PROVE  \A x : x \in InFlight(d)' <=> x \in InFlight(d) /\ ~(d = c /\ x = EventOf(v))
  <2> SUFFICES ASSUME NEW x
               PROVE  x \in InFlight(d)' <=> x \in InFlight(d) /\ ~(d = c /\ x = EventOf(v))
    OBVIOUS
  <2>1. x \in InFlight(d)' <=>
          \/ \E u \in VM : pipe'[u].pc = "send" /\ d \in pipe'[u].to /\ x = EventOf(u)'
          \/ x = job_complete /\ runner'.pc = "send" /\ d \in runner'.to
    BY InFlightIs
  <2>2. x \in InFlight(d) <=>
          \/ \E u \in VM : pipe[u].pc = "send" /\ d \in pipe[u].to /\ x = EventOf(u)
          \/ x = job_complete /\ runner.pc = "send" /\ d \in runner.to
    BY InFlightIs
  <2>3. (\E u \in VM : pipe'[u].pc = "send" /\ d \in pipe'[u].to /\ x = EventOf(u)')
        <=> /\ \E u \in VM : pipe[u].pc = "send" /\ d \in pipe[u].to /\ x = EventOf(u)
            /\ ~(d = c /\ x = EventOf(v))
    BY <1>3, <1>4, <1>6
  <2>4. runner' = runner
    BY <1>2
  <2> QED
    BY <1>5, <2>1, <2>2, <2>3, <2>4, Zenon
<1>8. /\ InFlight(c)' = InFlight(c) \ {EventOf(v)}
      /\ \A d \in Client \ {c} : InFlight(d)' = InFlight(d)
  <2>1. InFlight(c)' = InFlight(c) \ {EventOf(v)}
    BY <1>7
  <2>2. ASSUME NEW d \in Client \ {c} PROVE InFlight(d)' = InFlight(d)
    BY <1>7
  <2> QED
    BY <2>1, <2>2
<1>9. EventOf(v) \in InFlight(c)
  BY <1>2, InFlightIs
<1>10. Channels' /\ \A d \in Client : ClientInv(d)'
  BY <1>2, <1>8, <1>9, ClientIsOffered
<1>11. TypeOK'
  <2>1. Lock' /\ Job' /\ Emitters' /\ Handlers' /\ Lists'
    BY <1>1, <1>2, <1>3 DEF Lock, Job, Emitters, Handlers, Lists
  <2> QED
    BY <1>10, <2>1, TypeOKParts
<1>12. LogInv'
  BY <1>2, <1>3, LogRests
<1>13. RunnerInv'
  BY <1>2, <1>3, StatusRests
<1>14. \A u \in VM : PipeInv(u)'
  BY <1>2, <1>3 DEF IInv, PipeInv
<1> QED
  BY <1>10, <1>11, <1>12, <1>13, <1>14 DEF IInv

LEMMA EmitReturnStep ==
  ASSUME IInv, NEW v \in VM, EmitReturn(v) PROVE IInv'
<1>1. Lock /\ Job /\ Emitters /\ Channels /\ Handlers /\ Lists
  BY TypeOKParts DEF IInv
<1> DEFINE pc == IF pipe[v].step = "progress" THEN "run" ELSE "end"
<1>2. /\ pipe[v].pc = "send" /\ pipe[v].to = {}
      /\ pipe' = [pipe EXCEPT ![v].pc = pc]
      /\ UNCHANGED <<mu, Events, listeners, Status, done, runner, clients, list, dropped>>
      /\ UNCHANGED <<chan, handler, gone, out>>
  BY DEF EmitReturn, clients
<1>3. /\ pipe' \in [VM -> PipeState]
      /\ \A u \in VM : pipe'[u].n = pipe[u].n /\ pipe'[u].step = pipe[u].step
                       /\ pipe'[u].to = pipe[u].to
      /\ pipe'[v].pc = pc /\ \A u \in VM \ {v} : pipe'[u].pc = pipe[u].pc
  BY <1>1, <1>2 DEF Emitters, PipeState
<1>4. \A u \in VM : EventOf(u)' = EventOf(u)
  BY <1>3 DEF EventOf
<1>5. ASSUME NEW c \in Client PROVE InFlight(c)' = InFlight(c)
  <2>1. ASSUME NEW x PROVE x \in InFlight(c)' <=> x \in InFlight(c)
    <3>1. x \in InFlight(c)' <=>
            \/ \E u \in VM : pipe'[u].pc = "send" /\ c \in pipe'[u].to /\ x = EventOf(u)'
            \/ x = job_complete /\ runner'.pc = "send" /\ c \in runner'.to
      BY InFlightIs
    <3>2. x \in InFlight(c) <=>
            \/ \E u \in VM : pipe[u].pc = "send" /\ c \in pipe[u].to /\ x = EventOf(u)
            \/ x = job_complete /\ runner.pc = "send" /\ c \in runner.to
      BY InFlightIs
    <3>3. (\E u \in VM : pipe'[u].pc = "send" /\ c \in pipe'[u].to /\ x = EventOf(u)')
          <=> \E u \in VM : pipe[u].pc = "send" /\ c \in pipe[u].to /\ x = EventOf(u)
      BY <1>2, <1>3, <1>4
    <3>4. runner' = runner
      BY <1>2
    <3> QED
      BY <3>1, <3>2, <3>3, <3>4, Zenon
  <2> QED
    BY <2>1
<1>6. \A c \in Client : ClientInv(c)'
  BY <1>2, <1>5, ClientsRest
<1>7. TypeOK'
  <2>1. Lock' /\ Job' /\ Emitters' /\ Channels' /\ Handlers' /\ Lists'
    BY <1>1, <1>2, <1>3 DEF Lock, Job, Emitters, Channels, Handlers, Lists
  <2> QED
    BY <2>1, TypeOKParts
<1>8. LogInv'
  BY <1>2, <1>3, LogRests
<1>9. RunnerInv'
  BY <1>2, <1>3, StatusRests
<1>10. ASSUME NEW u \in VM PROVE PipeInv(u)'
  <2>1. PipeInv(u) /\ PipeInv(v) /\ runner' = runner
    BY <1>2 DEF IInv
  <2>2. CASE u = v
    <3>1. runner.pc = "wait"
      BY <1>2, LogFacts
    <3> QED
      BY <1>2, <1>3, <2>1, <2>2, <3>1 DEF PipeInv
  <2>3. CASE u # v
    BY <1>3, <2>1, <2>3 DEF PipeInv
  <2> QED
    BY <2>2, <2>3
<1> QED
  BY <1>6, <1>7, <1>8, <1>9, <1>10 DEF IInv

\* While the pipelines do not move, only a runner that sends adds to what is in
\* flight.
LEMMA InFlightRests ==
  ASSUME UNCHANGED pipe, NEW c,
         (runner'.pc = "send" /\ c \in runner'.to) <=> (runner.pc = "send" /\ c \in runner.to)
  PROVE  InFlight(c)' = InFlight(c)
<1>1. \A u \in VM : EventOf(u)' = EventOf(u)
  BY DEF EventOf
<1>2. ASSUME NEW x PROVE x \in InFlight(c)' <=> x \in InFlight(c)
  <2>1. x \in InFlight(c)' <=>
          \/ \E u \in VM : pipe'[u].pc = "send" /\ c \in pipe'[u].to /\ x = EventOf(u)'
          \/ x = job_complete /\ runner'.pc = "send" /\ c \in runner'.to
    BY InFlightIs
  <2>2. x \in InFlight(c) <=>
          \/ \E u \in VM : pipe[u].pc = "send" /\ c \in pipe[u].to /\ x = EventOf(u)
          \/ x = job_complete /\ runner.pc = "send" /\ c \in runner.to
    BY InFlightIs
  <2> QED
    BY <1>1, <2>1, <2>2
<1> QED
  BY <1>2

LEMMA WaitAndLockStep == ASSUME IInv, WaitAndLock PROVE IInv'
<1>1. Lock /\ Job /\ Emitters /\ Channels /\ Handlers /\ Lists
  BY TypeOKParts DEF IInv
<1>2. /\ runner.pc = "wait" /\ mu = "" /\ mu' = "runner"
      /\ \A v \in VM : pipe[v].pc = "end"
      /\ runner' = [runner EXCEPT !.pc = "status"]
      /\ UNCHANGED <<Events, listeners, Status, done, pipe, clients, list, dropped>>
      /\ UNCHANGED <<chan, handler, gone, out>>
  BY DEF WaitAndLock, clients
<1>3. runner' \in RunnerState /\ runner'.pc = "status"
  BY <1>1, <1>2 DEF Emitters, RunnerState
<1>4. \A c \in Client : ClientInv(c)'
  BY <1>2, <1>3, InFlightRests, ClientsRest
<1>5. TypeOK'
  <2>1. Lock'
    BY <1>1, <1>2, <1>3, NobodyReplays, ClientAssumption DEF Lock
  <2>2. Job' /\ Emitters' /\ Channels' /\ Handlers' /\ Lists'
    BY <1>1, <1>2, <1>3 DEF Job, Emitters, Channels, Handlers, Lists
  <2> QED
    BY <2>1, <2>2, TypeOKParts
<1>6. LogInv'
  BY <1>2, <1>3, LogRests
<1>7. RunnerInv'
  BY <1>2, <1>3 DEF IInv, RunnerInv
<1>8. \A v \in VM : PipeInv(v)'
  BY <1>2, <1>3 DEF IInv, PipeInv
<1> QED
  BY <1>4, <1>5, <1>6, <1>7, <1>8 DEF IInv

LEMMA WriteStatusWordStep == ASSUME IInv, WriteStatusWord PROVE IInv'
<1>1. Lock /\ Job /\ Emitters /\ Channels /\ Handlers /\ Lists
  BY TypeOKParts DEF IInv
<1>2. PICK word \in {"ptr", "len"} : Status' = [Status EXCEPT ![word] = Summary]
  BY DEF WriteStatusWord
<1>3. /\ runner.pc = "status"
      /\ UNCHANGED <<mu, Events, listeners, done, pipe, runner, clients, list, dropped>>
      /\ UNCHANGED <<chan, handler, gone, out>>
  BY DEF WriteStatusWord, clients
<1>4. Summary \in Word /\ Summary' = Summary
  BY <1>3 DEF Summary, Word
<1>5. /\ Status' \in [ptr : Word, len : Word]
      /\ {Status'.ptr, Status'.len} \subseteq {Status.ptr, Status.len, Summary}
  <2>1. CASE word = "ptr"
    BY <1>1, <1>2, <1>4, <2>1 DEF Job
  <2>2. CASE word = "len"
    BY <1>1, <1>2, <1>4, <2>2 DEF Job
  <2> QED
    BY <2>1, <2>2
<1>6. \A c \in Client : ClientInv(c)'
  BY <1>3, InFlightRests, ClientsRest
<1>7. TypeOK'
  <2>1. Lock' /\ Job' /\ Emitters' /\ Channels' /\ Handlers' /\ Lists'
    BY <1>1, <1>3, <1>5 DEF Lock, Job, Emitters, Channels, Handlers, Lists
  <2> QED
    BY <2>1, TypeOKParts
<1>8. LogInv'
  BY <1>3, LogRests
<1>9. RunnerInv'
  BY <1>3, <1>4, <1>5 DEF IInv, RunnerInv
<1>10. \A v \in VM : PipeInv(v)'
  BY <1>3 DEF IInv, PipeInv
<1> QED
  BY <1>6, <1>7, <1>8, <1>9, <1>10 DEF IInv

LEMMA LogCompleteStep == ASSUME IInv, LogComplete PROVE IInv'
<1>1. Lock /\ Job /\ Emitters /\ Channels /\ Handlers /\ Lists /\ LogInv
  BY TypeOKParts DEF IInv
<1>2. /\ runner.pc = "status" /\ Status.ptr # "running" /\ Status.len # "running"
      /\ Events' = Append(Events, job_complete)
      /\ runner' = [pc |-> "send", to |-> listeners] /\ mu' = ""
      /\ UNCHANGED <<listeners, Status, done, pipe, clients, list, dropped>>
      /\ UNCHANGED <<chan, handler, gone, out>>
  BY DEF LogComplete, clients
<1>3. runner' \in RunnerState /\ runner'.pc = "send" /\ runner'.to = listeners
  BY <1>1, <1>2 DEF Job, RunnerState
<1>4. /\ job_complete \notin Elements(Events) /\ job_complete \in Event
      /\ Elements(Events) \subseteq Event
  BY <1>2, LogFacts, EventIs
<1>5. Events' \in Seq(Event) /\ Elements(Events') = Elements(Events) \cup {job_complete}
  <2>1. \A s \in Seq(Event), e \in Event :
          Append(s, e) \in Seq(Event) /\ Elements(Append(s, e)) = Elements(s) \cup {e}
    BY AppendIs
  <2> QED
    BY <1>1, <1>2, <1>4, <2>1 DEF Job
<1>6. \A v \in VM : EventOf(v)' = EventOf(v)
  BY <1>2 DEF EventOf
<1>7. LogInv'
  <2>1. Ordered(Events)'
    <3>1. ASSUME NEW x \in Elements(Events)
          PROVE  x # job_complete /\ (x.vm = job_complete.vm => x.n < job_complete.n)
      BY <1>4, EventIs
    <3>2. Ordered(Append(Events, job_complete))
      BY <1>1, <1>4, <3>1, AppendOrdered DEF Job, LogInv
    <3> QED
      BY <1>2, <3>2 DEF Ordered
  <2>2. ASSUME NEW x \in Elements(Events'), x # job_complete
        PROVE  /\ x.n <= pipe'[x.vm].n
               /\ x.n = pipe'[x.vm].n => x = EventOf(x.vm)'
               /\ x.step # "progress" => x.n = pipe'[x.vm].n
    <3>1. x \in Elements(Events) /\ x.vm \in VM
      BY <1>4, <1>5, <2>2, EventIs
    <3> QED
      BY <1>1, <1>2, <1>6, <2>2, <3>1 DEF LogInv
  <2>3. \A v \in VM : pipe'[v].n > 0 => EventOf(v)' \in Elements(Events')
    BY <1>1, <1>2, <1>5, <1>6 DEF LogInv
  <2>4. job_complete \in Elements(Events') <=> runner'.pc \in {"send", "end"}
    BY <1>3, <1>5
  <2> QED
    BY <2>1, <2>2, <2>3, <2>4 DEF LogInv
<1>8. \A v \in VM : PipeInv(v)'
  BY <1>2, <1>3 DEF IInv, PipeInv
<1>9. RunnerInv'
  <2>1. Summary' = Summary
    BY <1>2 DEF Summary
  <2> QED
    BY <1>2, <1>3, <2>1 DEF IInv, RunnerInv
<1>10. \A c \in Client : handler[c].pc # "replay"
  BY <1>1, <1>2, NobodyReplays DEF Lock
<1>11. ASSUME NEW c \in Client PROVE ClientInv(c)'
  <2>1. ASSUME NEW x
        PROVE  x \in InFlight(c)' <=> x \in InFlight(c) \/ (x = job_complete /\ c \in listeners)
    <3>1. x \in InFlight(c)' <=>
            \/ \E u \in VM : pipe'[u].pc = "send" /\ c \in pipe'[u].to /\ x = EventOf(u)'
            \/ x = job_complete /\ runner'.pc = "send" /\ c \in runner'.to
      BY InFlightIs
    <3>2. x \in InFlight(c) <=>
            \/ \E u \in VM : pipe[u].pc = "send" /\ c \in pipe[u].to /\ x = EventOf(u)
            \/ x = job_complete /\ runner.pc = "send" /\ c \in runner.to
      BY InFlightIs
    <3> QED
      BY <1>2, <1>3, <1>6, <3>1, <3>2
  <2>2. InFlight(c)' = InFlight(c) \cup {x \in {job_complete} : c \in listeners}
    BY <2>1
  <2> QED
    BY <1>2, <1>4, <1>10, <2>2, ClientSeesLog
<1>12. TypeOK'
  <2>1. Lock'
    BY <1>1, <1>2, <1>3, <1>10, ClientAssumption DEF Lock
  <2>2. Job' /\ Emitters' /\ Channels' /\ Handlers' /\ Lists'
    BY <1>1, <1>2, <1>3, <1>5 DEF Job, Emitters, Channels, Handlers, Lists
  <2> QED
    BY <2>1, <2>2, TypeOKParts
<1> QED
  BY <1>7, <1>8, <1>9, <1>11, <1>12 DEF IInv

LEMMA CompleteSendStep == ASSUME IInv, NEW c \in Client, CompleteSend(c) PROVE IInv'
<1>1. Lock /\ Job /\ Emitters /\ Channels /\ Handlers /\ Lists
  BY TypeOKParts DEF IInv
<1>2. /\ runner.pc = "send" /\ c \in runner.to /\ Offer(c, job_complete)
      /\ runner' = [runner EXCEPT !.to = runner.to \ {c}]
      /\ UNCHANGED <<mu, Events, listeners, Status, done, pipe, handler, gone, list, out>>
  BY DEF CompleteSend
<1>3. runner' \in RunnerState /\ runner'.pc = "send" /\ runner'.to = runner.to \ {c}
  BY <1>1, <1>2 DEF Emitters, RunnerState
<1>4. \A v \in VM : pipe[v].pc = "end"
  BY <1>2, LogFacts
<1>5. /\ InFlight(c)' = InFlight(c) \ {job_complete}
      /\ \A d \in Client \ {c} : InFlight(d)' = InFlight(d)
  <2>1. ASSUME NEW x PROVE x \in InFlight(c)' <=> x \in InFlight(c) /\ x # job_complete
    <3>1. x \in InFlight(c)' <=>
            \/ \E u \in VM : pipe'[u].pc = "send" /\ c \in pipe'[u].to /\ x = EventOf(u)'
            \/ x = job_complete /\ runner'.pc = "send" /\ c \in runner'.to
      BY InFlightIs
    <3>2. x \in InFlight(c) <=>
            \/ \E u \in VM : pipe[u].pc = "send" /\ c \in pipe[u].to /\ x = EventOf(u)
            \/ x = job_complete /\ runner.pc = "send" /\ c \in runner.to
      BY InFlightIs
    <3> QED
      BY <1>2, <1>3, <1>4, <3>1, <3>2
  <2>2. ASSUME NEW d \in Client \ {c} PROVE InFlight(d)' = InFlight(d)
    BY <1>2, <1>3, InFlightRests
  <2> QED
    BY <2>1, <2>2
<1>6. job_complete \in InFlight(c)
  BY <1>2, InFlightIs
<1>7. Channels' /\ \A d \in Client : ClientInv(d)'
  BY <1>2, <1>5, <1>6, ClientIsOffered
<1>8. TypeOK'
  <2>1. Lock' /\ Job' /\ Emitters' /\ Handlers' /\ Lists'
    BY <1>1, <1>2, <1>3 DEF Lock, Job, Emitters, Handlers, Lists
  <2> QED
    BY <1>7, <2>1, TypeOKParts
<1>9. LogInv'
  BY <1>2, <1>3, LogRests
<1>10. RunnerInv'
  BY <1>2, <1>3, StatusRests
<1>11. \A v \in VM : PipeInv(v)'
  BY <1>2, <1>3 DEF IInv, PipeInv
<1> QED
  BY <1>7, <1>8, <1>9, <1>10, <1>11 DEF IInv

LEMMA CloseDoneStep == ASSUME IInv, CloseDone PROVE IInv'
<1>1. Lock /\ Job /\ Emitters /\ Channels /\ Handlers /\ Lists
  BY TypeOKParts DEF IInv
<1>2. /\ runner.pc = "send" /\ runner.to = {} /\ done' = TRUE
      /\ runner' = [runner EXCEPT !.pc = "end"]
      /\ UNCHANGED <<mu, Events, listeners, Status, pipe, clients, list, dropped>>
      /\ UNCHANGED <<chan, handler, gone, out>>
  BY DEF CloseDone, clients
<1>3. runner' \in RunnerState /\ runner'.pc = "end"
  BY <1>1, <1>2 DEF Emitters, RunnerState
<1>4. \A c \in Client : ClientInv(c)'
  BY <1>2, <1>3, InFlightRests, ClientsRest
<1>5. TypeOK'
  <2>1. Lock' /\ Job' /\ Emitters' /\ Channels' /\ Handlers' /\ Lists'
    BY <1>1, <1>2, <1>3 DEF Lock, Job, Emitters, Channels, Handlers, Lists
  <2> QED
    BY <2>1, TypeOKParts
<1>6. LogInv'
  BY <1>2, <1>3, LogRests
<1>7. RunnerInv'
  <2>1. Summary' = Summary
    BY <1>2 DEF Summary
  <2> QED
    BY <1>2, <1>3, <2>1 DEF IInv, RunnerInv
<1>8. \A v \in VM : PipeInv(v)'
  BY <1>2, <1>3 DEF IInv, PipeInv
<1> QED
  BY <1>4, <1>5, <1>6, <1>7, <1>8 DEF IInv

-----------------------------------------------------------------------------
(* The steps of the clients and the listers                                *)

\* A step of one client leaves the job and the other clients alone.
LEMMA HandlerRests ==
  ASSUME IInv, NEW c \in Client, UNCHANGED <<Events, Status, done, pipe, runner>>,
         \A d \in Client \ {c} :
            /\ out'[d] = out[d] /\ chan'[d] = chan[d] /\ dropped'[d] = dropped[d]
            /\ handler'[d] = handler[d]
            /\ d \in listeners' <=> d \in listeners
            /\ d \in gone' <=> d \in gone,
         TypeOK', ClientInv(c)'
  PROVE  IInv'
<1>1. LogInv'
  BY LogRests
<1>2. RunnerInv'
  BY StatusRests
<1>3. \A v \in VM : PipeInv(v)'
  BY DEF IInv, PipeInv
<1>4. ASSUME NEW d \in Client \ {c} PROVE ClientInv(d)'
  <2>1. InFlight(d)' = InFlight(d)
    BY InFlightRests
  <2>2. ClientInv(d)
    BY DEF IInv
  <2> QED
    BY <2>1, <2>2, ClientRests
<1> QED
  BY <1>1, <1>2, <1>3, <1>4 DEF IInv

LEMMA OpenStep == ASSUME IInv, NEW c \in Client, Open(c) PROVE IInv'
<1>1. Lock /\ Job /\ Emitters /\ Channels /\ Handlers /\ Lists
  BY TypeOKParts DEF IInv
<1>2. /\ handler[c].pc = "start" /\ mu = "" /\ mu' = c
      /\ handler' = [handler EXCEPT ![c].pc = "replay"]
      /\ UNCHANGED <<Events, listeners, Status, done, pipe, runner, chan, gone,
                     list, out, dropped>>
  BY DEF Open
<1>3. /\ handler' \in [Client -> HandlerState]
      /\ handler'[c].pc = "replay" /\ handler'[c].i = handler[c].i
      /\ \A d \in Client \ {c} : handler'[d] = handler[d]
  BY <1>1, <1>2 DEF Handlers, HandlerState
<1>4. ClientInv(c)
  BY DEF IInv
<1>5. Stream(c)' = Stream(c) /\ InFlight(c)' = InFlight(c)
  BY <1>2, InFlightRests DEF Stream
<1>6. PlacesInv(c)'
  BY <1>2, <1>3, <1>4, <1>5 DEF ClientInv, PlacesInv
<1>7. Ordered(Stream(c))'
  BY <1>4, <1>5 DEF ClientInv, Ordered
<1>8. HandlerInv(c)'
  BY <1>2, <1>3, <1>4, <1>5 DEF ClientInv, HandlerInv
<1>9. TypeOK'
  <2>1. Lock'
    BY <1>1, <1>2, <1>3, NobodyReplays, ClientAssumption DEF Lock
  <2>2. Job' /\ Emitters' /\ Channels' /\ Handlers' /\ Lists'
    BY <1>1, <1>2, <1>3 DEF Job, Emitters, Channels, Handlers, Lists
  <2> QED
    BY <2>1, <2>2, TypeOKParts
<1> QED
  BY <1>2, <1>3, <1>6, <1>7, <1>8, <1>9, HandlerRests DEF ClientInv

LEMMA ReplayStep == ASSUME IInv, NEW c \in Client, Replay(c) PROVE IInv'
<1>1. Lock /\ Job /\ Emitters /\ Channels /\ Handlers /\ Lists /\ LogInv /\ ClientInv(c)
  BY TypeOKParts DEF IInv
<1> DEFINE i == handler[c].i
           e == Events[i]
<1>2. /\ handler[c].pc = "replay" /\ i <= Len(Events)
      /\ out' = [out EXCEPT ![c] = Append(out[c], e)]
      /\ handler' = [handler EXCEPT ![c].i = i + 1]
      /\ UNCHANGED <<mu, Events, listeners, Status, done, pipe, runner, chan, gone,
                     list, dropped>>
  BY DEF Replay
<1>3. /\ chan[c] = <<>> /\ dropped[c] = {} /\ InFlight(c) = {}
      /\ i = Len(out[c]) + 1
      /\ \A k \in 1 .. Len(out[c]) : out[c][k] = Events[k]
      /\ c \notin listeners
  BY <1>1, <1>2 DEF ClientInv, HandlerInv
<1>4. /\ out[c] \in Seq(Event) /\ Len(out[c]) \in Nat /\ Len(Events) \in Nat
      /\ DOMAIN Events = 1 .. Len(Events)
  BY <1>1, ElementsIs DEF Channels, Job
<1> HIDE DEF i
<1>5. i \in 1 .. Len(Events)
  BY <1>2, <1>3, <1>4
<1>6. e \in Elements(Events) /\ e \in Event
  BY <1>1, <1>5, ElementsIs DEF Job
<1> HIDE DEF e
<1> DEFINE t == Append(out[c], e)
<1>7. /\ t \in Seq(Event) /\ Len(t) = Len(out[c]) + 1
      /\ \A k \in 1 .. Len(out[c]) : t[k] = out[c][k]
      /\ t[Len(out[c]) + 1] = e
  <2>1. \A s \in Seq(Event) :
          /\ Append(s, e) \in Seq(Event) /\ Len(Append(s, e)) = Len(s) + 1
          /\ \A k \in 1 .. Len(s) : Append(s, e)[k] = s[k]
          /\ Append(s, e)[Len(s) + 1] = e
    BY <1>6, AppendIs
  <2> QED
    BY <1>4, <2>1
<1> HIDE DEF t
<1>8. /\ out' \in [Client -> Seq(Event)] /\ out'[c] = t
      /\ \A d \in Client \ {c} : out'[d] = out[d]
  BY <1>1, <1>2, <1>7 DEF Channels, t
<1>9. /\ handler' \in [Client -> HandlerState] /\ handler'[c].pc = "replay"
      /\ handler'[c].i = i + 1
      /\ \A d \in Client \ {c} : handler'[d] = handler[d]
      /\ \A d \in Client : handler'[d].pc = handler[d].pc
  <2>1. i + 1 \in Nat
    BY <1>4, <1>5
  <2> QED
    BY <1>1, <1>2, <2>1 DEF Handlers, HandlerState
<1>10. \A k \in 1 .. Len(t) : t[k] = Events[k]
  BY <1>3, <1>4, <1>7 DEF e
<1>11. Len(t) <= Len(Events) /\ 1 .. Len(t) \subseteq 1 .. Len(Events)
       /\ i + 1 = Len(t) + 1 /\ DOMAIN t = 1 .. Len(t)
  BY <1>3, <1>4, <1>5, <1>7, ElementsIs
<1>12. Elements(t) \subseteq Elements(Events)
  BY <1>1, <1>7, <1>10, <1>11, ElementsIs DEF Job
<1>13. Stream(c)' = t /\ InFlight(c)' = {}
  <2>1. Stream(c)' = t \o <<>>
    BY <1>2, <1>3, <1>8 DEF Stream
  <2>2. t \o <<>> = t
    BY <1>7, ConcatEmptySeq
  <2>3. InFlight(c)' = InFlight(c)
    BY <1>2, InFlightRests
  <2> QED
    BY <1>3, <2>1, <2>2, <2>3
<1>14. PlacesInv(c)'
  BY <1>2, <1>3, <1>9, <1>12, <1>13 DEF PlacesInv
<1>15. Ordered(Stream(c))'
  <2>1. Ordered(t)
    <3>1. Ordered(Events)
      BY <1>1 DEF LogInv
    <3> QED
      BY <1>4, <1>10, <1>11, <3>1 DEF Ordered
  <2> QED
    BY <1>13, <2>1 DEF Ordered
<1>16. HandlerInv(c)'
  BY <1>2, <1>3, <1>8, <1>9, <1>10, <1>11, <1>13 DEF HandlerInv
<1>17. TypeOK'
  <2>1. Lock' /\ Job' /\ Emitters' /\ Channels' /\ Handlers' /\ Lists'
    BY <1>1, <1>2, <1>8, <1>9 DEF Lock, Job, Emitters, Channels, Handlers, Lists
  <2> QED
    BY <2>1, TypeOKParts
<1> QED
  BY <1>2, <1>8, <1>9, <1>14, <1>15, <1>16, <1>17, HandlerRests DEF ClientInv

LEMMA SubscribeStep == ASSUME IInv, NEW c \in Client, Subscribe(c) PROVE IInv'
<1>1. Lock /\ Job /\ Emitters /\ Channels /\ Handlers /\ Lists /\ LogInv /\ ClientInv(c)
  BY TypeOKParts DEF IInv
<1>2. /\ handler[c].pc = "replay" /\ handler[c].i > Len(Events) /\ mu' = ""
      /\ \/ /\ done /\ UNCHANGED listeners
            /\ handler' = [handler EXCEPT ![c].pc = "returned"]
         \/ /\ ~done /\ listeners' = listeners \cup {c}
            /\ handler' = [handler EXCEPT ![c].pc = "stream"]
      /\ UNCHANGED <<Events, Status, done, pipe, runner, chan, gone, list, out, dropped>>
  BY <1>1 DEF Subscribe, Job
<1>3. /\ chan[c] = <<>> /\ dropped[c] = {} /\ InFlight(c) = {} /\ c \notin listeners
      /\ handler[c].i = Len(out[c]) + 1 /\ Len(out[c]) <= Len(Events)
      /\ \A k \in 1 .. Len(out[c]) : out[c][k] = Events[k]
  BY <1>1, <1>2 DEF ClientInv, HandlerInv
<1>4. out[c] \in Seq(Event) /\ Len(out[c]) \in Nat /\ Len(Events) \in Nat /\ Events \in Seq(Event)
  BY <1>1, ElementsIs DEF Channels, Job
<1>5. Elements(out[c]) = Elements(Events)
  <2>1. Len(out[c]) + 1 > Len(Events) /\ Len(out[c]) <= Len(Events)
    BY <1>2, <1>3
  <2>2. Len(out[c]) = Len(Events)
    BY <1>4, <2>1
  <2>3. ASSUME NEW x PROVE x \in Elements(out[c]) <=> x \in Elements(Events)
    <3>1. x \in Elements(out[c]) <=> \E k \in 1 .. Len(out[c]) : x = out[c][k]
      BY <1>4, ElementsIs
    <3>2. x \in Elements(Events) <=> \E k \in 1 .. Len(Events) : x = Events[k]
      BY <1>4, ElementsIs
    <3> QED
      BY <1>3, <2>2, <3>1, <3>2
  <2> QED
    BY <2>3
<1>6. Stream(c) = out[c] /\ Stream(c)' = Stream(c) /\ InFlight(c)' = InFlight(c)
  <2>1. Stream(c) = out[c] \o <<>> /\ Stream(c)' = Stream(c)
    BY <1>2, <1>3 DEF Stream
  <2>2. out[c] \o <<>> = out[c]
    BY <1>4, ConcatEmptySeq
  <2>3. InFlight(c)' = InFlight(c)
    BY <1>2, InFlightRests
  <2> QED
    BY <2>1, <2>2, <2>3
<1>7. /\ handler' \in [Client -> HandlerState] /\ handler'[c].pc \in {"returned", "stream"}
      /\ handler'[c].pc = "returned" <=> done
      /\ \A d \in Client \ {c} : handler'[d] = handler[d]
      /\ c \in listeners' <=> ~done
      /\ \A d \in Client \ {c} : d \in listeners' <=> d \in listeners
      /\ listeners' \subseteq Client
  <2>1. PICK pc \in {"returned", "stream"} :
          handler' = [handler EXCEPT ![c].pc = pc] /\ (pc = "returned" <=> done)
    BY <1>2
  <2>2. /\ handler' \in [Client -> HandlerState] /\ handler'[c].pc = pc
        /\ \A d \in Client \ {c} : handler'[d] = handler[d]
    BY <1>1, <2>1 DEF Handlers, HandlerState
  <2>3. listeners' = IF done THEN listeners ELSE listeners \cup {c}
    BY <1>2
  <2>4. /\ c \in listeners' <=> ~done
        /\ \A d \in Client \ {c} : d \in listeners' <=> d \in listeners
        /\ listeners' \subseteq Client
    BY <1>1, <1>3, <2>3 DEF Job
  <2> QED
    BY <2>1, <2>2, <2>4
<1>8. PlacesInv(c)'
  BY <1>1, <1>2, <1>5, <1>6, <1>7 DEF ClientInv, PlacesInv
<1>9. Ordered(Stream(c))'
  BY <1>1, <1>6 DEF ClientInv, Ordered
<1>10. HandlerInv(c)'
  <2>1. done => job_complete \in Elements(Events)
    BY <1>1 DEF IInv, RunnerInv, LogInv
  <2> QED
    BY <1>2, <1>3, <1>5, <1>7, <2>1 DEF HandlerInv
<1>11. TypeOK'
  <2>1. Lock'
    <3>1. mu = c /\ \A d \in Client \ {c} : handler[d].pc # "replay"
      BY <1>1, <1>2 DEF Lock
    <3>2. runner.pc # "status"
      BY <1>1, <3>1, ClientAssumption DEF Lock
    <3> QED
      BY <1>2, <1>7, <3>1, <3>2, ClientAssumption DEF Lock
  <2>2. Job' /\ Emitters' /\ Channels' /\ Handlers' /\ Lists'
    BY <1>1, <1>2, <1>7 DEF Job, Emitters, Channels, Handlers, Lists
  <2> QED
    BY <2>1, <2>2, TypeOKParts
<1> QED
  BY <1>2, <1>7, <1>8, <1>9, <1>10, <1>11, HandlerRests DEF ClientInv

LEMMA ReceiveStep == ASSUME IInv, NEW c \in Client, Receive(c) PROVE IInv'
<1>1. Lock /\ Job /\ Emitters /\ Channels /\ Handlers /\ Lists /\ ClientInv(c)
  BY TypeOKParts DEF IInv
<1> DEFINE e == Head(chan[c])
           t == Tail(chan[c])
           pc == IF e = job_complete THEN "leave" ELSE "stream"
<1>2. /\ handler[c].pc = "stream" /\ chan[c] # <<>>
      /\ chan' = [chan EXCEPT ![c] = t]
      /\ out' = [out EXCEPT ![c] = Append(out[c], e)]
      /\ handler' = [handler EXCEPT ![c].pc = pc]
      /\ UNCHANGED <<mu, Events, listeners, Status, done, pipe, runner, gone, list,
                     dropped>>
  BY DEF Receive
<1>3. /\ out[c] \in Seq(Event) /\ chan[c] \in Seq(Event) /\ Len(chan[c]) <= Cap
      /\ \A s \in Seq(Event) : s \in Seq(Event) => Len(s) \in Nat
  BY <1>1, ElementsIs DEF Channels
<1>4. Append(out[c], e) \o t = out[c] \o chan[c]
  <2>1. \A s, u \in Seq(Event) : u # <<>> => Append(s, Head(u)) \o Tail(u) = s \o u
    BY ConcatMove
  <2> QED
    BY <1>2, <1>3, <2>1, Zenon
<1>5. e \in Event /\ t \in Seq(Event) /\ Len(t) = Len(chan[c]) - 1
  BY <1>2, <1>3, HeadTailProperties
<1> HIDE DEF e, t
<1>6. Append(out[c], e) \in Seq(Event)
      /\ Elements(Append(out[c], e)) = Elements(out[c]) \cup {e}
  <2>1. \A s \in Seq(Event) : Append(s, e) \in Seq(Event)
                              /\ Elements(Append(s, e)) = Elements(s) \cup {e}
    BY <1>5, AppendIs
  <2> QED
    BY <1>3, <2>1
<1>7. /\ chan' \in [Client -> Seq(Event)] /\ chan'[c] = t
      /\ \A d \in Client \ {c} : chan'[d] = chan[d]
  BY <1>1, <1>2, <1>5 DEF Channels
<1>8. /\ out' \in [Client -> Seq(Event)] /\ out'[c] = Append(out[c], e)
      /\ \A d \in Client \ {c} : out'[d] = out[d]
  BY <1>1, <1>2, <1>6 DEF Channels
<1>9. /\ handler' \in [Client -> HandlerState]
      /\ handler'[c].pc = pc /\ pc \in {"leave", "stream"}
      /\ \A d \in Client \ {c} : handler'[d] = handler[d]
  BY <1>1, <1>2 DEF Handlers, HandlerState
<1>10. Stream(c)' = Stream(c) /\ InFlight(c)' = InFlight(c)
  <2>1. Stream(c)' = Append(out[c], e) \o t
    BY <1>7, <1>8 DEF Stream
  <2>2. InFlight(c)' = InFlight(c)
    BY <1>2, InFlightRests
  <2> QED
    BY <1>4, <2>1, <2>2 DEF Stream
<1>11. PlacesInv(c)'
  BY <1>1, <1>2, <1>9, <1>10 DEF ClientInv, PlacesInv
<1>12. Ordered(Stream(c))'
  BY <1>1, <1>10 DEF ClientInv, Ordered
<1>13. HandlerInv(c)'
  <2>1. pc = "leave" => job_complete \in Elements(out'[c])
    BY <1>6, <1>8
  <2>2. c \in listeners'
    BY <1>1, <1>2 DEF ClientInv, HandlerInv
  <2> HIDE DEF pc
  <2> QED
    BY <1>9, <2>1, <2>2 DEF HandlerInv
<1>14. TypeOK'
  <2>1. \A d \in Client : handler'[d].pc = "replay" <=> handler[d].pc = "replay"
    BY <1>2, <1>9
  <2>2. Lock' /\ Job' /\ Emitters' /\ Handlers' /\ Lists'
    BY <1>1, <1>2, <1>9, <2>1 DEF Lock, Job, Emitters, Handlers, Lists
  <2>3. Len(t) <= Cap
    BY <1>3, <1>5, CapAssumption
  <2>4. Channels'
    BY <1>1, <1>2, <1>7, <1>8, <2>3 DEF Channels
  <2> QED
    BY <2>2, <2>4, TypeOKParts
<1> HIDE DEF pc
<1> QED
  BY <1>2, <1>7, <1>8, <1>9, <1>11, <1>12, <1>13, <1>14, HandlerRests DEF ClientInv

LEMMA ContextDoneStep == ASSUME IInv, NEW c \in Client, ContextDone(c) PROVE IInv'
<1>1. Lock /\ Job /\ Emitters /\ Channels /\ Handlers /\ Lists /\ ClientInv(c)
  BY TypeOKParts DEF IInv
<1>2. /\ handler[c].pc = "stream" /\ c \in gone
      /\ handler' = [handler EXCEPT ![c].pc = "leave"]
      /\ UNCHANGED <<mu, Events, listeners, Status, done, pipe, runner, chan, gone,
                     list, out, dropped>>
  BY DEF ContextDone
<1>3. /\ handler' \in [Client -> HandlerState] /\ handler'[c].pc = "leave"
      /\ \A d \in Client \ {c} : handler'[d] = handler[d]
  BY <1>1, <1>2 DEF Handlers, HandlerState
<1>4. Stream(c)' = Stream(c) /\ InFlight(c)' = InFlight(c)
  BY <1>2, InFlightRests DEF Stream
<1>5. PlacesInv(c)'
  BY <1>1, <1>2, <1>3, <1>4 DEF ClientInv, PlacesInv
<1>6. Ordered(Stream(c))'
  BY <1>1, <1>4 DEF ClientInv, Ordered
<1>7. HandlerInv(c)'
  BY <1>1, <1>2, <1>3 DEF ClientInv, HandlerInv
<1>8. TypeOK'
  <2>1. Lock' /\ Job' /\ Emitters' /\ Channels' /\ Handlers' /\ Lists'
    BY <1>1, <1>2, <1>3 DEF Lock, Job, Emitters, Channels, Handlers, Lists
  <2> QED
    BY <2>1, TypeOKParts
<1> QED
  BY <1>2, <1>3, <1>5, <1>6, <1>7, <1>8, HandlerRests DEF ClientInv

\* After job_complete nothing is left in the channel.
LEMMA NothingFollows ==
  ASSUME NEW s \in Seq(Event), NEW t \in Seq(Event), Ordered(s \o t),
         job_complete \in Elements(s)
  PROVE  t = <<>>
<1>1. Len(s) \in Nat /\ Len(t) \in Nat
  BY LenProperties
<1>2. SUFFICES ASSUME Len(t) # 0 PROVE FALSE
  BY EmptySeq
<1> DEFINE u == s \o t
<1>3. /\ u \in Seq(Event) /\ Len(u) = Len(s) + Len(t)
      /\ \A i \in 1 .. Len(s) + Len(t) : u[i] = IF i <= Len(s) THEN s[i] ELSE t[i - Len(s)]
  BY ConcatProperties
<1>4. Ordered(u)
  OBVIOUS
<1> HIDE DEF u
<1>5. PICK i \in 1 .. Len(s) : s[i] = job_complete
  BY ElementsIs
<1>6. DOMAIN u = 1 .. Len(s) + Len(t)
  BY <1>3, ElementsIs
<1>7. /\ i \in 1 .. Len(s) + Len(t) /\ i <= Len(s) /\ i < Len(s) + 1
      /\ Len(s) + 1 \in 1 .. Len(s) + Len(t)
  BY <1>1, <1>2, <1>5
<1>8. u[i] = job_complete
  BY <1>3, <1>5, <1>7
<1> QED
  BY <1>4, <1>6, <1>7, <1>8 DEF Ordered

LEMMA LeaveStep == ASSUME IInv, NEW c \in Client, Leave(c) PROVE IInv'
<1>1. Lock /\ Job /\ Emitters /\ Channels /\ Handlers /\ Lists /\ LogInv /\ ClientInv(c)
  BY TypeOKParts DEF IInv
<1>2. /\ handler[c].pc = "leave" /\ listeners' = listeners \ {c}
      /\ handler' = [handler EXCEPT ![c].pc = "returned"]
      /\ UNCHANGED <<mu, Events, Status, done, pipe, runner, chan, gone, list, out,
                     dropped>>
  BY DEF Leave
<1>3. /\ handler' \in [Client -> HandlerState] /\ handler'[c].pc = "returned"
      /\ \A d \in Client \ {c} : handler'[d] = handler[d]
  BY <1>1, <1>2 DEF Handlers, HandlerState
<1>4. Stream(c)' = Stream(c) /\ InFlight(c)' = InFlight(c)
  BY <1>2, InFlightRests DEF Stream
<1>5. PlacesInv(c)'
  BY <1>1, <1>2, <1>3, <1>4 DEF ClientInv, PlacesInv
<1>6. Ordered(Stream(c))'
  BY <1>1, <1>4 DEF ClientInv, Ordered
<1>7. ASSUME c \notin gone
      PROVE  /\ job_complete \in Elements(out[c])
             /\ Elements(Events) = Elements(out[c]) \cup dropped[c]
  <2>1. job_complete \in Elements(out[c])
    BY <1>1, <1>2, <1>7 DEF ClientInv, HandlerInv
  <2>2. job_complete \in Elements(Stream(c)) /\ job_complete \in Elements(Events)
    BY <2>1, LogFacts
  <2>3. \A v \in VM : pipe[v].pc = "end"
    <3>1. runner.pc \in {"send", "end"}
      BY <1>1, <2>2 DEF LogInv
    <3> QED
      BY <3>1, LogFacts
  <2>4. InFlight(c) = {}
    <3>1. job_complete \notin InFlight(c)
      BY <1>1, <2>2 DEF ClientInv, PlacesInv
    <3> QED
      BY <2>3, <3>1, InFlightIs
  <2>5. Stream(c) = out[c]
    <3>1. out[c] \in Seq(Event) /\ chan[c] \in Seq(Event) /\ Ordered(out[c] \o chan[c])
      BY <1>1 DEF Channels, ClientInv, Stream
    <3>2. chan[c] = <<>>
      BY <2>1, <3>1, NothingFollows
    <3> QED
      BY <3>1, <3>2, ConcatEmptySeq DEF Stream
  <2> QED
    BY <1>1, <1>2, <2>1, <2>4, <2>5 DEF ClientInv, PlacesInv
<1>8. HandlerInv(c)'
  BY <1>2, <1>3, <1>7 DEF HandlerInv
<1>9. TypeOK'
  <2>1. Lock' /\ Job' /\ Emitters' /\ Channels' /\ Handlers' /\ Lists'
    BY <1>1, <1>2, <1>3 DEF Lock, Job, Emitters, Channels, Handlers, Lists
  <2> QED
    BY <2>1, TypeOKParts
<1> QED
  BY <1>2, <1>3, <1>5, <1>6, <1>8, <1>9, HandlerRests DEF ClientInv

LEMMA DisconnectStep == ASSUME IInv, NEW c \in Client, Disconnect(c) PROVE IInv'
<1>1. Lock /\ Job /\ Emitters /\ Channels /\ Handlers /\ Lists /\ ClientInv(c)
  BY TypeOKParts DEF IInv
<1>2. /\ gone' = gone \cup {c}
      /\ UNCHANGED <<mu, Events, listeners, Status, done, pipe, runner, chan,
                     handler, list, out, dropped>>
  BY DEF Disconnect
<1>3. Stream(c)' = Stream(c) /\ InFlight(c)' = InFlight(c)
  BY <1>2, InFlightRests DEF Stream
<1>4. PlacesInv(c)'
  BY <1>1, <1>2, <1>3 DEF ClientInv, PlacesInv
<1>5. Ordered(Stream(c))'
  BY <1>1, <1>3 DEF ClientInv, Ordered
<1>6. HandlerInv(c)'
  BY <1>1, <1>2, <1>3 DEF ClientInv, HandlerInv
<1>7. TypeOK'
  <2>1. Lock' /\ Job' /\ Emitters' /\ Channels' /\ Handlers' /\ Lists'
    BY <1>1, <1>2 DEF Lock, Job, Emitters, Channels, Handlers, Lists
  <2> QED
    BY <2>1, TypeOKParts
<1> QED
  BY <1>2, <1>4, <1>5, <1>6, <1>7, HandlerRests DEF ClientInv

\* A step that changes nothing but the lists.
LEMMA ListerRests ==
  ASSUME IInv, Lists',
         UNCHANGED <<mu, Events, listeners, Status, done, pipe, runner, clients, dropped>>
  PROVE  IInv'
<1>1. UNCHANGED <<chan, handler, gone, out>>
  BY DEF clients
<1>2. Lock' /\ Job' /\ Emitters' /\ Channels' /\ Handlers'
  BY <1>1, TypeOKParts DEF IInv, Lock, Job, Emitters, Channels, Handlers
<1>3. TypeOK'
  BY <1>2, TypeOKParts
<1>4. LogInv'
  BY LogRests
<1>5. RunnerInv'
  BY StatusRests
<1>6. \A v \in VM : PipeInv(v)'
  BY DEF IInv, PipeInv
<1>7. \A c \in Client : ClientInv(c)'
  BY InFlightRests, ClientsRest
<1> QED
  BY <1>3, <1>4, <1>5, <1>6, <1>7 DEF IInv

LEMMA ReadStatusWordStep == ASSUME IInv, NEW l \in Lister, ReadStatusWord(l) PROVE IInv'
<1> DEFINE none == [ptr |-> "", len |-> ""]
<1>1. PICK word \in {"ptr", "len"} :
        list' = [list EXCEPT ![l] = IF @.ptr = @.len
                                    THEN [@ EXCEPT ![word] = Status[word]] ELSE none]
  BY DEF ReadStatusWord
<1>2. Status.ptr \in Word /\ Status.len \in Word /\ Lists
  BY TypeOKParts DEF IInv, Job
<1>3. none \in [ptr : Word \cup {""}, len : Word \cup {""}]
  OBVIOUS
<1> HIDE DEF none
<1>4. Lists'
  <2>1. CASE word = "ptr"
    BY <1>1, <1>2, <1>3, <2>1 DEF Lists
  <2>2. CASE word = "len"
    BY <1>1, <1>2, <1>3, <2>2 DEF Lists
  <2> QED
    BY <2>1, <2>2
<1> QED
  BY <1>4, ListerRests DEF ReadStatusWord

-----------------------------------------------------------------------------
(* The invariant and the theorems                                          *)

LEMMA NextIInv == IInv /\ [Next]_vars => IInv'
<1> SUFFICES ASSUME IInv, [Next]_vars PROVE IInv'
  OBVIOUS
<1>1. ASSUME NEW v \in VM, Pipeline(v) PROVE IInv'
  BY <1>1, EmitStep, EmitReturnStep, EmitSendStep DEF Pipeline
<1>2. CASE runJob
  BY <1>2, WaitAndLockStep, WriteStatusWordStep, LogCompleteStep, CloseDoneStep,
     CompleteSendStep DEF runJob
<1>3. ASSUME NEW c \in Client, handleJobEvents(c) PROVE IInv'
  BY <1>3, OpenStep, ReplayStep, SubscribeStep, ReceiveStep, ContextDoneStep, LeaveStep
     DEF handleJobEvents, Write
<1>4. ASSUME NEW c \in Client, Disconnect(c) PROVE IInv'
  BY <1>4, DisconnectStep
<1>5. ASSUME NEW l \in Lister, ReadStatusWord(l) PROVE IInv'
  BY <1>5, ReadStatusWordStep
<1>6. CASE UNCHANGED vars
  <2>1. UNCHANGED <<mu, Events, listeners, Status, done, pipe, runner, clients, dropped>>
        /\ UNCHANGED list
    BY <1>6 DEF vars, clients
  <2>2. Lists'
    BY <2>1, TypeOKParts DEF IInv, Lists
  <2> QED
    BY <2>1, <2>2, ListerRests
<1> QED
  BY <1>1, <1>2, <1>3, <1>4, <1>5, <1>6 DEF Next

THEOREM Invariance == Spec => []IInv
BY InitIInv, NextIInv, PTL DEF Spec

\* Type correctness: job.mu has one holder, and a channel never holds more than
\* its capacity.
THEOREM TypeCorrect == Spec => []TypeOK
<1>1. IInv => TypeOK
  BY DEF IInv
<1> QED
  BY <1>1, Invariance, PTL

\* handleJobEvents misses no event: replay and registration under job.mu leave a
\* registered client with every event of the log in exactly one place, however
\* the pipelines' sends interleave and whatever a full channel drops.
THEOREM NothingIsMissed == Spec => []NothingMissed
<1>1. IInv => NothingMissed
  <2>1. SUFFICES ASSUME IInv, NEW c \in Client, handler[c].pc \in {"stream", "leave"}
                 PROVE  /\ Elements(Events) = Elements(Stream(c)) \cup InFlight(c) \cup dropped[c]
                        /\ Elements(Stream(c)) \cap InFlight(c) = {}
                        /\ dropped[c] \cap (Elements(Stream(c)) \cup InFlight(c)) = {}
    BY DEF NothingMissed
  <2>2. PlacesInv(c)
    BY <2>1 DEF IInv, ClientInv
  <2> QED
    BY <2>1, <2>2 DEF PlacesInv
<1> QED
  BY <1>1, Invariance, PTL

\* What a client is sent keeps the order of each VM's events, repeats none, and
\* ends with job_complete.
THEOREM StreamsAreOrdered == Spec => []StreamOrdered
<1>1. IInv => StreamOrdered
  BY DEF IInv, ClientInv, Ordered, StreamOrdered
<1> QED
  BY <1>1, Invariance, PTL

\* handleJobEvents returns to a client that has stayed only after it has written
\* job_complete, and everything the log held that was not dropped.
THEOREM EndedStreamsAreWhole == Spec => []EndedStreamIsWhole
<1>1. IInv => EndedStreamIsWhole
  BY DEF IInv, ClientInv, HandlerInv, EndedStreamIsWhole
<1> QED
  BY <1>1, Invariance, PTL

\* The status runJob settles is the one its log shows: each VM ended with ready or
\* failed, and the job is completed exactly if none failed.
THEOREM StatusFollowsLog == Spec => []StatusMatchesLog
<1>1. ASSUME IInv, job_complete \in Elements(Events)
      PROVE  /\ Status.ptr = Status.len
             /\ \A v \in VM : \E e \in Elements(Events) :
                    e.vm = v /\ e.step \in {"ready", "failed"}
             /\ Status.ptr = "completed" <=>
                    \A e \in Elements(Events) : e.step # "failed"
  <2>1. Emitters /\ LogInv /\ Elements(Events) \subseteq Event
    BY <1>1, TypeOKParts, LogFacts DEF IInv
  <2>2. runner.pc \in {"send", "end"}
    BY <1>1, <2>1 DEF LogInv
  <2>3. Status.ptr = Summary /\ Status.len = Summary
    BY <1>1, <2>2 DEF IInv, RunnerInv
  <2>4. ASSUME NEW v \in VM
        PROVE  /\ EventOf(v) \in Elements(Events) /\ EventOf(v).vm = v
               /\ EventOf(v).step = pipe[v].step /\ pipe[v].step \in {"ready", "failed"}
    <3>1. pipe[v].pc = "end"
      BY <1>1, <2>2, LogFacts
    <3>2. pipe[v].n > 0 /\ pipe[v].step # "progress"
      BY <1>1, <3>1 DEF IInv, PipeInv
    <3>3. pipe[v].step \in {"progress", "ready", "failed"}
      BY <2>1, EventOfIs DEF PipeState
    <3>4. EventOf(v).vm = v /\ EventOf(v).step = pipe[v].step
      BY <2>1, EventOfIs
    <3> QED
      BY <2>1, <3>2, <3>3, <3>4 DEF LogInv
  <2>5. ASSUME NEW e \in Elements(Events), e.step = "failed"
        PROVE  \E v \in VM : pipe[v].step = "failed"
    <3>1. e # job_complete /\ e.vm \in VM
      BY <2>1, <2>5, EventIs
    <3>2. e = EventOf(e.vm)
      BY <2>1, <2>5, <3>1 DEF LogInv
    <3> QED
      BY <2>4, <2>5, <3>1, <3>2
  <2> QED
    BY <2>3, <2>4, <2>5 DEF Summary
<1>2. IInv => StatusMatchesLog
  BY <1>1 DEF StatusMatchesLog
<1> QED
  BY <1>2, Invariance, PTL

\* job_complete is final: no pipeline logs after it, and the status stays.
THEOREM CompletionIsFinal == Spec => CompletedJobIsFinal
<1>1. IInv /\ [Next]_vars =>
        [(job_complete \in Elements(Events)) => UNCHANGED <<Events, Status>>]_vars
  <2>1. SUFFICES ASSUME IInv, Next, job_complete \in Elements(Events)
                 PROVE  UNCHANGED <<Events, Status>>
    OBVIOUS
  <2>2. runner.pc \in {"send", "end"}
    BY <2>1 DEF IInv, LogInv
  <2>3. \A v \in VM : ~Emit(v)
    BY <2>1, <2>2, LogFacts DEF Emit
  <2>4. ~WriteStatusWord /\ ~LogComplete
    BY <2>2 DEF WriteStatusWord, LogComplete
  <2>5. ASSUME NEW v \in VM, Pipeline(v) PROVE UNCHANGED <<Events, Status>>
    BY <2>3, <2>5 DEF Pipeline, EmitReturn, EmitSend
  <2>6. CASE runJob
    BY <2>4, <2>6 DEF runJob, WaitAndLock, CloseDone, CompleteSend
  <2>7. ASSUME NEW c \in Client, handleJobEvents(c) \/ Disconnect(c)
        PROVE  UNCHANGED <<Events, Status>>
    BY <2>7 DEF handleJobEvents, Write, Open, Replay, Subscribe, Receive, ContextDone,
                Leave, Disconnect
  <2>8. ASSUME NEW l \in Lister, ReadStatusWord(l) PROVE UNCHANGED <<Events, Status>>
    BY <2>8 DEF ReadStatusWord
  <2> QED
    BY <2>1, <2>5, <2>6, <2>7, <2>8 DEF Next
<1> QED
  BY <1>1, Invariance, PTL DEF Spec, CompletedJobIsFinal
-----------------------------------------------------------------------------
(* The job is one log to its clients                                       *)

\* Ordered events are distinct: there are as many as the sequence is long.
LEMMA OrderedIsCounted ==
  ASSUME NEW s \in Seq(Event), Ordered(s)
  PROVE  /\ \A i, j \in 1 .. Len(s) : s[i] = s[j] => i = j
         /\ IsFiniteSet(Elements(s)) /\ Cardinality(Elements(s)) = Len(s)
<1>1. /\ DOMAIN s = 1 .. Len(s) /\ Len(s) \in Nat
      /\ \A i \in 1 .. Len(s) : s[i] \in Elements(s) /\ s[i].n \in Nat
      /\ \A x \in Elements(s) : \E i \in 1 .. Len(s) : s[i] = x
  BY ElementsIs, EventIs
<1>2. ASSUME NEW i \in 1 .. Len(s), NEW j \in 1 .. Len(s), s[i] = s[j] PROVE ~(i < j)
  <2>1. s[i].vm = s[j].vm /\ s[i].n \in Nat /\ ~(s[i].n < s[j].n)
    BY <1>1, <1>2
  <2>2. i \in DOMAIN s /\ j \in DOMAIN s
    BY <1>1
  <2> QED
    BY <2>1, <2>2 DEF Ordered
<1>3. ASSUME NEW i \in 1 .. Len(s), NEW j \in 1 .. Len(s), s[i] = s[j] PROVE i = j
  <2>1. ~(i < j) /\ ~(j < i)
    BY <1>2, <1>3
  <2> QED
    BY <2>1, <1>1
<1> DEFINE f == [i \in 1 .. Len(s) |-> s[i]]
<1>4. f \in Bijection(1 .. Len(s), Elements(s))
  <2>1. f \in [1 .. Len(s) -> Elements(s)]
    BY <1>1
  <2>2. \A i, j \in 1 .. Len(s) : f[i] = f[j] => i = j
    BY <1>3
  <2>3. \A x \in Elements(s) : \E i \in 1 .. Len(s) : f[i] = x
    BY <1>1
  <2> HIDE DEF f
  <2> QED
    BY <2>1, <2>2, <2>3, Fun_IsBij
<1>5. IsFiniteSet(Elements(s)) /\ Cardinality(Elements(s)) = Len(s)
  <2>1. ExistsBijection(1 .. Len(s), Elements(s))
    BY <1>4 DEF ExistsBijection
  <2>2. IsFiniteSet(1 .. Len(s))
    BY <1>1, FS_Interval
  <2>3. IsFiniteSet(Elements(s))
    BY <2>1, <2>2, FS_Bijection
  <2>4. Cardinality(Elements(s)) = Len(s)
    BY <1>1, <2>1, FS_CountingElements
  <2> QED
    BY <2>3, <2>4
<1> QED
  BY <1>3, <1>5

\* The part of an ordered sequence that is still in the channel.
LEMMA RestIsOrdered ==
  ASSUME NEW s \in Seq(Event), NEW t \in Seq(Event), Ordered(s \o t)
  PROVE  Ordered(t) /\ Elements(s) \cap Elements(t) = {}
<1> DEFINE u == s \o t
<1>1. Len(s) \in Nat /\ Len(t) \in Nat
  BY LenProperties
<1>2. /\ u \in Seq(Event) /\ Len(u) = Len(s) + Len(t)
      /\ \A i \in 1 .. Len(s) + Len(t) : u[i] = IF i <= Len(s) THEN s[i] ELSE t[i - Len(s)]
  BY ConcatProperties
<1>3. Ordered(u)
  OBVIOUS
<1> HIDE DEF u
<1>4. ASSUME NEW i \in 1 .. Len(t)
      PROVE  Len(s) + i \in 1 .. Len(u) /\ u[Len(s) + i] = t[i]
  <2>1. /\ Len(s) + i \in 1 .. Len(s) + Len(t) /\ ~(Len(s) + i <= Len(s))
        /\ (Len(s) + i) - Len(s) = i
    BY <1>1
  <2> QED
    BY <1>2, <2>1
<1>5. ASSUME NEW i \in 1 .. Len(s) PROVE i \in 1 .. Len(u) /\ u[i] = s[i]
  BY <1>1, <1>2
<1>6. DOMAIN u = 1 .. Len(u) /\ DOMAIN t = 1 .. Len(t)
  BY <1>2, ElementsIs
<1>7. Ordered(t)
  <2>1. SUFFICES ASSUME NEW i \in 1 .. Len(t), NEW j \in 1 .. Len(t), i < j
                 PROVE  t[i] # job_complete /\ (t[i].vm = t[j].vm => t[i].n < t[j].n)
    BY <1>6 DEF Ordered
  <2>2. Len(s) + i < Len(s) + j
    BY <1>1, <2>1
  <2>3. u[Len(s) + i] = t[i] /\ u[Len(s) + j] = t[j]
        /\ Len(s) + i \in DOMAIN u /\ Len(s) + j \in DOMAIN u
    BY <1>4, <1>6
  <2> QED
    BY <1>3, <2>2, <2>3 DEF Ordered
<1>8. ASSUME NEW i \in 1 .. Len(s), NEW j \in 1 .. Len(t) PROVE s[i] # t[j]
  <2>1. SUFFICES ASSUME s[i] = t[j] PROVE FALSE
    OBVIOUS
  <2>2. i \in 1 .. Len(u) /\ Len(s) + j \in 1 .. Len(u) /\ u[i] = u[Len(s) + j]
    BY <1>4, <1>5, <2>1
  <2>3. i = Len(s) + j
    BY <1>2, <1>3, <2>2, OrderedIsCounted
  <2> QED
    BY <1>1, <2>3
<1>9. Elements(s) \cap Elements(t) = {}
  BY <1>8, ElementsIs
<1> QED
  BY <1>7, <1>9

\* The first event of an ordered sequence, from position i on.
LEMMA FirstOfOrdered ==
  ASSUME NEW s \in Seq(Event), Ordered(s), NEW i \in 1 .. Len(s), NEW j \in i .. Len(s)
  PROVE  /\ s[j].vm = s[i].vm => s[i].n <= s[j].n
         /\ s[i] = job_complete => j = i
<1>1. DOMAIN s = 1 .. Len(s) /\ Len(s) \in Nat /\ s[i].n \in Nat /\ s[j].n \in Nat
  BY ElementsIs, EventIs
<1>2. CASE i = j
  BY <1>1, <1>2
<1>3. CASE i < j
  BY <1>1, <1>3 DEF Ordered
<1> QED
  BY <1>1, <1>2, <1>3

\* The clients whose request has returned.
Ended == {c \in Client : handler[c].pc = "returned"}

\* The log's actions, in the words of the job.
LEMMA LogStepsAre ==
  /\ \A e \in ProvisionEvent :
        /\ Verdict = "running"
        /\ \A d \in Elements(Events) : d.vm = e.vm => d.n < e.n /\ d.step = "progress"
        /\ Events' = Append(Events, e)
        /\ Verdict' = Verdict /\ UNCHANGED <<out, dropped, gone>> /\ Ended' = Ended
        => Log!Next
  /\ \A c \in Client : \A e \in Elements(Events) \ (Elements(out[c]) \cup dropped[c]) :
        /\ c \notin Ended
        /\ \A d \in Elements(Events) \ (Elements(out[c]) \cup dropped[c]) :
              /\ d.vm = e.vm => e.n <= d.n
              /\ e = job_complete => d = e
        /\ out' = [out EXCEPT ![c] = Append(@, e)]
        /\ Verdict' = Verdict /\ UNCHANGED <<Events, dropped, gone>> /\ Ended' = Ended
        => Log!Next
  /\ \A c \in Client : \A e \in Elements(Events) \ (Elements(out[c]) \cup dropped[c]) :
        /\ Cardinality(Elements(Events) \ (Elements(out[c]) \cup dropped[c])) > Cap
        /\ dropped' = [dropped EXCEPT ![c] = @ \cup {e}]
        /\ Verdict' = Verdict /\ UNCHANGED <<Events, out, gone>> /\ Ended' = Ended
        => Log!Next
  /\ Verdict' = Verdict /\ UNCHANGED <<Events, out, dropped, gone>> /\ Ended' = Ended
        => UNCHANGED Log!vars
<1>1. /\ Log!Logged = Elements(Events)
      /\ \A c : Log!Outstanding(c) = Elements(Events) \ (Elements(out[c]) \cup dropped[c])
  BY DEF Log!Logged, Log!Outstanding, Log!Got, Elements
<1>2. \A S : Log!Cardinality(S) = Cardinality(S)
  BY DEF Log!Cardinality, Cardinality
<1>3. ASSUME NEW e \in ProvisionEvent,
             Verdict = "running",
             \A d \in Elements(Events) : d.vm = e.vm => d.n < e.n /\ d.step = "progress",
             Events' = Append(Events, e), Verdict' = Verdict,
             UNCHANGED <<out, dropped, gone>>, Ended' = Ended
      PROVE  Log!Next
  <2>1. Log!Log(e)
    BY <1>1, <1>3 DEF Log!Log, Ended
  <2> QED
    BY <2>1 DEF Log!Next
<1>4. ASSUME NEW c \in Client,
             NEW e \in Elements(Events) \ (Elements(out[c]) \cup dropped[c]),
             c \notin Ended,
             \A d \in Elements(Events) \ (Elements(out[c]) \cup dropped[c]) :
                 (d.vm = e.vm => e.n <= d.n) /\ (e = job_complete => d = e),
             out' = [out EXCEPT ![c] = Append(@, e)], Verdict' = Verdict,
             UNCHANGED <<Events, dropped, gone>>, Ended' = Ended
      PROVE  Log!Next
  <2>1. e = job_complete => Log!Outstanding(c) = {e}
    BY <1>1, <1>4
  <2>2. Log!Deliver(c, e)
    BY <1>1, <1>4, <2>1 DEF Log!Deliver, Ended
  <2> QED
    BY <1>1, <2>2 DEF Log!Next
<1>5. ASSUME NEW c \in Client,
             NEW e \in Elements(Events) \ (Elements(out[c]) \cup dropped[c]),
             Cardinality(Elements(Events) \ (Elements(out[c]) \cup dropped[c])) > Cap,
             dropped' = [dropped EXCEPT ![c] = @ \cup {e}], Verdict' = Verdict,
             UNCHANGED <<Events, out, gone>>, Ended' = Ended
      PROVE  Log!Next
  <2>1. Log!Refuse(c, e)
    BY <1>1, <1>5, <1>2 DEF Log!Refuse, Ended
  <2> QED
    BY <1>1, <2>1 DEF Log!Next
<1>6. Verdict' = Verdict /\ UNCHANGED <<Events, out, dropped, gone>> /\ Ended' = Ended
        => UNCHANGED Log!vars
  BY DEF Log!vars, Ended
<1> QED
  BY <1>3, <1>4, <1>5, <1>6

\* The verdict is not given before the runner has logged job_complete, and stays.
LEMMA VerdictRests ==
  ASSUME IInv, UNCHANGED Events, \/ UNCHANGED Status
                                 \/ runner.pc = "status"
  PROVE  Verdict' = Verdict
BY LogFacts DEF Verdict

LEMMA EndedRests ==
  ASSUME \A c \in Client : handler'[c].pc = "returned" <=> handler[c].pc = "returned"
  PROVE  Ended' = Ended
BY DEF Ended

\* A pipeline's event is its VM's next one.
LEMMA EmitLogs ==
  ASSUME IInv, NEW v \in VM, Emit(v) PROVE Log!Next
<1>1. Job /\ Emitters /\ LogInv /\ PipeInv(v)
  BY TypeOKParts DEF IInv
<1>2. PICK step \in NextSteps(pipe[v].n) :
        Events' = Append(Events, [vm |-> v, n |-> pipe[v].n + 1, step |-> step])
  BY DEF Emit
<1>3. /\ pipe[v].pc = "run" /\ pipe[v].step = "progress" /\ pipe[v].n \in 0 .. Steps
      /\ UNCHANGED <<Status, runner, gone, handler, out, dropped>>
  <2>1. pipe[v].pc = "run" /\ UNCHANGED <<Status, runner, gone, handler, out, dropped>>
    BY DEF Emit, clients
  <2>2. pipe[v].n \in 0 .. Steps + 1
    BY <1>1, EventOfIs DEF PipeState
  <2> QED
    BY <1>1, <2>1, <2>2, StepsAssumption DEF PipeInv
<1> DEFINE e == [vm |-> v, n |-> pipe[v].n + 1, step |-> step]
<1>4. e \in ProvisionEvent /\ e.vm = v /\ e.n = pipe[v].n + 1
  BY <1>3, NextStepIs, StepsAssumption DEF ProvisionEvent
<1> HIDE DEF e
<1>5. job_complete \notin Elements(Events)
  BY <1>3, LogFacts
<1>6. ASSUME NEW d \in Elements(Events), d.vm = e.vm PROVE d.n < e.n /\ d.step = "progress"
  <2>1. d # job_complete /\ d.n \in Nat /\ d \in Event
    BY <1>5, LogFacts, EventIs
  <2>2. d.n <= pipe[v].n /\ (d.n = pipe[v].n => d = EventOf(v))
        /\ (d.step # "progress" => d.n = pipe[v].n)
    BY <1>1, <1>4, <1>6, <2>1 DEF LogInv
  <2>3. EventOf(v).step = "progress"
    BY <1>1, <1>3, EventOfIs
  <2> QED
    BY <1>3, <1>4, <2>1, <2>2, <2>3
<1>7. Events' = Append(Events, e)
  BY <1>2 DEF e
<1>8. Verdict = "running" /\ Verdict' = Verdict
  <2>1. Elements(Events') = Elements(Events) \cup {e}
    BY <1>1, <1>4, <1>7, AppendIs DEF Job, Event
  <2>2. e # job_complete
    BY <1>4, EventIs
  <2> QED
    BY <1>5, <2>1, <2>2 DEF Verdict, Elements
<1>9. Ended' = Ended
  BY <1>3, EndedRests
<1> QED
  BY <1>3, <1>4, <1>6, <1>7, <1>8, <1>9, LogStepsAre

\* The runner closes the log when every VM has had its last event, with the verdict
\* those events give.
LEMMA LogCompleteCloses == ASSUME IInv, LogComplete PROVE Log!Next
<1>1. Job /\ Emitters /\ LogInv /\ RunnerInv /\ Elements(Events) \subseteq Event
  BY TypeOKParts, LogFacts DEF IInv
<1>2. /\ runner.pc = "status" /\ Status.ptr # "running"
      /\ Events' = Append(Events, job_complete)
      /\ UNCHANGED <<Status, gone, handler, out, dropped>>
  BY DEF LogComplete, clients
<1>3. job_complete \notin Elements(Events)
  BY <1>2, LogFacts
<1>4. ASSUME NEW v \in VM
      PROVE  EventOf(v) \in Elements(Events) /\ EventOf(v).vm = v
             /\ EventOf(v).step = pipe[v].step /\ pipe[v].step # "progress"
  <2>1. pipe[v].n > 0 /\ pipe[v].step # "progress"
    BY <1>2, LogFacts DEF IInv, PipeInv
  <2> QED
    BY <1>1, <2>1, EventOfIs DEF LogInv
<1>5. ASSUME NEW e \in Elements(Events), e.step = "failed"
      PROVE  \E v \in VM : pipe[v].step = "failed"
  <2>1. e # job_complete /\ e.vm \in VM
    BY <1>1, <1>3, EventIs
  <2>2. e = EventOf(e.vm)
    BY <1>1, <1>5, <2>1 DEF LogInv
  <2> QED
    BY <1>4, <1>5, <2>1, <2>2
<1>6. Summary = IF \E e \in Elements(Events) : e.step = "failed" THEN "failed" ELSE "completed"
  BY <1>4, <1>5 DEF Summary
<1>7. Status.ptr = Summary
  BY <1>1, <1>2 DEF RunnerInv
<1>8. Verdict = "running" /\ Verdict' = Summary
  <2>1. Elements(Events') = Elements(Events) \cup {job_complete}
    BY <1>1, <1>2, AppendIs, EventIs DEF Job
  <2>2. job_complete \in Elements(Events)'
    BY <2>1 DEF Elements
  <2> QED
    BY <1>2, <1>3, <1>7, <2>2 DEF Verdict
<1>9. Ended' = Ended
  BY <1>2, EndedRests
<1>10. Log!Close
  <2>1. Log!Logged = Elements(Events)
    BY DEF Log!Logged, Elements
  <2> QED
    BY <1>2, <1>4, <1>6, <1>8, <1>9, <2>1 DEF Log!Close, Ended
<1> QED
  BY <1>10 DEF Log!Next

\* A channel refuses an event only when more than Cap are outstanding: those it
\* holds and this one.
LEMMA OfferRefuses ==
  ASSUME IInv, NEW c \in Client, NEW e \in InFlight(c), Offer(c, e),
         UNCHANGED <<Events, Status, handler, gone, out>>
  PROVE  [Log!Next]_(Log!vars)
<1>1. /\ Channels /\ PlacesInv(c) /\ Ordered(Stream(c)) /\ Stream(c) \in Seq(Event)
      /\ out[c] \in Seq(Event) /\ chan[c] \in Seq(Event)
  BY TypeOKParts, LogFacts DEF IInv, ClientInv, Channels
<1>2. Verdict' = Verdict /\ Ended' = Ended
  BY VerdictRests, EndedRests
<1>3. CASE Len(chan[c]) < Cap
  BY <1>2, <1>3, LogStepsAre DEF Offer
<1>4. CASE ~(Len(chan[c]) < Cap)
  <2> DEFINE rest == Elements(Events) \ (Elements(out[c]) \cup dropped[c])
             some == Elements(chan[c]) \cup {e}
  <2>1. Elements(Stream(c)) = Elements(out[c]) \cup Elements(chan[c])
    BY <1>1, StreamIs DEF Stream
  <2>2. Ordered(chan[c]) /\ Elements(out[c]) \cap Elements(chan[c]) = {}
    <3>1. Ordered(out[c] \o chan[c])
      BY <1>1 DEF Stream
    <3> QED
      BY <1>1, <3>1, RestIsOrdered
  <2>3. some \subseteq rest /\ e \notin Elements(chan[c])
    BY <1>1, <2>1, <2>2 DEF PlacesInv
  <2>4. IsFiniteSet(Elements(chan[c])) /\ Cardinality(Elements(chan[c])) = Len(chan[c])
    BY <1>1, <2>2, OrderedIsCounted
  <2>5. Cardinality(some) = Len(chan[c]) + 1
    BY <2>3, <2>4, FS_AddElement
  <2>6. IsFiniteSet(rest)
    <3>1. IsFiniteSet(Elements(Events))
      BY TypeOKParts, OrderedIsCounted DEF IInv, LogInv, Job
    <3> QED
      BY <3>1, FS_Subset
  <2>7. Cardinality(some) <= Cardinality(rest) /\ Cardinality(rest) \in Nat
    BY <2>3, <2>6, FS_Subset, FS_CardinalityType
  <2>8. Cardinality(rest) > Cap
    <3>1. Len(chan[c]) \in Nat /\ Cap \in Nat
      BY <1>1, ElementsIs, CapAssumption
    <3> HIDE DEF rest, some
    <3> QED
      BY <1>4, <2>5, <2>7, <3>1
  <2>9. dropped' = [dropped EXCEPT ![c] = @ \cup {e}]
    BY <1>4 DEF Offer
  <2>10. e \in rest
    BY <2>3
  <2> QED
    BY <1>2, <2>8, <2>9, <2>10, LogStepsAre
<1> QED
  BY <1>3, <1>4

\* The replay writes the log's events in its order.
LEMMA ReplayDelivers ==
  ASSUME IInv, NEW c \in Client, Replay(c) PROVE Log!Next
<1>1. /\ Job /\ Channels /\ Handlers /\ HandlerInv(c) /\ Ordered(Events)
      /\ Elements(Events) \subseteq Event
  BY TypeOKParts, LogFacts DEF IInv, LogInv, ClientInv
<1> DEFINE i == handler[c].i
           e == Events[i]
<1>2. /\ handler[c].pc = "replay" /\ i <= Len(Events)
      /\ out' = [out EXCEPT ![c] = Append(@, e)]
      /\ handler' = [handler EXCEPT ![c].i = @ + 1]
      /\ UNCHANGED <<Events, Status, gone, dropped>>
  BY DEF Replay
<1>3. /\ dropped[c] = {} /\ i = Len(out[c]) + 1
      /\ \A k \in 1 .. Len(out[c]) : out[c][k] = Events[k]
  BY <1>1, <1>2 DEF HandlerInv
<1>4. /\ out[c] \in Seq(Event) /\ Events \in Seq(Event)
      /\ Len(out[c]) \in Nat /\ Len(Events) \in Nat
  BY <1>1, ElementsIs DEF Channels, Job
<1> HIDE DEF i, e
<1>5. i \in 1 .. Len(Events) /\ e \in Elements(Events) /\ e = Events[i]
  <2>1. i \in 1 .. Len(Events)
    BY <1>2, <1>3, <1>4
  <2>2. Events[i] \in Elements(Events)
    BY <1>4, <2>1, ElementsIs
  <2> QED
    BY <2>1, <2>2 DEF e
<1>6. ASSUME NEW k \in 1 .. Len(Events)
      PROVE  Events[k] \notin Elements(out[c]) <=> k \in i .. Len(Events)
  <2>1. Events[k] \in Elements(out[c]) <=> \E j \in 1 .. Len(out[c]) : Events[k] = Events[j]
    <3>1. Events[k] \in Elements(out[c]) <=> \E j \in 1 .. Len(out[c]) : Events[k] = out[c][j]
      BY <1>4, ElementsIs
    <3> QED
      BY <1>3, <3>1
  <2>2. \A j \in 1 .. Len(out[c]) : j \in 1 .. Len(Events)
    BY <1>3, <1>4, <1>5
  <2>3. \A j \in 1 .. Len(out[c]) : Events[k] = Events[j] => k = j
    BY <1>1, <1>4, <2>2, OrderedIsCounted
  <2> QED
    BY <1>3, <1>4, <2>1, <2>3
<1>7. e \notin Elements(out[c]) \cup dropped[c]
  BY <1>3, <1>4, <1>5, <1>6
<1>8. ASSUME NEW d \in Elements(Events) \ (Elements(out[c]) \cup dropped[c])
      PROVE  (d.vm = e.vm => e.n <= d.n) /\ (e = job_complete => d = e)
  <2>1. PICK k \in 1 .. Len(Events) : d = Events[k]
    BY <1>4, ElementsIs
  <2>2. k \in i .. Len(Events)
    BY <1>6, <2>1
  <2> QED
    BY <1>1, <1>4, <1>5, <2>1, <2>2, FirstOfOrdered
<1>9. Ended' = Ended /\ c \notin Ended
  <2>1. \A d \in Client : handler'[d].pc = handler[d].pc
    BY <1>1, <1>2 DEF Handlers, HandlerState
  <2> QED
    BY <1>2, <2>1, EndedRests DEF Ended
<1>10. Verdict' = Verdict
  BY <1>2, VerdictRests
<1> QED
  BY <1>2, <1>5, <1>7, <1>8, <1>9, <1>10, LogStepsAre

\* What is first in a channel is the first outstanding event of its VM: what is
\* behind it, or still in flight, comes later.
LEMMA ReceiveDelivers ==
  ASSUME IInv, NEW c \in Client, Receive(c) PROVE Log!Next
<1>1. /\ Channels /\ Handlers /\ PlacesInv(c) /\ Ordered(Stream(c))
      /\ Elements(Events) \subseteq Event
      /\ out[c] \in Seq(Event) /\ chan[c] \in Seq(Event)
  BY TypeOKParts, LogFacts DEF IInv, ClientInv, Channels
<1> DEFINE e == Head(chan[c])
<1>2. /\ handler[c].pc = "stream" /\ chan[c] # <<>>
      /\ out' = [out EXCEPT ![c] = Append(@, e)]
      /\ handler' = [handler EXCEPT ![c].pc = IF e = job_complete THEN "leave" ELSE "stream"]
      /\ UNCHANGED <<Events, Status, gone, dropped>>
  BY DEF Receive
<1>3. e = chan[c][1] /\ 1 \in 1 .. Len(chan[c]) /\ Len(chan[c]) \in Nat
  BY <1>1, <1>2, HeadTailProperties, LenProperties, EmptySeq
<1> HIDE DEF e
<1>4. /\ Elements(Stream(c)) = Elements(out[c]) \cup Elements(chan[c])
      /\ Ordered(chan[c]) /\ Elements(out[c]) \cap Elements(chan[c]) = {}
  <2>1. Ordered(out[c] \o chan[c])
    BY <1>1 DEF Stream
  <2> QED
    BY <1>1, <2>1, StreamIs, RestIsOrdered DEF Stream
<1>5. e \in Elements(chan[c])
  BY <1>1, <1>3, ElementsIs
<1>6. e \in Elements(Events) \ (Elements(out[c]) \cup dropped[c])
  BY <1>1, <1>4, <1>5 DEF PlacesInv
<1>7. ASSUME NEW d \in Elements(Events) \ (Elements(out[c]) \cup dropped[c])
      PROVE  (d.vm = e.vm => e.n <= d.n) /\ (e = job_complete => d = e)
  <2>1. d \in Elements(chan[c]) \/ d \in InFlight(c)
    BY <1>1, <1>2, <1>4 DEF PlacesInv
  <2>2. CASE d \in Elements(chan[c])
    <3>1. PICK k \in 1 .. Len(chan[c]) : d = chan[c][k]
      BY <1>1, <2>2, ElementsIs
    <3>2. \A j \in 1 .. Len(chan[c]) :
             (chan[c][j].vm = e.vm => e.n <= chan[c][j].n)
             /\ (e = job_complete => j = 1)
      BY <1>1, <1>3, <1>4, FirstOfOrdered
    <3> QED
      BY <1>3, <3>1, <3>2
  <2>3. CASE d \in InFlight(c)
    <3>1. e # job_complete /\ (e.vm = d.vm => e.n < d.n)
      BY <1>4, <1>5, <2>3, InFlightIsNext
    <3>2. e.n \in Nat /\ d.n \in Nat
      BY <1>1, <1>6, EventIs
    <3> QED
      BY <3>1, <3>2
  <2> QED
    BY <2>1, <2>2, <2>3
<1>8. Ended' = Ended /\ c \notin Ended
  <2>1. \A d \in Client : handler'[d].pc = "returned" <=> handler[d].pc = "returned"
    BY <1>1, <1>2 DEF Handlers, HandlerState
  <2> QED
    BY <1>2, <2>1, EndedRests DEF Ended
<1>9. Verdict' = Verdict
  BY <1>2, VerdictRests
<1> QED
  BY <1>2, <1>6, <1>7, <1>8, <1>9, LogStepsAre

\* A request returns to a client that has gone or has seen job_complete.
LEMMA ReturnEnds ==
  ASSUME IInv, NEW c \in Client, IInv',
         handler' = [handler EXCEPT ![c].pc = "returned"],
         UNCHANGED <<Events, Status, gone, out, dropped>>
  PROVE  Log!Next
<1>1. Handlers
  BY TypeOKParts DEF IInv
<1>2. /\ handler'[c].pc = "returned"
      /\ \A d \in Client \ {c} : handler'[d] = handler[d]
  BY <1>1 DEF Handlers, HandlerState
<1>3. c \in gone \/ job_complete \in Elements(out[c])
  <2>1. HandlerInv(c)'
    BY DEF IInv, ClientInv
  <2> QED
    BY <1>2, <2>1 DEF HandlerInv
<1>4. Ended' = Ended \cup {c}
  BY <1>2 DEF Ended
<1>5. Log!Got(c) = Elements(out[c])
  BY DEF Log!Got, Elements
<1>6. Log!End(c)
  BY <1>3, <1>4, <1>5, VerdictRests DEF Log!End, Ended
<1> QED
  BY <1>6 DEF Log!Next

\* Every other step of a client's request is none of the log's.
LEMMA RequestStep ==
  ASSUME IInv, IInv', NEW c \in Client, handleJobEvents(c)
  PROVE  [Log!Next]_(Log!vars)
<1>1. Handlers
  BY TypeOKParts DEF IInv
<1>2. ASSUME UNCHANGED <<Events, Status, gone, out, dropped>>,
             NEW pc \in {"replay", "stream", "leave"},
             handler[c].pc # "returned", handler' = [handler EXCEPT ![c].pc = pc]
      PROVE  UNCHANGED Log!vars
  <2>1. \A d \in Client : handler'[d].pc = "returned" <=> handler[d].pc = "returned"
    BY <1>1, <1>2 DEF Handlers, HandlerState
  <2>2. Ended' = Ended /\ Verdict' = Verdict
    BY <1>2, <2>1, EndedRests, VerdictRests
  <2> QED
    BY <1>2, <2>2, LogStepsAre
<1>3. CASE Open(c)
  BY <1>2, <1>3 DEF Open
<1>4. CASE Subscribe(c)
  <2>1. handler[c].pc # "returned" /\ UNCHANGED <<Events, Status, gone, out, dropped>>
    BY <1>4 DEF Subscribe
  <2>2. CASE done
    BY <1>4, <2>1, <2>2, ReturnEnds DEF Subscribe
  <2>3. CASE ~done
    BY <1>2, <1>4, <2>1, <2>3 DEF Subscribe
  <2> QED
    BY <2>2, <2>3
<1>5. CASE ContextDone(c)
  BY <1>2, <1>5 DEF ContextDone
<1>6. CASE Leave(c)
  BY <1>6, ReturnEnds DEF Leave
<1> QED
  BY <1>3, <1>4, <1>5, <1>6, ReplayDelivers, ReceiveDelivers DEF handleJobEvents, Write

LEMMA DisconnectLeaves ==
  ASSUME IInv, NEW c \in Client, Disconnect(c) PROVE Log!Next
<1>1. /\ gone' = gone \cup {c}
      /\ UNCHANGED <<Events, Status, handler, out, dropped>>
  BY DEF Disconnect
<1>2. Verdict' = Verdict /\ Ended' = Ended
  BY <1>1, VerdictRests DEF Ended
<1>3. Log!Leave(c)
  BY <1>1, <1>2 DEF Log!Leave, Ended
<1> QED
  BY <1>3 DEF Log!Next

\* A step that concerns none of log, streams and requests.
LEMMA OthersStutter ==
  ASSUME IInv, UNCHANGED <<Events, handler, gone, out, dropped>>,
         \/ UNCHANGED Status
         \/ runner.pc = "status"
  PROVE  UNCHANGED Log!vars
<1>1. Ended' = Ended /\ Verdict' = Verdict
  BY VerdictRests DEF Ended
<1> QED
  BY <1>1, LogStepsAre

LEMMA PipelineStep ==
  ASSUME IInv, NEW v \in VM, Pipeline(v) PROVE [Log!Next]_(Log!vars)
<1>1. CASE EmitReturn(v)
  BY <1>1, OthersStutter DEF EmitReturn, clients
<1>2. ASSUME NEW c \in Client, EmitSend(v, c) PROVE [Log!Next]_(Log!vars)
  <2>1. pipe[v].pc = "send" /\ c \in pipe[v].to /\ Offer(c, EventOf(v))
        /\ UNCHANGED <<Events, Status, handler, gone, out>>
    BY <1>2 DEF EmitSend
  <2>2. EventOf(v) \in InFlight(c)
    BY <2>1, InFlightIs
  <2> QED
    BY <2>1, <2>2, OfferRefuses
<1> QED
  BY <1>1, <1>2, EmitLogs DEF Pipeline

LEMMA runJobStep == ASSUME IInv, runJob PROVE [Log!Next]_(Log!vars)
<1>1. CASE WaitAndLock \/ CloseDone
  BY <1>1, OthersStutter DEF WaitAndLock, CloseDone, clients
<1>2. CASE WriteStatusWord
  BY <1>2, OthersStutter DEF WriteStatusWord, clients
<1>3. ASSUME NEW c \in Client, CompleteSend(c) PROVE [Log!Next]_(Log!vars)
  <2>1. runner.pc = "send" /\ c \in runner.to /\ Offer(c, job_complete)
        /\ UNCHANGED <<Events, Status, handler, gone, out>>
    BY <1>3 DEF CompleteSend
  <2>2. job_complete \in InFlight(c)
    BY <2>1, InFlightIs
  <2> QED
    BY <2>1, <2>2, OfferRefuses
<1> QED
  BY <1>1, <1>2, <1>3, LogCompleteCloses DEF runJob

\* To those who follow it the job is one log (JobLog), for any number of VMs,
\* events and clients: replay under the lock, registration, copies of the
\* listeners, sends outside the lock and full channels are steps of it or
\* nothing at all.
THEOREM Refinement == Spec => ImplementsJobLog
<1>1. Init => Log!Init
  <2>1. SUFFICES ASSUME Init PROVE Log!Init
    OBVIOUS
  <2>2. Events = <<>> /\ gone = {} /\ out = [c \in Client |-> <<>>]
        /\ dropped = [c \in Client |-> {}]
        /\ \A c \in Client : handler[c].pc = "start"
    BY <2>1 DEF Init
  <2>3. Verdict = "running" /\ Ended = {}
    BY <2>2 DEF Verdict, Ended, Elements
  <2> QED
    BY <2>2, <2>3 DEF Log!Init, Ended
<1>2. IInv /\ IInv' /\ [Next]_vars => [Log!Next]_(Log!vars)
  <2>1. SUFFICES ASSUME IInv, IInv', [Next]_vars PROVE [Log!Next]_(Log!vars)
    OBVIOUS
  <2>2. CASE UNCHANGED vars
    BY <2>1, <2>2, OthersStutter DEF vars, clients
  <2>3. ASSUME NEW l \in Lister, ReadStatusWord(l) PROVE [Log!Next]_(Log!vars)
    BY <2>1, <2>3, OthersStutter DEF ReadStatusWord, clients
  <2> QED
    BY <2>1, <2>2, <2>3, PipelineStep, runJobStep, RequestStep, DisconnectLeaves DEF Next
<1> QED
  BY <1>1, <1>2, Invariance, PTL DEF Spec, Log!Spec, ImplementsJobLog

=============================================================================
