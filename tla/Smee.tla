-------------------------------- MODULE Smee --------------------------------
(***************************************************************************)
(* internal/smee: Client.Run, which keeps a stream of server-sent events   *)
(* open and reconnects with back-off, and the reader of the stream, which  *)
(* hands each message to webhook.Handler.Dispatch and waits for its Spawn. *)
(*                                                                         *)
(* The stream is a sequence of lines [field, value]; a value is one of the *)
(* fragments whose sequences Content maps to the message they are the JSON *)
(* of.  A fragment sequence outside Content is no JSON or has no body.     *)
(* The server sends whole frames; due is what the unread ones ask for.     *)
(***************************************************************************)
EXTENDS Webhook, FiniteSets

CONSTANTS
  File, Env,    \* the configuration file and the environment: see Config
  Frames,       \* what the server may send: records [lines, asks]
  Content,      \* the message a sequence of data fragments stands for
  MaxBackoff,   \* 30 seconds
  NoCall,       \* no call of Spawn
  MaxUnread     \* bound on the frames sent and not read

Blank == [field |-> "blank", value |-> ""]
cfg   == Loaded(File, Env)

\* The argument of Spawn for an entry of the configuration.
Call(i) == <<cfg.repos[i].name, cfg.repos[i].cap>>

-----------------------------------------------------------------------------
(* What a frame asks for, read as a whole.                                 *)

\* A frame ends with its only empty line.
IsFrame(lines) ==
  /\ lines # <<>> /\ lines \in Seq({lines[i] : i \in DOMAIN lines})
  /\ \A i \in DOMAIN lines : lines[i] = Blank <=> i = Len(lines)

\* e is the event of the first k lines: the last one that is named counts.
IsEvent(e, lines, k) ==
  \/ e = "message" /\ \A i \in 1..k : lines[i].field # "event"
  \/ \E i \in 1..k : /\ lines[i].field = "event" /\ lines[i].value = e
                     /\ \A j \in (i + 1)..k : lines[j].field # "event"

\* The data lines among the first k, without the leading empty ones.
Payload(lines, k) ==
  {i \in 1..k : /\ lines[i].field = "data"
                /\ \E j \in 1..i : lines[j].field = "data" /\ lines[j].value # ""}

Rank(S, i) == Cardinality({j \in S : j <= i})

\* d is the data of the first k lines: their payload, in order.
IsData(d, lines, k) ==
  /\ Len(d) = Cardinality(Payload(lines, k))
  /\ \A i \in Payload(lines, k) : d[Rank(Payload(lines, k), i)] = lines[i].value

\* The call (one or none) that should follow from a frame.
Asks(lines) ==
  LET messages == {d \in DOMAIN Content : /\ d # <<>>
                                          /\ IsEvent("message", lines, Len(lines))
                                          /\ IsData(d, lines, Len(lines))} IN
  {Call(i) : i \in UNION {Dispatch(cfg, Content[d]) : d \in messages}}

ASSUME SmeeAssumption ==
  /\ ~Invalid(WithEnv(File, Env)) /\ DOMAIN cfg.repos \subseteq Nat \ {0}
  /\ MaxBackoff \in Nat \ {0} /\ MaxUnread \in Nat
  /\ \A f \in Frames : /\ IsFrame(f.lines)
                       /\ f.asks \in IF Asks(f.lines) = {} THEN {NoCall} ELSE Asks(f.lines)
  /\ \A d \in DOMAIN Content : d \in Seq({d[i] : i \in DOMAIN d})
  /\ \A i \in DOMAIN cfg.repos : Call(i) # NoCall

VARIABLES
  phase,        \* where Run is
  wire,         \* lines the client has not read
  due,          \* the calls their frames ask for (history)
  event, data,  \* parseStream's locals
  call,         \* Spawn's argument while the reader is in Dispatch
  backoff,      \* Run's backoff, in seconds
  wait,         \* what is left of time.After(backoff)
  age,          \* time since connectedAt, up to MaxBackoff
  recent,       \* ages of the attempts not older than MaxBackoff, newest first (history)
  cancelled     \* the context is cancelled

stream == <<wire, due, event, data, call>>
clock  == <<backoff, wait, age, recent>>
vars   == <<phase, stream, clock, cancelled>>

TypeOK ==
  /\ phase \in {"top", "dialing", "reading", "dispatching", "sleeping", "stopped"}
  /\ Len(due) <= MaxUnread
  /\ (call # NoCall) = (phase = "dispatching")
  /\ backoff \in 1..MaxBackoff
  /\ wait \in 0..backoff
  /\ age \in 0..MaxBackoff
  /\ cancelled \in BOOLEAN

Init ==
  /\ phase = "top"
  /\ wire = <<>> /\ due = <<>>
  /\ event = "message" /\ data = <<>>
  /\ call = NoCall
  /\ backoff = 1 /\ wait = 0 /\ age = 0 /\ recent = <<>>
  /\ cancelled = FALSE

-----------------------------------------------------------------------------
(* Run and connect.                                                        *)

Dial ==
  /\ phase = "top" /\ ~cancelled
  /\ phase' = "dialing"
  /\ age' = 0
  /\ recent' = <<0>> \o recent
  /\ UNCHANGED <<stream, backoff, wait, cancelled>>

\* (mutant) The state of the parser outlives the connection.
ConnectedMidFrame ==
  /\ phase = "dialing"
  /\ phase' = "reading"
  /\ UNCHANGED <<stream, clock, cancelled>>

\* Status 200: parseStream starts with an empty event.
Connected ==
  /\ phase = "dialing"
  /\ phase' = "reading"
  /\ event' = "message" /\ data' = <<>>
  /\ UNCHANGED <<wire, due, call, clock, cancelled>>

\* (mutant) Any connection that was made resets the back-off.
DelayAfterConnecting == IF phase = "reading" THEN 1 ELSE backoff

Delay == IF age >= MaxBackoff THEN 1 ELSE backoff

\* (mutant) A failed connection ends Run.
ConnectReturnsToMain ==
  /\ phase \in {"dialing", "reading"}
  /\ phase' = "stopped"
  /\ wire' = <<>> /\ due' = <<>>
  /\ UNCHANGED <<event, data, call, clock, cancelled>>

\* connect returns: no connection, another status, the end of the stream, a
\* read error or a line of more than 8 MB.  What was not read is lost.
ConnectReturns ==
  /\ phase \in {"dialing", "reading"}
  /\ phase' = "sleeping"
  /\ wire' = <<>> /\ due' = <<>>
  /\ backoff' = Delay /\ wait' = Delay
  /\ UNCHANGED <<event, data, call, age, recent, cancelled>>

\* (mutant) The delay is doubled without limit.
NotCapped(d) == d

Capped(d) == IF d < MaxBackoff THEN d ELSE MaxBackoff

Wake ==
  /\ phase = "sleeping" /\ wait = 0
  /\ phase' = "top"
  /\ backoff' = Capped(2 * backoff)
  /\ UNCHANGED <<stream, wait, age, recent, cancelled>>

\* One of the two selects of Run finds the context done.
Stop ==
  /\ phase \in {"top", "sleeping"} /\ cancelled
  /\ phase' = "stopped"
  /\ UNCHANGED <<stream, clock, cancelled>>

\* (mutant) The stream is read without the context.
AbortedDialOnly == cancelled /\ phase = "dialing" /\ ConnectReturns

\* The request has the context: a cancel ends the attempt and the stream.
Aborted == cancelled /\ ConnectReturns

-----------------------------------------------------------------------------
(* parseStream and handleMessage.                                          *)

Value == Head(wire).value

ReadEvent ==
  /\ Head(wire).field = "event"
  /\ event' = Value
  /\ UNCHANGED <<due, data, call, phase>>

ReadData ==
  /\ Head(wire).field = "data"
  /\ data' = IF data = <<>> /\ Value = "" THEN <<>> ELSE Append(data, Value)
  /\ UNCHANGED <<due, event, call, phase>>

\* A comment, an id, a retry.
ReadOther ==
  /\ Head(wire).field = "other"
  /\ UNCHANGED <<due, event, data, call, phase>>

\* The entries of the configuration whose runners the data asks for.
Asked ==
  IF event = "message" /\ data # <<>> /\ data \in DOMAIN Content
  THEN Dispatch(cfg, Content[data])
  ELSE {}

\* An empty line: flush() handles the message and forgets it.  The reader is
\* in Dispatch, and reads nothing, until Spawn returns.
Flush ==
  /\ Head(wire) = Blank
  /\ due' = Tail(due)
  /\ event' = "message" /\ data' = <<>>
  /\ IF Asked = {}
     THEN UNCHANGED <<call, phase>>
     ELSE /\ \E i \in Asked : call' = Call(i)
          /\ phase' = "dispatching"

ReadLine ==
  /\ phase = "reading" /\ wire # <<>>
  /\ wire' = Tail(wire)
  /\ ReadEvent \/ ReadData \/ ReadOther \/ Flush
  /\ UNCHANGED <<clock, cancelled>>

\* Spawn returns; handleMessage logs an error at most: nothing is retried.
DispatchReturns ==
  /\ phase = "dispatching"
  /\ phase' = "reading"
  /\ call' = NoCall
  /\ UNCHANGED <<wire, due, event, data, clock, cancelled>>

-----------------------------------------------------------------------------
(* The server, the clock and the process.                                  *)

\* After a cancel only what has been received is still read.
Send(f) ==
  /\ phase \in {"reading", "dispatching"} /\ ~cancelled
  /\ Len(due) < MaxUnread
  /\ wire' = wire \o f.lines
  /\ due' = Append(due, f.asks)
  /\ UNCHANGED <<phase, event, data, call, clock, cancelled>>

Tick ==
  /\ phase # "stopped"
  /\ age' = IF age < MaxBackoff THEN age + 1 ELSE age
  /\ wait' = IF wait > 0 THEN wait - 1 ELSE 0
  /\ recent' = [i \in {i \in DOMAIN recent : recent[i] < MaxBackoff} |-> recent[i] + 1]
  /\ UNCHANGED <<phase, stream, backoff, cancelled>>

\* SIGTERM
Cancel ==
  /\ ~cancelled
  /\ cancelled' = TRUE
  /\ UNCHANGED <<phase, stream, clock>>

Next ==
  \/ Dial \/ Connected \/ ConnectReturns \/ Wake \/ Stop
  \/ ReadLine \/ DispatchReturns
  \/ \E f \in Frames : Send(f)
  \/ Tick \/ Cancel

Spec == Init /\ [][Next]_vars

\* Time passes, Run and its reader go on, Spawn returns (all its commands have
\* deadlines), and the server takes a connection if it is tried for ever.
Fairness ==
  /\ WF_vars(Tick) /\ WF_vars(Dial) /\ WF_vars(Wake) /\ WF_vars(Stop)
  /\ WF_vars(ReadLine) /\ WF_vars(DispatchReturns) /\ WF_vars(Aborted)
  /\ SF_vars(Connected)

FairSpec == Spec /\ Fairness

-----------------------------------------------------------------------------
\* The delay after n failures in a row, if nothing limited it.
Delays[n \in 0..MaxBackoff] == IF n = 0 THEN 1 ELSE 2 * Delays[n - 1]

\* The back-off protects the server: whatever connections succeed, fail or are
\* cut and however long they last, no window of MaxBackoff seconds sees more
\* attempts than a run of failures from a delay of one second on (Run's
\* doubling and its reset, client.go:59-71).
NoHammering == Len(recent) <= Cardinality({n \in 0..MaxBackoff : Delays[n] - 1 <= MaxBackoff})

Feed == INSTANCE EventFeed WITH
          feed    <- due,
          serving <- call,
          Events  <- {f.asks : f \in Frames},
          Nothing <- NoCall

\* However the frames of a connection are cut into lines, whatever else the
\* server sends in between and wherever a connection breaks, each frame that
\* is read makes exactly the call of Spawn it asks for, in order, with the
\* configuration's entry of its repository (parseStream's flush, Dispatch,
\* and the defaults Load gives the entry).
ImplementsFeed == Feed!Spec

\* A lost connection is never the end: as long as Run is not told to stop and
\* the server answers, it is connected again, whatever ended the connection
\* and whatever Spawn returned (Run's loop, client.go:48).
Recovers == []<>(phase = "reading" \/ cancelled)

\* Run ends when its context is cancelled, whether it is dialing, reading,
\* spawning or waiting (client.go:44); main's shutdown starts only then.
Stops == cancelled ~> phase = "stopped"
=============================================================================
