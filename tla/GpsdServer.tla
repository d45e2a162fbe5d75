----------------------------- MODULE GpsdServer -----------------------------
(***************************************************************************)
(* geolocd's gpsd server: Serve accepts connections; each has a handler    *)
(* goroutine (handleConn) that answers commands and streams to watching    *)
(* clients, and a reader goroutine that hands it one command line at a     *)
(* time over an unbuffered channel.  The handlers share only the published *)
(* position `cur', which the poll loop replaces at any time, and the       *)
(* daemon's context.                                                       *)
(*                                                                         *)
(* A handler stops being atomic where it blocks: in its select (out is     *)
(* empty) and in conn.Write of the first report of `out', which returns    *)
(* when the socket buffer has room or the peer is gone.  There is no write *)
(* deadline, so a client that stops reading blocks its handler.  Command   *)
(* text and JSON are abstracted to what handleCmd makes of them; what a    *)
(* line says is left open until the scanner or handleCmd looks at it.      *)
(***************************************************************************)
EXTENDS FixData, Sequences

CONSTANTS Clients,    \* connections
          Commands,   \* what clients send, a subset of AllCommands
          InboxCap,   \* bound on the lines a client has sent ahead
          WireCap,    \* reports that fit into a connection's socket buffers
          MaxFixes    \* bound on the positions resolved

AllCommands == {"?WATCH", "?WATCH off", "?POLL", "?VERSION", "?DEVICES",
                "unknown", "overlong"}

ASSUME GpsdServerAssumption ==
  /\ Commands \subseteq AllCommands
  /\ InboxCap \in Nat \ {0} /\ WireCap \in Nat \ {0} /\ MaxFixes \in Nat

VARIABLES
  cur,       \* the published fix
  fixes,     \* positions resolved so far: the time of the newest
  ctxDone,   \* the daemon's context is cancelled
  listener,  \* the listening socket is "open" or "closed"
  serve,     \* Serve is "accepting", or has "returned" nil or "failed"
  peer,      \* the client's end: "away", "dialing", "connected", "closed"
  inbox,     \* number of lines the client has sent and the reader not read
  wire,      \* number of reports the client has not read
  conn,      \* the handler: "none", "greet", "loop", "closed"
  reader,    \* the reader: "none", "read", "offer", "eof", "gone"
  watching,  \* handleConn's watching
  tick,      \* a tick waits in the handler's ticker
  out,       \* the reports the handler is about to write, the first in Write
  last,      \* history: the last report written
  told,      \* history: the enable of the last WATCH written
  newest     \* history: the time of the newest position written

daemon == <<ctxDone, listener, serve>>
position == <<cur, fixes>>
client == <<peer, inbox, wire>>
goroutines == <<conn, reader, watching, tick, out>>
history == <<last, told, newest>>
vars == <<position, daemon, client, goroutines, history>>

\* The process lives while Serve does: main returns when Serve returns.
Running == serve = "accepting"

Session(c) == INSTANCE GpsdSession
  WITH last <- last[c], told <- told[c], newest <- newest[c]

Silence == [class |-> "none", enable |-> FALSE, fix |-> NoFix]
Report(class) == [class |-> class, enable |-> FALSE, fix |-> NoFix]
WatchReport(e) == [class |-> "WATCH", enable |-> e, fix |-> NoFix]

\* Server.Provider is called when sendFix begins or poll answers: the position
\* goes into the TPV (or POLL) that is written next.
Load(reports) ==
  IF reports # <<>> /\ Head(reports).class \in {"TPV", "POLL"}
  THEN <<[Head(reports) EXCEPT !.fix = cur]>> \o Tail(reports)
  ELSE reports

SendFix == <<Report("TPV"), Report("SKY")>>

\* handleCmd: the reports that answer a command.  Mutants: the handshake in
\* another order; disabling streams a last fix.
RepliesWatchFirst(cmd) ==
  CASE cmd = "?WATCH" -> <<WatchReport(TRUE), Report("DEVICES")>> \o SendFix
    [] cmd = "?WATCH off" -> <<WatchReport(FALSE), Report("DEVICES")>>
    [] cmd = "?POLL" -> <<Report("POLL")>>
    [] cmd = "?VERSION" -> <<Report("VERSION")>>
    [] cmd = "?DEVICES" -> <<Report("DEVICES")>>
    [] OTHER -> <<>>
Replies(cmd) ==
  CASE cmd = "?WATCH" -> <<Report("DEVICES"), WatchReport(TRUE)>> \o SendFix
    [] cmd = "?WATCH off" -> <<Report("DEVICES"), WatchReport(FALSE)>>
    [] cmd = "?POLL" -> <<Report("POLL")>>
    [] cmd = "?VERSION" -> <<Report("VERSION")>>
    [] cmd = "?DEVICES" -> <<Report("DEVICES")>>
    [] OTHER -> <<>>

\* handleCmd: whether the client watches from now on.  Mutant: a disabled watch
\* goes on.
EnablesSticky(cmd, before) == before \/ cmd = "?WATCH"
Enables(cmd, before) == CASE cmd = "?WATCH" -> TRUE
                          [] cmd = "?WATCH off" -> FALSE
                          [] OTHER -> before
-----------------------------------------------------------------------------
Init ==
  /\ cur = NoFix /\ fixes = 0
  /\ ctxDone = FALSE /\ listener = "open" /\ serve = "accepting"
  /\ peer = [c \in Clients |-> "away"]
  /\ inbox = [c \in Clients |-> 0]
  /\ wire = [c \in Clients |-> 0]
  /\ conn = [c \in Clients |-> "none"]
  /\ reader = [c \in Clients |-> "none"]
  /\ watching = [c \in Clients |-> FALSE]
  /\ tick = [c \in Clients |-> FALSE]
  /\ out = [c \in Clients |-> <<>>]
  /\ last = [c \in Clients |-> Silence]
  /\ told = [c \in Clients |-> FALSE]
  /\ newest = [c \in Clients |-> Never]

\* The poll loop publishes a newly resolved fix, or withdraws the served one.
PublishFix ==
  /\ fixes < MaxFixes
  /\ fixes' = fixes + 1
  /\ cur' = [NoFix EXCEPT !.mode = 2, !.time = fixes + 1, !.source = "wifi"]
  /\ UNCHANGED <<daemon, client, goroutines, history>>

WithdrawFix ==
  /\ HasFix(cur)
  /\ cur' = NoFix
  /\ UNCHANGED <<fixes, daemon, client, goroutines, history>>
-----------------------------------------------------------------------------
(* The clients. *)

Dial(c) ==
  /\ peer[c] = "away" /\ listener = "open"
  /\ peer' = [peer EXCEPT ![c] = "dialing"]
  /\ UNCHANGED <<inbox, wire, position, daemon, goroutines, history>>

SendLine(c) ==
  /\ peer[c] = "connected" /\ inbox[c] < InboxCap
  /\ inbox' = [inbox EXCEPT ![c] = @ + 1]
  /\ UNCHANGED <<peer, wire, position, daemon, goroutines, history>>

ReadReport(c) ==
  /\ peer[c] = "connected" /\ wire[c] > 0
  /\ wire' = [wire EXCEPT ![c] = @ - 1]
  /\ UNCHANGED <<peer, inbox, position, daemon, goroutines, history>>

HangUp(c) ==
  /\ peer[c] \in {"dialing", "connected"}
  /\ peer' = [peer EXCEPT ![c] = "closed"]
  /\ UNCHANGED <<inbox, wire, position, daemon, goroutines, history>>
-----------------------------------------------------------------------------
(* Serve. *)

Accept(c) ==
  /\ listener = "open"
  /\ peer[c] \in {"dialing", "closed"} /\ conn[c] = "none"
  /\ peer' = [peer EXCEPT ![c] = IF @ = "dialing" THEN "connected" ELSE @]
  /\ conn' = [conn EXCEPT ![c] = "greet"]
  /\ out' = [out EXCEPT ![c] = <<Report("VERSION")>>]
  /\ UNCHANGED <<position, daemon, inbox, wire, reader, watching, tick, history>>

\* Accept fails, because the closer goroutine has closed the listener or for a
\* reason of its own (the process is out of file descriptors): without a
\* cancelled context that is fatal.
ServeEnds ==
  /\ serve' = IF ctxDone THEN "returned" ELSE "failed"
  /\ UNCHANGED <<position, ctxDone, listener, client, goroutines, history>>

AcceptClosed == listener = "closed" /\ ServeEnds
AcceptFails  == listener = "open" /\ ServeEnds

Cancel ==
  /\ ~ctxDone
  /\ ctxDone' = TRUE
  /\ UNCHANGED <<position, listener, serve, client, goroutines, history>>

\* The goroutine that Serve starts.  Mutant: it waits for the handlers first.
CloseListenerLast ==
  /\ ctxDone /\ listener = "open"
  /\ \A c \in Clients : conn[c] \in {"none", "closed"}
  /\ listener' = "closed"
  /\ UNCHANGED <<position, ctxDone, serve, client, goroutines, history>>
CloseListener ==
  /\ ctxDone /\ listener = "open"
  /\ listener' = "closed"
  /\ UNCHANGED <<position, ctxDone, serve, client, goroutines, history>>
-----------------------------------------------------------------------------
(* handleConn. *)

\* Its deferred calls: the connection and `done' are closed, the ticker stops.
Return(c) == /\ conn' = [conn EXCEPT ![c] = "closed"]
             /\ out' = [out EXCEPT ![c] = <<>>]
             /\ tick' = [tick EXCEPT ![c] = FALSE]

InSelect(c) == conn[c] = "loop" /\ out[c] = <<>>

\* conn.Write of the first report succeeds; after the greeting the reader is
\* started.
WriteOK(c) ==
  /\ out[c] # <<>> /\ wire[c] < WireCap
  /\ LET report == Head(out[c]) IN
       /\ last' = [last EXCEPT ![c] = report]
       /\ told' = [told EXCEPT ![c] = IF report.class = "WATCH" THEN report.enable ELSE @]
       /\ newest' = [newest EXCEPT ![c] = IF HasFix(report.fix) THEN report.fix.time ELSE @]
  /\ wire' = [wire EXCEPT ![c] = @ + 1]
  /\ out' = [out EXCEPT ![c] = Load(Tail(@))]
  /\ conn' = [conn EXCEPT ![c] = "loop"]
  /\ reader' = [reader EXCEPT ![c] = IF conn[c] = "greet" THEN "read" ELSE @]
  /\ UNCHANGED <<position, daemon, peer, inbox, watching, tick>>

WriteError(c) ==
  /\ out[c] # <<>> /\ peer[c] = "closed"
  /\ Return(c)
  /\ UNCHANGED <<position, daemon, client, reader, watching, history>>

\* select: the context is done.
SeeDone(c) ==
  /\ InSelect(c) /\ ctxDone
  /\ Return(c)
  /\ UNCHANGED <<position, daemon, client, reader, watching, history>>

\* select: the reader has closed the channel.
SeeEOF(c) ==
  /\ InSelect(c) /\ reader[c] = "eof"
  /\ Return(c)
  /\ UNCHANGED <<position, daemon, client, reader, watching, history>>

\* select: a command; handleCmd switches watching before it writes.
HandleCmd(c) ==
  /\ InSelect(c) /\ reader[c] = "offer"
  /\ \E cmd \in Commands \ {"overlong"} :
       /\ watching' = [watching EXCEPT ![c] = Enables(cmd, @)]
       /\ out' = [out EXCEPT ![c] = Load(Replies(cmd))]
  /\ reader' = [reader EXCEPT ![c] = "read"]
  /\ UNCHANGED <<position, daemon, client, conn, tick, history>>

\* select: a tick streams the fix to a watching client.  Mutants: it streams
\* to every client; commands go first.
HandleTickAlways(c) ==
  /\ InSelect(c) /\ tick[c]
  /\ tick' = [tick EXCEPT ![c] = FALSE]
  /\ out' = [out EXCEPT ![c] = Load(SendFix)]
  /\ UNCHANGED <<position, daemon, client, conn, reader, watching, history>>
HandleTickLast(c) ==
  /\ InSelect(c) /\ tick[c] /\ reader[c] # "offer"
  /\ tick' = [tick EXCEPT ![c] = FALSE]
  /\ out' = [out EXCEPT ![c] = IF watching[c] THEN Load(SendFix) ELSE <<>>]
  /\ UNCHANGED <<position, daemon, client, conn, reader, watching, history>>
HandleTick(c) ==
  /\ InSelect(c) /\ tick[c]
  /\ tick' = [tick EXCEPT ![c] = FALSE]
  /\ out' = [out EXCEPT ![c] = IF watching[c] THEN Load(SendFix) ELSE <<>>]
  /\ UNCHANGED <<position, daemon, client, conn, reader, watching, history>>

TickerFire(c) ==
  /\ conn[c] = "loop" /\ ~tick[c]
  /\ tick' = [tick EXCEPT ![c] = TRUE]
  /\ UNCHANGED <<position, daemon, client, conn, reader, watching, out, history>>
-----------------------------------------------------------------------------
(* The reader goroutine. *)

\* sc.Scan returns a line; it may have been buffered before the connection was
\* closed.
ReadLine(c) ==
  /\ reader[c] = "read" /\ inbox[c] > 0
  /\ reader' = [reader EXCEPT ![c] = "offer"]
  /\ inbox' = [inbox EXCEPT ![c] = @ - 1]
  /\ UNCHANGED <<position, daemon, peer, wire, conn, watching, tick, out, history>>

\* sc.Scan returns false: the peer has closed and everything is read, the
\* handler has closed the connection, or a line exceeds the scanner's buffer.
ReadEnd(c) ==
  /\ reader[c] = "read"
  /\ \/ peer[c] = "closed" /\ inbox[c] = 0
     \/ conn[c] = "closed"
     \/ inbox[c] > 0 /\ "overlong" \in Commands
  /\ reader' = [reader EXCEPT ![c] = "eof"]
  /\ UNCHANGED <<position, daemon, client, conn, watching, tick, out, history>>

\* The reader's select sees that the handler is done.  Mutant: it only offers.
ReaderNeverDone(c) == FALSE /\ UNCHANGED vars
ReaderDone(c) ==
  /\ reader[c] = "offer" /\ conn[c] = "closed"
  /\ reader' = [reader EXCEPT ![c] = "gone"]
  /\ UNCHANGED <<position, daemon, client, conn, watching, tick, out, history>>
-----------------------------------------------------------------------------
Handler(c) == WriteOK(c) \/ WriteError(c) \/ SeeDone(c) \/ SeeEOF(c)
              \/ HandleCmd(c) \/ HandleTick(c)
Reader(c) == ReadLine(c) \/ ReadEnd(c) \/ ReaderDone(c)
Client(c) == Dial(c) \/ SendLine(c) \/ ReadReport(c) \/ HangUp(c)
Serve == CloseListener \/ AcceptClosed

Exited == ~Running /\ UNCHANGED vars

Next ==
  \/ /\ Running
     /\ \/ \E c \in Clients : Client(c) \/ Accept(c) \/ Handler(c)
                              \/ TickerFire(c) \/ Reader(c)
        \/ PublishFix \/ WithdrawFix \/ Cancel \/ AcceptFails \/ Serve
  \/ Exited

Spec == Init /\ [][Next]_vars

\* Runnable goroutines run, due ticks fire, and select chooses at random among
\* its ready cases, so none is passed over for ever (the reader's channel is one
\* case, with a command or closed).  Nothing is assumed of the clients, nor of
\* Accept while the listener is open.
Fairness ==
  /\ WF_vars(Running /\ Serve)
  /\ \A c \in Clients :
       /\ WF_vars(Running /\ Handler(c)) /\ WF_vars(Running /\ Reader(c))
       /\ WF_vars(Running /\ TickerFire(c))
       /\ SF_vars(Running /\ HandleTick(c))
       /\ SF_vars(Running /\ (HandleCmd(c) \/ SeeEOF(c)))

LiveSpec == Spec /\ Fairness
-----------------------------------------------------------------------------
Reports == [class : {"VERSION", "DEVICES", "WATCH", "POLL", "TPV", "SKY", "none"},
            enable : BOOLEAN, fix : Fix]

(* Type invariant, with what each goroutine's state implies for its queue. *)
TypeOK ==
  /\ cur \in Fix /\ fixes \in 0..MaxFixes
  /\ ctxDone \in BOOLEAN /\ listener \in {"open", "closed"}
  /\ serve \in {"accepting", "returned", "failed"}
  /\ peer \in [Clients -> {"away", "dialing", "connected", "closed"}]
  /\ inbox \in [Clients -> 0..InboxCap]
  /\ wire \in [Clients -> 0..WireCap]
  /\ conn \in [Clients -> {"none", "greet", "loop", "closed"}]
  /\ reader \in [Clients -> {"none", "read", "offer", "eof", "gone"}]
  /\ watching \in [Clients -> BOOLEAN] /\ tick \in [Clients -> BOOLEAN]
  /\ out \in [Clients -> Seq(Reports)] /\ \A c \in Clients : Len(out[c]) <= 4
  /\ last \in [Clients -> Reports] /\ told \in [Clients -> BOOLEAN]
  /\ newest \in [Clients -> Nat \cup {Never}]
  /\ \A c \in Clients :
       /\ conn[c] \in {"none", "closed"} => out[c] = <<>>
       /\ conn[c] = "greet" => out[c] = <<Report("VERSION")>>
       /\ reader[c] # "none" => conn[c] \in {"loop", "closed"}

(* Every connection's reports are a session as GpsdSession defines it, however
   commands, ticks, blocked writes and new positions interleave (handleConn,
   handleCmd, sendFix; docs/reference/gpsd.md). *)
Sessions ==
  /\ \A c \in Clients : Session(c)!SessionInit
  /\ [][\A c \in Clients : [Session(c)!Send]_<<last[c], told[c], newest[c]>>]_history

(* A handler at its select has told the client whether it is watching: the
   switch and its echo are never apart for another command or tick to see. *)
WatchingTold ==
  \A c \in Clients : InSelect(c) /\ last[c].class # "none" => told[c] = watching[c]

(* A client that hangs up leaves neither a handler nor a reader behind, even if
   it stopped reading or left lines unanswered (handleConn's done channel). *)
NoLeak ==
  \A c \in Clients :
    peer[c] = "closed" /\ conn[c] # "none" ~>
      ~Running \/ (conn[c] = "closed" /\ reader[c] \in {"none", "eof", "gone"})

(* Cancelling the context makes Serve return nil, though clients may block
   their handlers for ever in conn.Write (Serve's closer goroutine). *)
Shutdown == ctxDone ~> serve = "returned"

(* A watching client that keeps reading is streamed TPVs for ever, whatever it
   sends meanwhile (handleConn's select). *)
StreamsOn ==
  \A c \in Clients :
    <>[](Running /\ conn[c] = "loop" /\ watching[c]) /\ []<>(wire[c] < WireCap)
      => []<>(out[c] # <<>> /\ Head(out[c]).class = "TPV")
=============================================================================
