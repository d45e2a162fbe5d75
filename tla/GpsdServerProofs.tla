-------------------------- MODULE GpsdServerProofs --------------------------
(***************************************************************************)
(* Proofs about GpsdServer for any number of clients: its types, that each *)
(* connection's reports are a session as GpsdSession defines it, and that  *)
(* a handler in its select has told the client whether it watches.         *)
(*                                                                         *)
(* The invariant says what a handler may have left to write (Held): the    *)
(* answers to one command, or to one tick, from some report on, and how    *)
(* `watching' and the last report written agree with that.                 *)
(***************************************************************************)
EXTENDS GpsdServer, SequenceTheorems, TLAPS

-----------------------------------------------------------------------------
(* Short sequences. *)

LEMMA Tails ==
  ASSUME NEW a, NEW b, NEW d, NEW e
  PROVE  /\ Head(<<a>>) = a /\ Tail(<<a>>) = <<>>
         /\ Head(<<a, b>>) = a /\ Tail(<<a, b>>) = <<b>>
         /\ Head(<<a, b, d>>) = a /\ Tail(<<a, b, d>>) = <<b, d>>
         /\ Head(<<a, b, d, e>>) = a /\ Tail(<<a, b, d, e>>) = <<b, d, e>>
         /\ <<a>> # <<>> /\ <<a, b>> # <<>> /\ <<a, b, d>> # <<>> /\ <<a, b, d, e>> # <<>>
  OBVIOUS

\* A sequence with the elements of s and then those of t is their concatenation.
LEMMA Cat ==
  ASSUME NEW S, NEW s \in Seq(S), NEW t \in Seq(S), NEW u \in Seq(S),
         Len(u) = Len(s) + Len(t),
         \A i \in 1..Len(s) : u[i] = s[i],
         \A i \in 1..Len(t) : u[Len(s) + i] = t[i]
  PROVE  s \o t = u
<1>1. s \o t \in Seq(S) /\ Len(s \o t) = Len(u)
  BY ConcatProperties
<1>2. ASSUME NEW i \in 1..Len(u) PROVE (s \o t)[i] = u[i]
  <2>1. CASE i <= Len(s)
    BY <2>1, ConcatProperties
  <2>2. CASE i > Len(s)
    <3>1. i - Len(s) \in 1..Len(t) /\ i = Len(s) + (i - Len(s))
      BY <2>2
    <3>2. u[i] = t[i - Len(s)]
      BY <3>1
    <3> QED
      BY <2>2, <3>2, ConcatProperties
  <2> QED
    BY <2>1, <2>2
<1> QED
  BY <1>1, <1>2, SeqEqual

LEMMA Cats ==
  ASSUME NEW a, NEW b, NEW d, NEW e
  PROVE  /\ <<a>> \o <<>> = <<a>>
         /\ <<a>> \o <<b>> = <<a, b>>
         /\ <<a, b>> \o <<d, e>> = <<a, b, d, e>>
<1> DEFINE S == {a, b, d, e}
<1>1. <<a>> \o <<b>> = <<a, b>>
  <2> DEFINE s == <<a>> t == <<b>> u == <<a, b>>
  <2>1. /\ s \in Seq(S) /\ t \in Seq(S) /\ u \in Seq(S)
        /\ Len(s) = 1 /\ Len(t) = 1 /\ Len(u) = 2
        /\ u[1] = s[1] /\ u[2] = t[1]
    OBVIOUS
  <2> HIDE DEF s, t, u, S
  <2>2. /\ Len(u) = Len(s) + Len(t)
        /\ \A i \in 1..Len(s) : u[i] = s[i]
        /\ \A i \in 1..Len(t) : u[Len(s) + i] = t[i]
    BY <2>1
  <2>3. s \o t = u
    BY <2>1, <2>2, Cat, Zenon
  <2> QED
    BY <2>3 DEF s, t, u
<1>2. <<a, b>> \o <<d, e>> = <<a, b, d, e>>
  <2> DEFINE s == <<a, b>> t == <<d, e>> u == <<a, b, d, e>>
  <2>1. /\ s \in Seq(S) /\ t \in Seq(S) /\ u \in Seq(S)
        /\ Len(s) = 2 /\ Len(t) = 2 /\ Len(u) = 4
        /\ u[1] = s[1] /\ u[2] = s[2] /\ u[3] = t[1] /\ u[4] = t[2]
    OBVIOUS
  <2> HIDE DEF s, t, u, S
  <2>2. /\ Len(u) = Len(s) + Len(t)
        /\ \A i \in 1..Len(s) : u[i] = s[i]
        /\ \A i \in 1..Len(t) : u[Len(s) + i] = t[i]
    BY <2>1
  <2>3. s \o t = u
    BY <2>1, <2>2, Cat, Zenon
  <2> QED
    BY <2>3 DEF s, t, u
<1>3. <<a>> \o <<>> = <<a>>
  <2>1. <<a>> \in Seq(S)
    OBVIOUS
  <2> QED
    BY <2>1, ConcatEmptySeq
<1> QED
  BY <1>1, <1>2, <1>3

-----------------------------------------------------------------------------
(* The reports. *)

Loaded(class, f) == [class |-> class, enable |-> FALSE, fix |-> f]

LEMMA ReportFacts ==
  /\ \A k : Report(k).class = k /\ Report(k).enable = FALSE /\ Report(k).fix = NoFix
  /\ \A e : WatchReport(e).class = "WATCH" /\ WatchReport(e).enable = e
            /\ WatchReport(e).fix = NoFix
  /\ \A k, f : Loaded(k, f).class = k /\ Loaded(k, f).enable = FALSE /\ Loaded(k, f).fix = f
  /\ Silence.class = "none"
  /\ ~HasFix(NoFix)
  BY DEF Report, WatchReport, Loaded, Silence, HasFix, NoFix

\* The position goes into a TPV or POLL that is next, and into no other report.
LEMMA LoadFacts ==
  /\ Load(<<>>) = <<>>
  /\ Load(<<Report("TPV"), Report("SKY")>>) = <<Loaded("TPV", cur), Report("SKY")>>
  /\ Load(<<Report("POLL")>>) = <<Loaded("POLL", cur)>>
  /\ \A q : q # <<>> /\ Head(q).class \notin {"TPV", "POLL"} => Load(q) = q
  /\ Load(<<Report("SKY")>>) = <<Report("SKY")>>
  /\ Load(<<WatchReport(FALSE)>>) = <<WatchReport(FALSE)>>
  /\ \A a, b : Load(<<WatchReport(TRUE), a, b>>) = <<WatchReport(TRUE), a, b>>
<1>1. Load(<<>>) = <<>>
  BY DEF Load
<1>2. ASSUME NEW k PROVE [Report(k) EXCEPT !.fix = cur] = Loaded(k, cur)
  <2>1. ASSUME NEW e, NEW n, NEW r, r = [class |-> k, enable |-> e, fix |-> n]
        PROVE  [r EXCEPT !.fix = cur] = [class |-> k, enable |-> e, fix |-> cur]
    BY <2>1
  <2> QED
    BY <2>1 DEF Report, Loaded
<1>3. Load(<<Report("TPV"), Report("SKY")>>) = <<Loaded("TPV", cur), Report("SKY")>>
  <2>1. Load(<<Report("TPV"), Report("SKY")>>)
          = <<[Report("TPV") EXCEPT !.fix = cur]>> \o <<Report("SKY")>>
    BY Tails, ReportFacts DEF Load
  <2> QED
    BY <1>2, <2>1, Cats
<1>4. Load(<<Report("POLL")>>) = <<Loaded("POLL", cur)>>
  <2>1. Load(<<Report("POLL")>>) = <<[Report("POLL") EXCEPT !.fix = cur]>> \o <<>>
    BY Tails, ReportFacts DEF Load
  <2> QED
    BY <1>2, <2>1, Cats
<1>5. \A q : q # <<>> /\ Head(q).class \notin {"TPV", "POLL"} => Load(q) = q
  BY DEF Load
<1>6. Load(<<Report("SKY")>>) = <<Report("SKY")>>
  BY <1>5, Tails, ReportFacts
<1>7. \A w : w.class = "WATCH" => Load(<<w>>) = <<w>>
             /\ \A a, b : Load(<<w, a, b>>) = <<w, a, b>>
  BY <1>5, Tails
<1>8. WatchReport(TRUE).class = "WATCH" /\ WatchReport(FALSE).class = "WATCH"
  BY ReportFacts
<1> QED
  BY <1>1, <1>3, <1>4, <1>5, <1>6, <1>7, <1>8

-----------------------------------------------------------------------------
(* The invariant. *)

\* Nothing is half said: no TPV without its SKY, no switch without its echo.
AtRest(c) == last[c].class # "TPV" /\ told[c] = watching[c]

\* What a handler in its loop may be about to write, where f is the position that
\* was loaded for it.
Held(c, f) ==
  \/ out[c] = <<>> /\ AtRest(c)
  \/ \E k \in {"VERSION", "DEVICES"} : out[c] = <<Report(k)>> /\ AtRest(c)
  \/ out[c] = <<Loaded("POLL", f)>> /\ AtRest(c)
  \/ out[c] = <<Loaded("TPV", f), Report("SKY")>> /\ AtRest(c) /\ told[c]
  \/ out[c] = <<Report("SKY")>> /\ last[c].class = "TPV" /\ told[c] = watching[c]
  \/ /\ out[c] = <<Report("DEVICES"), WatchReport(TRUE), Report("TPV"), Report("SKY")>>
     /\ last[c].class # "TPV" /\ watching[c]
  \/ /\ out[c] = <<WatchReport(TRUE), Report("TPV"), Report("SKY")>>
     /\ last[c].class = "DEVICES" /\ watching[c]
  \/ /\ out[c] = <<Report("DEVICES"), WatchReport(FALSE)>>
     /\ last[c].class # "TPV" /\ ~watching[c]
  \/ /\ out[c] = <<WatchReport(FALSE)>>
     /\ last[c].class = "DEVICES" /\ ~watching[c]

HandlerInv(c) ==
  /\ conn[c] \in {"none", "closed"} => out[c] = <<>>
  /\ conn[c] \in {"none", "greet"} =>
       last[c] = Silence /\ told[c] = FALSE /\ watching[c] = FALSE /\ newest[c] = Never
  /\ conn[c] = "greet" => out[c] = <<Report("VERSION")>>
  /\ conn[c] = "loop" =>
       /\ last[c].class # "none"
       /\ \E f \in Fix : Held(c, f) /\ (HasFix(f) => f.time >= newest[c] /\ f.time <= fixes)
  /\ newest[c] <= fixes

\* The published fix is the newest.
CurInv == HasFix(cur) => cur.time = fixes

IInv == TypeOK /\ CurInv /\ \A c \in Clients : HandlerInv(c)

-----------------------------------------------------------------------------
(* Types. *)

LEMMA ReportTypes ==
  /\ Silence \in Reports
  /\ \A k \in {"VERSION", "DEVICES", "POLL", "TPV", "SKY"} : Report(k) \in Reports
  /\ \A e \in BOOLEAN : WatchReport(e) \in Reports
  /\ \A k \in {"POLL", "TPV"}, f \in Fix : Loaded(k, f) \in Reports
<1>1. NoFix \in Fix
  BY DEF Fix
<1> QED
  BY <1>1 DEF Silence, Report, WatchReport, Loaded, Reports

\* What a handler is about to write are at most four reports.
FewReports(o) ==
  \/ o = <<>>
  \/ \E a \in Reports : o = <<a>>
  \/ \E a, b \in Reports : o = <<a, b>>
  \/ \E a, b, d \in Reports : o = <<a, b, d>>
  \/ \E a, b, d, e \in Reports : o = <<a, b, d, e>>

LEMMA FewType ==
  ASSUME NEW o, FewReports(o) PROVE o \in Seq(Reports) /\ Len(o) <= 4
<1>1. ASSUME NEW a \in Reports, NEW b \in Reports, NEW d \in Reports, NEW e \in Reports
      PROVE  /\ <<>> \in Seq(Reports) /\ <<a>> \in Seq(Reports) /\ <<a, b>> \in Seq(Reports)
             /\ <<a, b, d>> \in Seq(Reports) /\ <<a, b, d, e>> \in Seq(Reports)
             /\ Len(<<>>) = 0 /\ Len(<<a>>) = 1 /\ Len(<<a, b>>) = 2 /\ Len(<<a, b, d>>) = 3
             /\ Len(<<a, b, d, e>>) = 4
  OBVIOUS
<1> HIDE DEF Reports
<1>4. CASE \E a, b, d, e \in Reports : o = <<a, b, d, e>>
  BY <1>1, <1>4
<1>5. CASE \E a, b, d \in Reports : o = <<a, b, d>>
  BY <1>1, <1>5
<1>6. CASE \E a, b \in Reports : o = <<a, b>>
  BY <1>1, <1>6
<1>7. CASE \E a \in Reports : o = <<a>>
  BY <1>1, <1>7
<1>8. CASE o = <<>>
  BY <1>8
<1> QED
  BY <1>4, <1>5, <1>6, <1>7, <1>8 DEF FewReports

LEMMA HeldFew ==
  ASSUME NEW c, NEW f \in Fix
  PROVE  (Held(c, f) => FewReports(out[c])) /\ (Held(c, f)' => FewReports(out'[c]))
<1>1. /\ Report("VERSION") \in Reports /\ Report("DEVICES") \in Reports
      /\ Report("TPV") \in Reports /\ Report("SKY") \in Reports
      /\ WatchReport(TRUE) \in Reports /\ WatchReport(FALSE) \in Reports
      /\ Loaded("POLL", f) \in Reports /\ Loaded("TPV", f) \in Reports
  BY ReportTypes
<1> HIDE DEF Reports
<1>2. Held(c, f) => FewReports(out[c])
  BY <1>1, Zenon DEF Held, FewReports
<1>3. Held(c, f)' => FewReports(out'[c])
  BY <1>1, Zenon DEF Held, FewReports
<1> QED
  BY <1>2, <1>3

\* Before anything happens there is no client.
LEMMA InitInv == Init => IInv
<1> SUFFICES ASSUME Init PROVE IInv
  OBVIOUS
<1>1. NoFix \in Fix /\ Silence \in Reports /\ <<>> \in Seq(Reports)
      /\ Len(<<>>) = 0
  BY ReportTypes DEF Fix
<1>2. TypeOK
  <2>1. /\ cur \in Fix /\ fixes \in 0..MaxFixes
        /\ listener \in {"open", "closed"}
        /\ serve \in {"accepting", "returned", "failed"}
        /\ wire \in [Clients -> 0..WireCap]
    BY <1>1, GpsdServerAssumption DEF Init
  <2>0. ctxDone \in BOOLEAN
    BY DEF Init
  <2>2. /\ peer \in [Clients -> {"away", "dialing", "connected", "closed"}]
        /\ conn \in [Clients -> {"none", "greet", "loop", "closed"}]
        /\ reader \in [Clients -> {"none", "read", "offer", "eof", "gone"}]
        /\ watching \in [Clients -> BOOLEAN] /\ tick \in [Clients -> BOOLEAN]
        /\ told \in [Clients -> BOOLEAN]
        /\ newest \in [Clients -> Nat \cup {Never}]
    BY DEF Init
  <2>3. /\ inbox \in [Clients -> 0..InboxCap]
        /\ out \in [Clients -> Seq(Reports)] /\ \A c \in Clients : Len(out[c]) <= 4
        /\ last \in [Clients -> Reports]
    BY <1>1, GpsdServerAssumption DEF Init
  <2>4. \A c \in Clients :
          /\ conn[c] \in {"none", "closed"} => out[c] = <<>>
          /\ conn[c] = "greet" => out[c] = <<Report("VERSION")>>
          /\ reader[c] # "none" => conn[c] \in {"loop", "closed"}
    BY DEF Init
  <2> QED
    BY <2>0, <2>1, <2>2, <2>3, <2>4 DEF TypeOK
<1>3. CurInv
  BY ReportFacts DEF Init, CurInv
<1>4. ASSUME NEW c \in Clients PROVE HandlerInv(c)
  BY DEF Init, HandlerInv, Never
<1> QED
  BY <1>2, <1>3, <1>4 DEF IInv

-----------------------------------------------------------------------------
(* What one handler writes. *)

LEMMA FixTime == ASSUME NEW f \in Fix, HasFix(f) PROVE f.time \in Nat
<1>1. f # NoFix
  BY ReportFacts
<1> QED
  BY <1>1 DEF Fix, ResolvedFix

\* A client whose handler does nothing.
LEMMA FrameInv ==
  ASSUME IInv, NEW c \in Clients, fixes' \in Nat, fixes' >= fixes,
         conn'[c] = conn[c], out'[c] = out[c], last'[c] = last[c], told'[c] = told[c],
         watching'[c] = watching[c], newest'[c] = newest[c]
  PROVE  HandlerInv(c)'
<1>1. HandlerInv(c) /\ fixes \in Nat /\ newest[c] \in Nat \cup {Never}
  BY GpsdServerAssumption DEF IInv, TypeOK
<1>2. ASSUME NEW f \in Fix, Held(c, f) PROVE Held(c, f)'
  BY <1>2 DEF Held, AtRest
<1>3. ASSUME NEW f \in Fix, HasFix(f), f.time <= fixes PROVE f.time <= fixes'
  BY <1>1, <1>3, FixTime
<1>4. newest'[c] <= fixes'
  BY <1>1 DEF HandlerInv, Never
<1>5. conn'[c] = "loop" =>
        /\ last'[c].class # "none"
        /\ \E f \in Fix : Held(c, f)' /\ (HasFix(f) => f.time >= newest'[c] /\ f.time <= fixes')
  BY <1>1, <1>2, <1>3 DEF HandlerInv
<1> QED
  BY <1>1, <1>4, <1>5 DEF HandlerInv

\* After a report has been written.
Written(c, r) ==
  /\ conn'[c] = "loop"
  /\ last'[c] = r
  /\ told'[c] = IF r.class = "WATCH" THEN r.enable ELSE told[c]
  /\ newest'[c] = IF HasFix(r.fix) THEN r.fix.time ELSE newest[c]
  /\ out'[c] = Load(Tail(out[c]))
  /\ watching'[c] = watching[c] /\ fixes' = fixes

LEMMA WriteWritten ==
  ASSUME TypeOK, NEW c \in Clients, WriteOK(c) PROVE Written(c, Head(out[c]))
  BY DEF TypeOK, WriteOK, Written, position

\* If a report follows the last one and what is left is held again, the invariant
\* and the session go on.
LEMMA WriteGoesOn ==
  ASSUME IInv, NEW c \in Clients, NEW r, Written(c, r), r.class # "none",
         NEW g \in Fix, Held(c, g)', HasFix(g) => g.time >= newest'[c] /\ g.time <= fixes,
         HasFix(r.fix) => r.fix.time >= newest[c] /\ r.fix.time <= fixes,
         \/ last[c] = Silence /\ r.class = "VERSION"
         \/ last[c].class \notin {"none", "TPV"} /\ r.class \in {"VERSION", "DEVICES", "POLL"}
         \/ last[c].class = "DEVICES" /\ r.class = "WATCH"
         \/ last[c].class \notin {"none", "TPV"} /\ told[c] /\ r.class = "TPV"
         \/ last[c].class = "TPV" /\ r.class = "SKY"
  PROVE  HandlerInv(c)' /\ Session(c)!Send
<1>1. newest'[c] <= fixes'
  BY DEF IInv, HandlerInv, Written
<1>2. HandlerInv(c)'
  BY <1>1 DEF HandlerInv, Written
<1>3. Session(c)!Silence = Silence
  BY DEF Session!Silence, Silence, Session!NoFix, NoFix, Session!Never, Never
<1>4. Session(c)!Follows
  BY <1>3 DEF Session!Follows, Session!Greeting, Session!Plain, Written
<1>5. Session(c)!Position
  BY DEF Session!Position, Session!HasFix, HasFix, Written
<1> QED
  BY <1>2, <1>4, <1>5 DEF Session!Send, Written

LEMMA WrittenPlain ==
  ASSUME NEW c, NEW r, Written(c, r), r.class # "WATCH"
  PROVE  told'[c] = told[c] /\ watching'[c] = watching[c] /\ last'[c].class = r.class
  BY DEF Written

LEMMA NothingHeld ==
  ASSUME NEW c, out'[c] = <<>>, last'[c].class # "TPV", told'[c] = watching'[c]
  PROVE  Held(c, NoFix)'
  BY DEF Held, AtRest

LEMMA WriteKeeps ==
  ASSUME IInv, NEW c \in Clients, WriteOK(c)
  PROVE  HandlerInv(c)' /\ Session(c)!Send
<1>1. HandlerInv(c) /\ NoFix \in Fix /\ cur \in Fix /\ fixes \in Nat
      /\ newest[c] \in Nat \cup {Never} /\ watching[c] \in BOOLEAN /\ told[c] \in BOOLEAN
  BY DEF IInv, TypeOK, Fix
<1>2. Written(c, Head(out[c])) /\ cur' = cur
  BY WriteWritten DEF IInv, WriteOK, position
<1>3. conn[c] \in {"greet", "loop"} /\ out[c] # <<>>
  BY <1>1 DEF WriteOK, HandlerInv, IInv, TypeOK
<1>4. CASE conn[c] = "greet"
  <2>1. out[c] = <<Report("VERSION")>> /\ last[c] = Silence
    BY <1>1, <1>4 DEF HandlerInv
  <2>2. told[c] = watching[c]
    BY <1>1, <1>4 DEF HandlerInv
  <2>3. Written(c, Report("VERSION"))
    BY <1>2, <2>1, Tails
  <2>4. out'[c] = <<>>
    BY <2>1, <2>3, Tails, LoadFacts DEF Written
  <2>5. Held(c, NoFix)'
    BY <2>2, <2>3, <2>4, WrittenPlain, NothingHeld, ReportFacts
  <2> QED
    BY <1>1, <2>1, <2>3, <2>5, WriteGoesOn, ReportFacts
<1>5. CASE conn[c] = "loop"
  <2>1. last[c].class # "none"
    BY <1>1, <1>5 DEF HandlerInv
  <2>2. PICK f \in Fix : Held(c, f) /\ (HasFix(f) => f.time >= newest[c] /\ f.time <= fixes)
    BY <1>1, <1>5 DEF HandlerInv
  <2>3. CASE \E k \in {"VERSION", "DEVICES"} : out[c] = <<Report(k)>> /\ AtRest(c)
    <3>1. PICK k \in {"VERSION", "DEVICES"} : out[c] = <<Report(k)>> /\ AtRest(c)
      BY <2>3
    <3>2. Written(c, Report(k)) /\ out'[c] = <<>>
      BY <1>2, <3>1, Tails, LoadFacts DEF Written
    <3>3. Held(c, NoFix)'
      BY <3>1, <3>2, WrittenPlain, NothingHeld, ReportFacts DEF AtRest
    <3> QED
      BY <1>1, <2>1, <3>1, <3>2, <3>3, WriteGoesOn, ReportFacts DEF AtRest
  <2>4. CASE out[c] = <<Loaded("POLL", f)>> /\ AtRest(c)
    <3>1. Written(c, Loaded("POLL", f)) /\ out'[c] = <<>>
      BY <1>2, <2>4, Tails, LoadFacts DEF Written
    <3>2. Held(c, NoFix)'
      BY <2>4, <3>1, WrittenPlain, NothingHeld, ReportFacts DEF AtRest
    <3> QED
      BY <1>1, <2>1, <2>2, <2>4, <3>1, <3>2, WriteGoesOn, ReportFacts DEF AtRest
  <2>5. CASE out[c] = <<Loaded("TPV", f), Report("SKY")>> /\ AtRest(c) /\ told[c]
    <3>1. Written(c, Loaded("TPV", f)) /\ out'[c] = <<Report("SKY")>>
      BY <1>2, <2>5, Tails, LoadFacts, ReportFacts DEF Written
    <3>2. Held(c, NoFix)'
      <4>1. last'[c].class = "TPV" /\ told'[c] = watching'[c]
        BY <2>5, <3>1, WrittenPlain, ReportFacts DEF AtRest
      <4> QED
        BY <3>1, <4>1 DEF Held
    <3> QED
      BY <1>1, <2>1, <2>2, <2>5, <3>1, <3>2, WriteGoesOn, ReportFacts DEF AtRest
  <2>6. CASE out[c] = <<Report("SKY")>> /\ last[c].class = "TPV" /\ told[c] = watching[c]
    <3>1. Written(c, Report("SKY")) /\ out'[c] = <<>>
      BY <1>2, <2>6, Tails, LoadFacts DEF Written
    <3>2. Held(c, NoFix)'
      BY <2>6, <3>1, WrittenPlain, NothingHeld, ReportFacts
    <3> QED
      BY <1>1, <2>6, <3>1, <3>2, WriteGoesOn, ReportFacts
  <2>7. CASE out[c] = <<Report("DEVICES"), WatchReport(TRUE), Report("TPV"), Report("SKY")>>
             /\ last[c].class # "TPV" /\ watching[c]
    <3>0. Written(c, Report("DEVICES"))
      BY <1>2, <2>7, Tails
    <3>1. out'[c] = <<WatchReport(TRUE), Report("TPV"), Report("SKY")>>
      <4>0. PICK w : w = WatchReport(TRUE)
        OBVIOUS
      <4>3. out[c] = <<Report("DEVICES"), w, Report("TPV"), Report("SKY")>>
        BY <2>7, <4>0
      <4>4. Tail(out[c]) = <<w, Report("TPV"), Report("SKY")>>
        BY <4>3, Tails
      <4>1. Tail(out[c]) = <<WatchReport(TRUE), Report("TPV"), Report("SKY")>>
        BY <4>0, <4>4
      <4>2. Load(Tail(out[c])) = Tail(out[c])
        BY <4>1, LoadFacts
      <4> QED
        BY <3>0, <4>1, <4>2 DEF Written
    <3>2. last'[c].class = "DEVICES" /\ watching'[c] = watching[c]
      BY <3>0, WrittenPlain, ReportFacts
    <3>3. Held(c, NoFix)'
      BY <2>7, <3>1, <3>2 DEF Held
    <3> QED
      BY <1>1, <2>1, <2>7, <3>0, <3>3, WriteGoesOn, ReportFacts
  <2>8. CASE out[c] = <<WatchReport(TRUE), Report("TPV"), Report("SKY")>>
             /\ last[c].class = "DEVICES" /\ watching[c]
    <3>1. /\ Written(c, WatchReport(TRUE))
          /\ out'[c] = <<Loaded("TPV", cur), Report("SKY")>>
      BY <1>2, <2>8, Tails, LoadFacts DEF Written
    <3>2. told'[c] = TRUE /\ watching'[c] = watching[c] /\ newest'[c] = newest[c]
          /\ last'[c].class = "WATCH"
      BY <3>1, ReportFacts DEF Written
    <3>5. PICK g \in Fix : g = cur
      BY <1>1
    <3>3. Held(c, g)'
      BY <2>8, <3>1, <3>2, <3>5 DEF Held, AtRest
    <3>4. HasFix(g) => g.time >= newest'[c] /\ g.time <= fixes
      BY <1>1, <3>2, <3>5 DEF IInv, CurInv, HandlerInv, Never
    <3> QED
      <4>1. WatchReport(TRUE).class = "WATCH" /\ ~HasFix(WatchReport(TRUE).fix)
        BY ReportFacts
      <4> QED
        BY <1>1, <2>8, <3>1, <3>3, <3>4, <4>1, WriteGoesOn
  <2>9. CASE out[c] = <<Report("DEVICES"), WatchReport(FALSE)>>
             /\ last[c].class # "TPV" /\ ~watching[c]
    <3>0. Written(c, Report("DEVICES"))
      BY <1>2, <2>9, Tails
    <3>1. out'[c] = <<WatchReport(FALSE)>>
      <4>0. PICK w : w = WatchReport(FALSE)
        OBVIOUS
      <4>3. out[c] = <<Report("DEVICES"), w>>
        BY <2>9, <4>0
      <4>4. Tail(out[c]) = <<w>>
        BY <4>3, Tails
      <4>1. Tail(out[c]) = <<WatchReport(FALSE)>>
        BY <4>0, <4>4
      <4>2. Load(Tail(out[c])) = Tail(out[c])
        BY <4>1, LoadFacts
      <4> QED
        BY <3>0, <4>1, <4>2 DEF Written
    <3>2. last'[c].class = "DEVICES" /\ watching'[c] = watching[c]
      BY <3>0, WrittenPlain, ReportFacts
    <3>3. Held(c, NoFix)'
      BY <2>9, <3>1, <3>2 DEF Held
    <3> QED
      BY <1>1, <2>1, <2>9, <3>0, <3>3, WriteGoesOn, ReportFacts
  <2>10. CASE out[c] = <<WatchReport(FALSE)>> /\ last[c].class = "DEVICES" /\ ~watching[c]
    <3>1. Written(c, WatchReport(FALSE)) /\ out'[c] = <<>>
      BY <1>2, <2>10, Tails, LoadFacts DEF Written
    <3>2. told'[c] = FALSE /\ watching'[c] = FALSE /\ last'[c].class = "WATCH"
      BY <1>1, <2>10, <3>1, ReportFacts DEF Written
    <3>3. Held(c, NoFix)'
      BY <3>1, <3>2 DEF Held, AtRest
    <3> QED
      <4>1. WatchReport(FALSE).class = "WATCH" /\ ~HasFix(WatchReport(FALSE).fix) /\ ~HasFix(NoFix)
        BY ReportFacts
      <4> QED
        BY <1>1, <2>10, <3>1, <3>3, <4>1, WriteGoesOn
  <2> QED
    BY <1>3, <2>2, <2>3, <2>4, <2>5, <2>6, <2>7, <2>8, <2>9, <2>10 DEF Held
<1> QED
  BY <1>3, <1>4, <1>5

-----------------------------------------------------------------------------
(* What one handler begins. *)

\* A handler in its select has said everything.
LEMMA SelectRest ==
  ASSUME IInv, NEW c \in Clients, InSelect(c)
  PROVE  last[c].class \notin {"none", "TPV"} /\ told[c] = watching[c]
<1>1. HandlerInv(c) /\ conn[c] = "loop" /\ out[c] = <<>>
  BY DEF IInv, InSelect
<1>2. PICK f \in Fix : Held(c, f)
  BY <1>1 DEF HandlerInv
<1>3. AtRest(c)
  BY <1>1, <1>2, Tails DEF Held
<1> QED
  BY <1>1, <1>3 DEF HandlerInv, AtRest

LEMMA BeginKeeps ==
  ASSUME IInv, NEW c \in Clients, InSelect(c), conn'[c] = "loop", last'[c] = last[c],
         told'[c] = told[c], newest'[c] = newest[c], fixes' = fixes,
         NEW g \in Fix, Held(c, g)', HasFix(g) => g = cur
  PROVE  HandlerInv(c)'
<1>1. HandlerInv(c) /\ fixes \in Nat /\ newest[c] \in Nat \cup {Never}
  BY DEF IInv, TypeOK
<1>2. HasFix(g) => g.time >= newest'[c] /\ g.time <= fixes'
  BY <1>1 DEF IInv, CurInv, HandlerInv, Never
<1> QED
  BY <1>1, <1>2, SelectRest DEF HandlerInv

LEMMA CmdKeeps ==
  ASSUME IInv, NEW c \in Clients, HandleCmd(c) PROVE HandlerInv(c)'
<1>1. /\ InSelect(c) /\ conn'[c] = "loop" /\ last'[c] = last[c] /\ told'[c] = told[c]
      /\ newest'[c] = newest[c] /\ fixes' = fixes
  BY DEF HandleCmd, InSelect, history, position
<1>2. PICK cmd \in Commands \ {"overlong"} :
        watching'[c] = Enables(cmd, watching[c]) /\ out'[c] = Load(Replies(cmd))
  BY DEF HandleCmd, IInv, TypeOK
<1>3. last[c].class \notin {"none", "TPV"} /\ told[c] = watching[c]
  BY <1>1, SelectRest
<1>4. PICK g \in Fix : g = cur
  BY DEF IInv, TypeOK
<1>5. CASE cmd = "?WATCH"
  <2>1. PICK w : w = WatchReport(TRUE)
    OBVIOUS
  <2>2. Replies("?WATCH") = <<Report("DEVICES"), w, Report("TPV"), Report("SKY")>>
    BY <2>1, Cats DEF Replies, SendFix
  <2>3. Load(<<Report("DEVICES"), w, Report("TPV"), Report("SKY")>>)
          = <<Report("DEVICES"), w, Report("TPV"), Report("SKY")>>
    BY Tails, LoadFacts, ReportFacts
  <2>4. out'[c] = <<Report("DEVICES"), WatchReport(TRUE), Report("TPV"), Report("SKY")>>
    BY <1>2, <1>5, <2>1, <2>2, <2>3
  <2>5. watching'[c] = TRUE
    BY <1>2, <1>5 DEF Enables
  <2>6. Held(c, g)'
    BY <1>1, <1>3, <2>4, <2>5 DEF Held
  <2> QED
    BY <1>1, <1>4, <2>6, BeginKeeps
<1>6. CASE cmd = "?WATCH off"
  <2>1. PICK w : w = WatchReport(FALSE)
    OBVIOUS
  <2>2. Replies("?WATCH off") = <<Report("DEVICES"), w>>
    BY <2>1 DEF Replies
  <2>3. Load(<<Report("DEVICES"), w>>) = <<Report("DEVICES"), w>>
    BY Tails, LoadFacts, ReportFacts
  <2>4. out'[c] = <<Report("DEVICES"), WatchReport(FALSE)>>
    BY <1>2, <1>6, <2>1, <2>2, <2>3
  <2>5. watching'[c] = FALSE
    BY <1>2, <1>6 DEF Enables
  <2>6. Held(c, g)'
    BY <1>1, <1>3, <2>4, <2>5 DEF Held
  <2> QED
    BY <1>1, <1>4, <2>6, BeginKeeps
<1>7. CASE cmd \notin {"?WATCH", "?WATCH off"}
  <2>1. watching'[c] = watching[c]
    BY <1>2, <1>7 DEF Enables
  <2>2. AtRest(c)'
    BY <1>1, <1>3, <2>1 DEF AtRest
  <2>3. CASE cmd = "?POLL"
    <3>1. out'[c] = <<Loaded("POLL", g)>>
      BY <1>2, <1>4, <2>3, LoadFacts DEF Replies
    <3>2. Held(c, g)'
      BY <2>2, <3>1 DEF Held
    <3> QED
      BY <1>1, <1>4, <3>2, BeginKeeps
  <2>4. ASSUME NEW k \in {"VERSION", "DEVICES"}, Replies(cmd) = <<Report(k)>>
        PROVE  HandlerInv(c)'
    <3>1. Load(<<Report(k)>>) = <<Report(k)>>
      BY Tails, LoadFacts, ReportFacts
    <3>2. Held(c, g)'
      BY <1>2, <2>2, <2>4, <3>1 DEF Held
    <3> QED
      BY <1>1, <1>4, <3>2, BeginKeeps
  <2>5. CASE cmd \notin {"?POLL", "?VERSION", "?DEVICES"}
    <3>1. out'[c] = <<>>
      BY <1>2, <1>7, <2>5, LoadFacts DEF Replies
    <3>2. Held(c, g)'
      BY <2>2, <3>1 DEF Held
    <3> QED
      BY <1>1, <1>4, <3>2, BeginKeeps
  <2> QED
    BY <2>3, <2>4, <2>5 DEF Replies
<1> QED
  BY <1>5, <1>6, <1>7

LEMMA TickKeeps ==
  ASSUME IInv, NEW c \in Clients, HandleTick(c) PROVE HandlerInv(c)'
<1>1. /\ InSelect(c) /\ conn'[c] = "loop" /\ last'[c] = last[c] /\ told'[c] = told[c]
      /\ newest'[c] = newest[c] /\ fixes' = fixes /\ watching'[c] = watching[c]
  BY DEF HandleTick, InSelect, history, position
<1>2. out'[c] = IF watching[c] THEN Load(SendFix) ELSE <<>>
  BY DEF HandleTick, IInv, TypeOK
<1>3. last[c].class \notin {"none", "TPV"} /\ told[c] = watching[c]
  BY <1>1, SelectRest
<1>4. PICK g \in Fix : g = cur
  BY DEF IInv, TypeOK
<1>5. AtRest(c)'
  BY <1>1, <1>3 DEF AtRest
<1>6. CASE watching[c]
  <2>1. out'[c] = <<Loaded("TPV", g), Report("SKY")>>
    BY <1>2, <1>4, <1>6, LoadFacts DEF SendFix
  <2>2. Held(c, g)'
    BY <1>1, <1>3, <1>5, <1>6, <2>1 DEF Held
  <2> QED
    BY <1>1, <1>4, <2>2, BeginKeeps
<1>7. CASE ~watching[c]
  <2>1. Held(c, g)'
    BY <1>2, <1>5, <1>7 DEF Held
  <2> QED
    BY <1>1, <1>4, <2>1, BeginKeeps
<1> QED
  BY <1>6, <1>7

LEMMA ReturnKeeps ==
  ASSUME IInv, NEW c \in Clients, Return(c), last'[c] = last[c], newest'[c] = newest[c],
         fixes' = fixes
  PROVE  HandlerInv(c)'
<1>1. conn'[c] = "closed" /\ out'[c] = <<>>
  BY DEF Return, IInv, TypeOK
<1> QED
  BY <1>1 DEF IInv, HandlerInv

LEMMA AcceptKeeps ==
  ASSUME IInv, NEW c \in Clients, Accept(c) PROVE HandlerInv(c)'
<1>1. /\ conn'[c] = "greet" /\ out'[c] = <<Report("VERSION")>>
      /\ conn[c] = "none" /\ last'[c] = last[c] /\ told'[c] = told[c]
      /\ watching'[c] = watching[c] /\ newest'[c] = newest[c] /\ fixes' = fixes
  BY DEF Accept, IInv, TypeOK, history, position
<1> QED
  BY <1>1 DEF IInv, HandlerInv

-----------------------------------------------------------------------------
(* Every step. *)

Quiet(d) == UNCHANGED <<last[d], told[d], newest[d]>>

\* A step leaves the handler of d alone.
Spares(d) ==
  /\ conn'[d] = conn[d] /\ out'[d] = out[d] /\ watching'[d] = watching[d]
  /\ last'[d] = last[d] /\ told'[d] = told[d] /\ newest'[d] = newest[d]

GoesOn(d) == HandlerInv(d)' /\ (Session(d)!Send \/ Quiet(d))

LEMMA SparedGoesOn ==
  ASSUME IInv, NEW d \in Clients, Spares(d), fixes' \in Nat, fixes' >= fixes
  PROVE  GoesOn(d)
  BY FrameInv DEF Spares, GoesOn, Quiet

\* Steps that only one client's handler takes.
Handles(c) ==
  Accept(c) \/ WriteOK(c) \/ WriteError(c) \/ SeeDone(c) \/ SeeEOF(c) \/ HandleCmd(c)
  \/ HandleTick(c)

LEMMA OthersSpared ==
  ASSUME TypeOK, NEW c \in Clients, NEW d \in Clients, Handles(c), d # c
  PROVE  Spares(d) /\ fixes' = fixes
<1>1. CASE Accept(c)
  BY <1>1 DEF Accept, TypeOK, Spares, history, position
<1>2. CASE WriteOK(c)
  BY <1>2 DEF WriteOK, TypeOK, Spares, position
<1>3. CASE WriteError(c) \/ SeeDone(c) \/ SeeEOF(c)
  BY <1>3 DEF WriteError, SeeDone, SeeEOF, Return, TypeOK, Spares, history, position
<1>4. CASE HandleCmd(c)
  BY <1>4 DEF HandleCmd, TypeOK, Spares, history, position
<1>5. CASE HandleTick(c)
  BY <1>5 DEF HandleTick, TypeOK, Spares, history, position
<1> QED
  BY <1>1, <1>2, <1>3, <1>4, <1>5 DEF Handles

LEMMA HandlesGoesOn ==
  ASSUME IInv, NEW c \in Clients, Handles(c) PROVE GoesOn(c)
<1>1. CASE Accept(c)
  BY <1>1, AcceptKeeps DEF GoesOn, Quiet, Accept, history
<1>2. CASE WriteOK(c)
  BY <1>2, WriteKeeps DEF GoesOn
<1>3. CASE WriteError(c) \/ SeeDone(c) \/ SeeEOF(c)
  <2>1. Return(c) /\ UNCHANGED <<history, position>>
    BY <1>3 DEF WriteError, SeeDone, SeeEOF
  <2> QED
    BY <2>1, ReturnKeeps DEF GoesOn, Quiet, history, position
<1>4. CASE HandleCmd(c)
  BY <1>4, CmdKeeps DEF GoesOn, Quiet, HandleCmd, history
<1>5. CASE HandleTick(c)
  BY <1>5, TickKeeps DEF GoesOn, Quiet, HandleTick, history
<1> QED
  BY <1>1, <1>2, <1>3, <1>4, <1>5 DEF Handles

\* The rest of Next.
Elsewhere ==
  \/ \E c \in Clients : Client(c) \/ TickerFire(c) \/ Reader(c)
  \/ PublishFix \/ WithdrawFix \/ Cancel \/ AcceptFails \/ Serve \/ UNCHANGED vars

LEMMA NextCases ==
  ASSUME [Next]_vars PROVE (\E c \in Clients : Handles(c)) \/ Elsewhere
  BY DEF Next, Exited, Handler, Handles, Elsewhere

LEMMA ElsewhereSpares ==
  ASSUME IInv, Elsewhere
  PROVE  /\ UNCHANGED <<conn, out, watching, last, told, newest>>
         /\ fixes' \in Nat /\ fixes' >= fixes /\ CurInv'
<1>1. fixes \in Nat /\ CurInv
  BY GpsdServerAssumption DEF IInv, TypeOK
<1>2. CASE PublishFix
  BY <1>1, <1>2 DEF PublishFix, CurInv, NoFix, goroutines, history
<1>3. CASE WithdrawFix
  BY <1>1, <1>3, ReportFacts DEF WithdrawFix, CurInv, goroutines, history
<1>4. CASE ~PublishFix /\ ~WithdrawFix
  <2>1. UNCHANGED <<position, conn, out, watching, history>>
    BY <1>4 DEF Elsewhere, Client, Dial, SendLine, ReadReport, HangUp, TickerFire, Reader,
       ReadLine, ReadEnd, ReaderDone, Cancel, AcceptFails, Serve, CloseListener,
       AcceptClosed, ServeEnds, goroutines, vars
  <2> QED
    BY <1>1, <2>1 DEF position, history, CurInv
<1> QED
  BY <1>2, <1>3, <1>4

LEMMA StepGoesOn ==
  ASSUME IInv, [Next]_vars PROVE CurInv' /\ \A d \in Clients : GoesOn(d)
<1>1. CASE \E c \in Clients : Handles(c)
  <2>1. PICK c \in Clients : Handles(c)
    BY <1>1
  <2>2. UNCHANGED position
    BY <2>1 DEF Handles, Accept, WriteOK, WriteError, SeeDone, SeeEOF, HandleCmd, HandleTick
  <2>3. fixes \in Nat
    BY DEF IInv, TypeOK
  <2>4. ASSUME NEW d \in Clients, d # c PROVE GoesOn(d)
    <3>1. Spares(d) /\ fixes' = fixes
      BY <2>1, <2>4, OthersSpared DEF IInv
    <3> QED
      BY <2>3, <3>1, SparedGoesOn
  <2> QED
    BY <2>1, <2>2, <2>4, HandlesGoesOn DEF IInv, CurInv, position
<1>2. CASE Elsewhere
  <2>1. \A d \in Clients : Spares(d)
    BY <1>2, ElsewhereSpares DEF Spares
  <2> QED
    BY <1>2, <2>1, ElsewhereSpares, SparedGoesOn
<1> QED
  BY <1>1, <1>2, NextCases

-----------------------------------------------------------------------------
(* Types, step by step. *)

\* What the handlers hold is well formed.
LEMMA OutTypes ==
  ASSUME \A d \in Clients : HandlerInv(d)',
         conn' \in [Clients -> {"none", "greet", "loop", "closed"}]
  PROVE  \A d \in Clients :
           /\ out'[d] \in Seq(Reports) /\ Len(out'[d]) <= 4
           /\ conn'[d] \in {"none", "closed"} => out'[d] = <<>>
           /\ conn'[d] = "greet" => out'[d] = <<Report("VERSION")>>
<1> HIDE DEF Reports
<1>1. ASSUME NEW d \in Clients PROVE FewReports(out'[d])
  <2>1. CASE conn'[d] \in {"none", "closed"}
    BY <2>1 DEF HandlerInv, FewReports
  <2>2. CASE conn'[d] = "greet"
    BY <2>2, ReportTypes DEF HandlerInv, FewReports
  <2>3. CASE conn'[d] = "loop"
    <3>1. PICK f \in Fix : Held(d, f)'
      BY <2>3 DEF HandlerInv
    <3> QED
      BY <3>1, HeldFew
  <2> QED
    BY <2>1, <2>2, <2>3
<1> QED
  BY <1>1, FewType DEF HandlerInv

\* A published fix is a fix.
LEMMA CurType ==
  ASSUME TypeOK, [Next]_vars PROVE cur' \in Fix /\ fixes' \in 0..MaxFixes
<1>1. CASE PublishFix
  <2>1. fixes' = fixes + 1 /\ fixes \in 0..MaxFixes /\ fixes < MaxFixes
        /\ cur' = [NoFix EXCEPT !.mode = 2, !.time = fixes + 1, !.source = "wifi"]
    BY <1>1 DEF PublishFix, TypeOK
  <2>2. cur' = [mode |-> 2, time |-> fixes + 1, source |-> "wifi", aps |-> 0, cell |-> NoCell]
    BY <2>1 DEF NoFix
  <2> QED
    BY <2>1, <2>2, GpsdServerAssumption DEF Fix, ResolvedFix
<1>2. CASE WithdrawFix
  BY <1>2 DEF WithdrawFix, Fix, TypeOK
<1>3. CASE ~PublishFix /\ ~WithdrawFix
  <2>1. UNCHANGED position
    BY <1>3 DEF Next, Exited, Client, Dial, SendLine, ReadReport, HangUp, TickerFire, Reader,
       ReadLine, ReadEnd, ReaderDone, Cancel, AcceptFails, Serve, CloseListener,
       AcceptClosed, ServeEnds, vars, Handler, Accept, WriteOK, WriteError, SeeDone, SeeEOF,
       HandleCmd, HandleTick
  <2> QED
    BY <2>1 DEF position, TypeOK
<1> QED
  BY <1>1, <1>2, <1>3

\* The daemon and the clients.
ClientTypes ==
  /\ ctxDone \in BOOLEAN /\ listener \in {"open", "closed"}
  /\ serve \in {"accepting", "returned", "failed"}
  /\ peer \in [Clients -> {"away", "dialing", "connected", "closed"}]
  /\ inbox \in [Clients -> 0..InboxCap]
  /\ wire \in [Clients -> 0..WireCap]

LEMMA ClientTypesStep ==
  ASSUME TypeOK, [Next]_vars PROVE ClientTypes'
<1>1. ClientTypes
  BY DEF TypeOK, ClientTypes
<1>2. CASE UNCHANGED <<daemon, client>>
  BY <1>1, <1>2 DEF ClientTypes, daemon, client
<1>3. CASE UNCHANGED client /\ (Cancel \/ CloseListener \/ AcceptClosed \/ AcceptFails)
  BY <1>1, <1>3 DEF ClientTypes, client, Cancel, CloseListener, AcceptClosed, AcceptFails,
     ServeEnds
<1>4. ASSUME NEW c \in Clients, Dial(c) \/ HangUp(c) \/ Accept(c) PROVE ClientTypes'
  BY <1>1, <1>4 DEF ClientTypes, daemon, Dial, HangUp, Accept
<1>5. ASSUME NEW c \in Clients, ReadReport(c) PROVE ClientTypes'
  BY <1>1, <1>5, GpsdServerAssumption DEF ClientTypes, daemon, ReadReport
<1>6. ASSUME NEW c \in Clients, WriteOK(c) PROVE ClientTypes'
  BY <1>1, <1>6, GpsdServerAssumption DEF ClientTypes, daemon, WriteOK
<1>7. ASSUME NEW c \in Clients, SendLine(c) PROVE ClientTypes'
  BY <1>1, <1>7, GpsdServerAssumption DEF ClientTypes, SendLine, daemon
<1>8. ASSUME NEW c \in Clients, ReadLine(c) PROVE ClientTypes'
  BY <1>1, <1>8, GpsdServerAssumption DEF ClientTypes, ReadLine, daemon
<1> QED
  <2>1. ASSUME NEW c \in Clients, Client(c) PROVE ClientTypes'
    BY <1>4, <1>5, <1>7, <2>1 DEF Client
  <2>2. ASSUME NEW c \in Clients, Handler(c) \/ TickerFire(c) \/ Reader(c) PROVE ClientTypes'
    BY <1>2, <1>6, <1>8, <2>2 DEF Handler, WriteError, SeeDone, SeeEOF, HandleCmd,
       HandleTick, TickerFire, Reader, ReadEnd, ReaderDone
  <2>3. CASE PublishFix \/ WithdrawFix \/ UNCHANGED vars
    BY <1>2, <2>3 DEF PublishFix, WithdrawFix, vars
  <2>4. CASE Cancel \/ AcceptFails \/ Serve
    BY <1>3, <2>4 DEF Serve, Cancel, AcceptFails, AcceptClosed, CloseListener, ServeEnds
  <2> QED
    BY <1>4, <2>1, <2>2, <2>3, <2>4 DEF Next, Exited

\* The handlers and the readers.
HandlerTypes ==
  /\ conn \in [Clients -> {"none", "greet", "loop", "closed"}]
  /\ reader \in [Clients -> {"none", "read", "offer", "eof", "gone"}]
  /\ watching \in [Clients -> BOOLEAN] /\ tick \in [Clients -> BOOLEAN]
  /\ \A c \in Clients : reader[c] # "none" => conn[c] \in {"loop", "closed"}

LEMMA HandlerTypesStep ==
  ASSUME TypeOK, [Next]_vars PROVE HandlerTypes'
<1>1. HandlerTypes /\ \A c \in Clients : conn[c] = "none" => out[c] = <<>>
  BY DEF TypeOK, HandlerTypes
<1>2. CASE UNCHANGED goroutines
  BY <1>1, <1>2 DEF HandlerTypes, goroutines
<1>3. ASSUME NEW c \in Clients, Accept(c) PROVE HandlerTypes'
  BY <1>1, <1>3 DEF HandlerTypes, Accept
<1>4. ASSUME NEW c \in Clients, WriteOK(c) PROVE HandlerTypes'
  BY <1>1, <1>4 DEF HandlerTypes, WriteOK
<1>5. ASSUME NEW c \in Clients, Return(c), UNCHANGED <<reader, watching>>
      PROVE  HandlerTypes'
  BY <1>1, <1>5 DEF HandlerTypes, Return
<1>6. ASSUME NEW c \in Clients, HandleCmd(c) PROVE HandlerTypes'
  BY <1>1, <1>6 DEF HandlerTypes, HandleCmd, InSelect, Enables
<1>7. ASSUME NEW c \in Clients, HandleTick(c) \/ TickerFire(c) PROVE HandlerTypes'
  BY <1>1, <1>7 DEF HandlerTypes, HandleTick, TickerFire
<1>8. ASSUME NEW c \in Clients, Reader(c) PROVE HandlerTypes'
  BY <1>1, <1>8 DEF HandlerTypes, Reader, ReadLine, ReadEnd, ReaderDone
<1> QED
  <2>1. ASSUME NEW c \in Clients, Client(c) PROVE HandlerTypes'
    BY <1>2, <2>1 DEF Client, Dial, SendLine, ReadReport, HangUp
  <2>2. ASSUME NEW c \in Clients, Handler(c) PROVE HandlerTypes'
    BY <1>4, <1>5, <1>6, <1>7, <2>2 DEF Handler, WriteError, SeeDone, SeeEOF
  <2>3. CASE PublishFix \/ WithdrawFix \/ Cancel \/ AcceptFails \/ Serve \/ UNCHANGED vars
    BY <1>2, <2>3 DEF PublishFix, WithdrawFix, Cancel, AcceptFails, Serve, AcceptClosed,
       CloseListener, ServeEnds, vars
  <2> QED
    BY <1>3, <1>7, <1>8, <2>1, <2>2, <2>3 DEF Next, Exited

\* The reports: those that are held keep their place, one is written at a time.
LEMMA OutFunction ==
  ASSUME TypeOK, [Next]_vars
  PROVE  out' = out \/ \E c \in Clients : \E v : out' = [out EXCEPT ![c] = v]
<1>1. ASSUME NEW c \in Clients, Accept(c) \/ Handler(c) PROVE \E v : out' = [out EXCEPT ![c] = v]
  <2>1. CASE Accept(c)
    BY <2>1 DEF Accept
  <2>2. CASE WriteOK(c)
    BY <2>2 DEF WriteOK
  <2>3. CASE WriteError(c) \/ SeeDone(c) \/ SeeEOF(c)
    BY <2>3 DEF WriteError, SeeDone, SeeEOF, Return
  <2>4. CASE HandleCmd(c)
    BY <2>4 DEF HandleCmd
  <2>5. CASE HandleTick(c)
    BY <2>5 DEF HandleTick
  <2> QED
    BY <1>1, <2>1, <2>2, <2>3, <2>4, <2>5 DEF Handler
<1>2. CASE ~\E c \in Clients : Accept(c) \/ Handler(c)
  BY <1>2 DEF Next, Exited, Client, Dial, SendLine, ReadReport, HangUp, TickerFire, Reader,
     ReadLine, ReadEnd, ReaderDone, PublishFix, WithdrawFix, Cancel, AcceptFails, Serve,
     CloseListener, AcceptClosed, ServeEnds, goroutines, vars
<1> QED
  BY <1>1, <1>2

HistoryTypes ==
  /\ last \in [Clients -> Reports] /\ told \in [Clients -> BOOLEAN]
  /\ newest \in [Clients -> Nat \cup {Never}]

LEMMA HistoryTypesStep ==
  ASSUME TypeOK, [Next]_vars PROVE HistoryTypes'
<1>1. HistoryTypes
  BY DEF TypeOK, HistoryTypes
<1>2. CASE UNCHANGED history
  BY <1>1, <1>2 DEF HistoryTypes, history
<1>3. ASSUME NEW c \in Clients, WriteOK(c) PROVE HistoryTypes'
  <2>1. PICK r \in Reports : r = Head(out[c])
    BY <1>3, HeadTailProperties DEF TypeOK, WriteOK
  <2>2. r.enable \in BOOLEAN /\ r.fix \in Fix
    BY DEF Reports
  <2>3. HasFix(r.fix) => r.fix.time \in Nat
    BY <2>2, FixTime
  <2>4. /\ last' = [last EXCEPT ![c] = r]
        /\ told' = [told EXCEPT ![c] = IF r.class = "WATCH" THEN r.enable ELSE told[c]]
        /\ newest' = [newest EXCEPT ![c] = IF HasFix(r.fix) THEN r.fix.time ELSE newest[c]]
    BY <1>3, <2>1 DEF WriteOK
  <2> HIDE DEF Reports, Fix
  <2>5. last' \in [Clients -> Reports]
    BY <1>1, <2>4 DEF HistoryTypes
  <2>6. told' \in [Clients -> BOOLEAN]
    BY <1>1, <2>2, <2>4 DEF HistoryTypes
  <2>7. newest' \in [Clients -> Nat \cup {Never}]
    BY <1>1, <2>3, <2>4 DEF HistoryTypes
  <2> QED
    BY <2>5, <2>6, <2>7 DEF HistoryTypes
<1>4. CASE ~\E c \in Clients : WriteOK(c)
  <2>1. UNCHANGED history
    BY <1>4 DEF Next, Exited, Client, Dial, SendLine, ReadReport, HangUp, TickerFire, Reader,
       ReadLine, ReadEnd, ReaderDone, Cancel, AcceptFails, Serve, CloseListener,
       AcceptClosed, ServeEnds, PublishFix, WithdrawFix, vars, Handler, Accept, WriteError,
       SeeDone, SeeEOF, HandleCmd, HandleTick
  <2> QED
    BY <1>2, <2>1
<1> QED
  BY <1>3, <1>4

LEMMA StepInv == IInv /\ [Next]_vars => IInv'
<1> SUFFICES ASSUME IInv, [Next]_vars PROVE IInv'
  OBVIOUS
<1>1. TypeOK
  BY DEF IInv
<1>2. CurInv' /\ \A d \in Clients : HandlerInv(d)'
  BY StepGoesOn DEF GoesOn
<1>3. ClientTypes' /\ HandlerTypes' /\ HistoryTypes'
  BY <1>1, ClientTypesStep, HandlerTypesStep, HistoryTypesStep
<1>4. cur' \in Fix /\ fixes' \in 0..MaxFixes
  BY <1>1, CurType
<1>5. \A d \in Clients :
        /\ out'[d] \in Seq(Reports) /\ Len(out'[d]) <= 4
        /\ conn'[d] \in {"none", "closed"} => out'[d] = <<>>
        /\ conn'[d] = "greet" => out'[d] = <<Report("VERSION")>>
  BY <1>2, <1>3, OutTypes DEF HandlerTypes
<1>6. out' \in [Clients -> Seq(Reports)]
  <2> HIDE DEF Reports
  <2>1. out \in [Clients -> Seq(Reports)]
    BY <1>1 DEF TypeOK
  <2>2. CASE out' = out
    BY <2>1, <2>2
  <2>3. CASE \E c \in Clients : \E v : out' = [out EXCEPT ![c] = v]
    <3>1. PICK c \in Clients : \E w : out' = [out EXCEPT ![c] = w]
      BY <2>3
    <3>2. PICK v : out' = [out EXCEPT ![c] = v]
      BY <3>1
    <3>3. v \in Seq(Reports)
      BY <1>5, <2>1, <3>2
    <3> QED
      BY <2>1, <3>2, <3>3
  <2> QED
    BY <1>1, <2>2, <2>3, OutFunction
<1>7. TypeOK'
  BY <1>3, <1>4, <1>5, <1>6 DEF TypeOK, ClientTypes, HandlerTypes, HistoryTypes
<1> QED
  BY <1>2, <1>7 DEF IInv

-----------------------------------------------------------------------------
(* Theorems. *)

\* Every variable of the server keeps its type, and no handler ever owes a client more
\* than four reports (handleConn, handleCmd).
THEOREM TypeCorrect == Spec => []TypeOK
<1>1. IInv => TypeOK
  BY DEF IInv
<1> QED
  BY <1>1, InitInv, StepInv, PTL DEF Spec

\* A handler in its select has told the client whether it watches (handleCmd).
THEOREM SwitchTold == Spec => []WatchingTold
<1>1. IInv => WatchingTold
  BY SelectRest DEF WatchingTold
<1> QED
  BY <1>1, InitInv, StepInv, PTL DEF Spec

\* Every connection's reports are a session, for any number of clients and commands
\* (handleConn, handleCmd, sendFix).
THEOREM SessionsImplemented == Spec => Sessions
<1>1. Init => \A c \in Clients : Session(c)!SessionInit
  BY DEF Init, Session!SessionInit, Silence, Session!Silence, NoFix, Session!NoFix, Never,
     Session!Never
<1>2. IInv /\ [Next]_vars =>
        [\A c \in Clients : [Session(c)!Send]_<<last[c], told[c], newest[c]>>]_history
  <2> SUFFICES ASSUME IInv, [Next]_vars, NEW c \in Clients
               PROVE  [Session(c)!Send]_<<last[c], told[c], newest[c]>>
    OBVIOUS
  <2>1. GoesOn(c)
    BY StepGoesOn
  <2> QED
    BY <2>1 DEF GoesOn, Quiet
<1> QED
  BY <1>1, <1>2, InitInv, StepInv, PTL DEF Spec, Sessions

=============================================================================
