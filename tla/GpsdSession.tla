---------------------------- MODULE GpsdSession ----------------------------
(***************************************************************************)
(* What one client of geolocd's gpsd socket may rely on, seen from the     *)
(* reports it is sent: VERSION first; a TPV only while the last WATCH it   *)
(* was sent says enabled, and each TPV directly followed by its SKY; a     *)
(* WATCH directly preceded by DEVICES; and positions that never go back.   *)
(***************************************************************************)
EXTENDS FixData

VARIABLES last,   \* the last report sent, or Silence
          told,   \* the "enable" of the last WATCH sent
          newest  \* the time of the newest position sent

sessionVars == <<last, told, newest>>

Silence == [class |-> "none", enable |-> FALSE, fix |-> NoFix]

SessionInit == last = Silence /\ told = FALSE /\ newest = Never

\* A report may follow the last one.
Greeting == last'.class = "VERSION"
Plain    == last'.class \in {"VERSION", "DEVICES", "POLL"}

Follows ==
  \/ last = Silence /\ Greeting
  \/ last.class \notin {"none", "TPV"} /\ Plain
  \/ last.class = "DEVICES" /\ last'.class = "WATCH"
  \/ last.class \notin {"none", "TPV"} /\ told /\ last'.class = "TPV"
  \/ last.class = "TPV" /\ last'.class = "SKY"

\* A report that carries a position carries no older one than was sent before.
Position == /\ HasFix(last'.fix) => last'.fix.time >= newest
            /\ newest' = IF HasFix(last'.fix) THEN last'.fix.time ELSE newest

Send == /\ Follows
        /\ told' = IF last'.class = "WATCH" THEN last'.enable ELSE told
        /\ Position

SessionSpec == SessionInit /\ [][Send]_sessionVars
=============================================================================
