---------------------------- MODULE ConfigProofs ----------------------------
(***************************************************************************)
(* Theorems of Config, for all numbers, texts and lengths.  IInv adds to   *)
(* ConfigInv that the value in the RAM is one of those that the flash may  *)
(* hold, and how far flash, RAM and strip agree at each step.              *)
(***************************************************************************)
EXTENDS Config, TLAPS

RamAllowed ==
  pc # "restart" => \A k \in Keys : Unread(k) \/ ram[k] \in allowed[k]

Clean ==
  "store" \notin faults /\ pc # "restart" =>
    /\ \A k \in Keys : k \in dirty \/ Unread(k) \/ nvs[k] = ram[k]
    /\ pc \notin {"set", "commit"} => pending = NonePending
    /\ pc = "set" => \A j \in 1..3 : pending[Order[j]] = IF j < idx THEN ram[Order[j]] ELSE Absent
    /\ pc = "commit" => \A k \in Keys : pending[k] = ram[k]
    /\ pc = "answer" => dirty = {}

Forced ==
  task = "httpd" =>
    /\ (strip = ram["numleds"] /\ numleds = strip) \/ (strip = 0 /\ "strip" \in faults)
    /\ period = ram["cycle"] \/ (pc \in {"attr", "decoded"} /\ "cycle" \in dirty)

IInv == ConfigInv /\ SurvivesPowerLoss /\ RamAllowed /\ Clean /\ Forced

-----------------------------------------------------------------------------
(* The three keys, and what may be stored under them.                      *)

LEMMA OrderFacts ==
  /\ Len(Order) = 3
  /\ Order[1] = "numleds" /\ Order[2] = "cycle" /\ Order[3] = "name"
BY DEF Order

LEMMA KeyFacts ==
  /\ \A j \in 1..3 : Order[j] \in Keys
  /\ \A k \in Keys : \E j \in 1..3 : Order[j] = k
  /\ \A i, j \in 1..3 : Order[i] = Order[j] => i = j
  /\ Initial \in [Keys -> Values] /\ Blank \in [Keys -> Values] /\ NonePending \in [Keys -> Values]
  /\ \A k \in Keys : /\ Initial[k] \in Legal(k)
                     /\ Blank[k] \in Legal(k) \cup {Absent}
                     /\ NonePending[k] = Absent
                     /\ Absent \notin Legal(k)
                     /\ Legal(k) \subseteq Values
                     /\ k # "numleds" => Legal(k) = Asked(k)
  /\ Legal("numleds") \subseteq LedCounts /\ Legal("cycle") = Cycles
  /\ Blank["name"] # Absent
<1> USE ConfigAssumption, OrderFacts
<1>1. \A j \in 1..3 : Order[j] \in Keys
  BY DEF Keys
<1>2. \A k \in Keys : \E j \in 1..3 : Order[j] = k
  BY DEF Keys
<1>3. \A i, j \in 1..3 : Order[i] = Order[j] => i = j
  OBVIOUS
<1>4. Legal("numleds") \subseteq LedCounts /\ Legal("cycle") = Cycles
      /\ Legal("name") = Names \cup {NoText} /\ 60 \in Legal("numleds")
  BY DEF Legal, Asked, InRange
<1>5. Initial \in [Keys -> Values] /\ Blank \in [Keys -> Values] /\ NonePending \in [Keys -> Values]
  BY DEF Initial, Blank, NonePending, Keys, Values
<1>6. ASSUME NEW k \in Keys
      PROVE  /\ Initial[k] \in Legal(k)
             /\ Blank[k] \in Legal(k) \cup {Absent}
             /\ NonePending[k] = Absent
             /\ Absent \notin Legal(k)
             /\ Legal(k) \subseteq Values
  BY <1>4 DEF Initial, Blank, NonePending, Keys, Values
<1>7. \A k \in Keys : k # "numleds" => Legal(k) = Asked(k)
  BY DEF Legal
<1>8. Blank["name"] # Absent
  BY DEF Blank
<1> QED BY <1>1, <1>2, <1>3, <1>4, <1>5, <1>6, <1>7, <1>8

LEMMA InitEstablishes == Init => IInv
<1> SUFFICES ASSUME Init PROVE IInv
  OBVIOUS
<1> USE KeyFacts, OrderFacts, ConfigAssumption DEF Init
<1>1. Kinds
  <2>1. \A k \in Keys : allowed[k] = {Blank[k]}
    OBVIOUS
  <2>2. allowed \in [Keys -> SUBSET Values]
    OBVIOUS
  <2> QED BY <2>1, <2>2 DEF Kinds, NoBody
<1>2. Control
  BY DEF Control
<1>3. SurvivesPowerLoss
  BY DEF SurvivesPowerLoss
<1>4. RamAllowed /\ Clean /\ Forced
  BY DEF RamAllowed, Clean, Forced, Unread
<1> QED BY <1>1, <1>2, <1>3, <1>4 DEF IInv, ConfigInv

-----------------------------------------------------------------------------
(* Every step preserves the invariant, part by part.                       *)

LEMMA KindsKept == ConfigInv /\ Next => Kinds'
<1> SUFFICES ASSUME ConfigInv, Next PROVE Kinds'
  OBVIOUS
<1> USE KeyFacts, OrderFacts, ConfigAssumption DEF ConfigInv
<1>1. ASSUME ReadFound PROVE Kinds'
  BY <1>1 DEF ReadFound, NextKey, Kinds, Control, Unread, flashVars, forceVars, bodyVars
<1>2. ASSUME ReadMissing PROVE Kinds'
  BY <1>2 DEF ReadMissing, NextKey, Kinds, Control, Unread, flashVars, forceVars, bodyVars
<1>3. ASSUME ReadFails PROVE Kinds'
  BY <1>3 DEF ReadFails, Kinds, Control, Unread, flashVars, forceVars, bodyVars
<1>4. ASSUME LoadEnds \/ OpenStore \/ OpenFails \/ CommitFails PROVE Kinds'
  BY <1>4 DEF LoadEnds, OpenStore, OpenFails, CommitFails, StoreFailed, Kinds, Control, Unread, flashVars, forceVars, bodyVars
<1>5. ASSUME Apply PROVE Kinds'
  BY <1>5 DEF Apply, Kinds, Control, Unread, InRange, flashVars, forceVars, bodyVars
<1>6. ASSUME SetValue PROVE Kinds'
  BY <1>6 DEF SetValue, NextKey, Kinds, Control, Unread, flashVars, forceVars, bodyVars
<1>7. ASSUME SetFails PROVE Kinds'
  BY <1>7 DEF SetFails, NextKey, Kinds, Control, Unread, flashVars, forceVars, bodyVars
<1>8. ASSUME Commit PROVE Kinds'
  BY <1>8 DEF Commit, Written, Kinds, Control, Unread, flashVars, forceVars, bodyVars
<1>9. ASSUME Post \/ Receive \/ ReceiveFails PROVE Kinds'
  <2>1. CASE Post
    BY <2>1 DEF Post, NoBody, Kinds, Control, Unread, flashVars, forceVars, bodyVars
  <2>2. CASE Receive
    BY <2>2, SMTT(15) DEF Receive, Kinds, Control, Unread, flashVars, forceVars, bodyVars
  <2>3. CASE ReceiveFails
    BY <2>3 DEF ReceiveFails, NoBody, Kinds, Control, Unread, flashVars, forceVars, bodyVars
  <2> QED BY <1>9, <2>1, <2>2, <2>3
<1>10. ASSUME Decode \/ AttributeSame \/ AttributeInvalid \/ NoMemoryForPixels \/ DecodeEnds PROVE Kinds'
  BY <1>10 DEF Decode, AttributeSame, AttributeInvalid, NoMemoryForPixels, DecodeEnds, NextKey, NoBody, Kinds, Control, Unread, flashVars, forceVars, bodyVars
<1>11. ASSUME AttributeChanges PROVE Kinds'
  BY <1>11 DEF AttributeChanges, Change, NextKey, Kinds, Control, Unread, flashVars, forceVars, bodyVars
<1>12. ASSUME NumledsChanges PROVE Kinds'
  BY <1>12 DEF NumledsChanges, Change, NextKey, Legal, Kinds, Control, Unread, flashVars, forceVars, bodyVars
<1>13. ASSUME Answer PROVE Kinds'
  BY <1>13 DEF Answer, Kinds, Control, Unread, flashVars, forceVars, bodyVars
<1>14. ASSUME TabulaRasa PROVE Kinds'
  BY <1>14 DEF TabulaRasa, Kinds, Control, Unread, flashVars, forceVars, bodyVars
<1>15. ASSUME Reboot PROVE Kinds'
  BY <1>15 DEF Reboot, Written, NoBody, Kinds, Control, Unread, flashVars, forceVars, bodyVars
<1> QED BY <1>1, <1>2, <1>3, <1>4, <1>5, <1>6, <1>7, <1>8, <1>9, <1>10, <1>11, <1>12, <1>13, <1>14, <1>15 DEF Next

LEMMA ControlKept == ConfigInv /\ Next => Control'
<1> SUFFICES ASSUME ConfigInv, Next PROVE Control'
  OBVIOUS
<1> USE OrderFacts DEF ConfigInv, Control, Kinds
<1>1. ASSUME ReadFound \/ ReadMissing \/ ReadFails \/ LoadEnds PROVE Control'
  BY <1>1 DEF ReadFound, ReadMissing, ReadFails, LoadEnds, NextKey, flashVars
<1>2. ASSUME Apply \/ OpenStore \/ OpenFails \/ SetValue \/ SetFails PROVE Control'
  BY <1>2 DEF Apply, OpenStore, OpenFails, SetValue, SetFails, NextKey, StoreFailed, flashVars
<1>3. ASSUME Commit \/ CommitFails \/ Post \/ Receive \/ ReceiveFails PROVE Control'
  BY <1>3 DEF Commit, CommitFails, Post, Receive, ReceiveFails, StoreFailed, flashVars
<1>4. ASSUME Decode \/ AttributeSame \/ AttributeInvalid \/ AttributeChanges PROVE Control'
  BY <1>4 DEF Decode, AttributeSame, AttributeInvalid, AttributeChanges, Change, NextKey, flashVars
<1>5. ASSUME NumledsChanges \/ NoMemoryForPixels \/ DecodeEnds \/ Answer PROVE Control'
  BY <1>5 DEF NumledsChanges, NoMemoryForPixels, DecodeEnds, Answer, Change, NextKey, flashVars
<1>6. ASSUME TabulaRasa \/ Reboot PROVE Control'
  BY <1>6 DEF TabulaRasa, Reboot
<1> QED BY <1>1, <1>2, <1>3, <1>4, <1>5, <1>6 DEF Next

LEMMA AllowedKept == IInv /\ Next => SurvivesPowerLoss' /\ RamAllowed'
<1> SUFFICES ASSUME IInv, Next PROVE SurvivesPowerLoss' /\ RamAllowed'
  OBVIOUS
<1> USE KeyFacts, OrderFacts DEF IInv, ConfigInv, Kinds, Control, SurvivesPowerLoss, RamAllowed, Unread
<1>1. ASSUME ReadFound PROVE SurvivesPowerLoss' /\ RamAllowed'
  BY <1>1 DEF ReadFound, NextKey, flashVars
<1>2. ASSUME ReadMissing PROVE SurvivesPowerLoss' /\ RamAllowed'
  BY <1>2 DEF ReadMissing, NextKey, flashVars
<1>3. ASSUME ReadFails PROVE SurvivesPowerLoss' /\ RamAllowed'
  BY <1>3 DEF ReadFails, flashVars
<1>4. ASSUME LoadEnds \/ Apply \/ OpenStore \/ OpenFails \/ CommitFails
      PROVE SurvivesPowerLoss' /\ RamAllowed'
  BY <1>4 DEF LoadEnds, Apply, OpenStore, OpenFails, CommitFails, StoreFailed, flashVars
<1>5. ASSUME SetValue \/ SetFails PROVE SurvivesPowerLoss' /\ RamAllowed'
  BY <1>5 DEF SetValue, SetFails, NextKey, flashVars
<1>6. ASSUME Commit PROVE SurvivesPowerLoss' /\ RamAllowed'
  BY <1>6 DEF Commit, Written, flashVars
<1>7. ASSUME Post \/ Receive \/ ReceiveFails \/ Decode \/ AttributeSame \/ AttributeInvalid
      PROVE SurvivesPowerLoss' /\ RamAllowed'
  BY <1>7 DEF Post, Receive, ReceiveFails, Decode, AttributeSame, AttributeInvalid, NextKey, flashVars
<1>8. ASSUME AttributeChanges \/ NumledsChanges PROVE SurvivesPowerLoss' /\ RamAllowed'
  BY <1>8 DEF AttributeChanges, NumledsChanges, Change, NextKey, flashVars
<1>9. ASSUME NoMemoryForPixels \/ DecodeEnds PROVE SurvivesPowerLoss' /\ RamAllowed'
  BY <1>9 DEF NoMemoryForPixels, DecodeEnds, flashVars
<1>10. ASSUME Answer PROVE SurvivesPowerLoss' /\ RamAllowed'
  BY <1>10 DEF Answer, Clean, flashVars
<1>11. ASSUME TabulaRasa PROVE SurvivesPowerLoss' /\ RamAllowed'
  BY <1>11 DEF TabulaRasa
<1>12. ASSUME Reboot PROVE SurvivesPowerLoss' /\ RamAllowed'
  BY <1>12 DEF Reboot, Written
<1> QED BY <1>1, <1>2, <1>3, <1>4, <1>5, <1>6, <1>7, <1>8, <1>9, <1>10, <1>11, <1>12 DEF Next

LEMMA CleanKept == IInv /\ Next => Clean'
<1> SUFFICES ASSUME IInv, Next PROVE Clean'
  OBVIOUS
<1> USE KeyFacts, OrderFacts DEF IInv, ConfigInv, Kinds, Control, Clean, Unread
<1>1. ASSUME ReadFound PROVE Clean'
  BY <1>1 DEF ReadFound, NextKey, flashVars
<1>2. ASSUME ReadMissing PROVE Clean'
  BY <1>2 DEF ReadMissing, NextKey, flashVars
<1>3. ASSUME ReadFails \/ OpenFails \/ SetFails \/ CommitFails PROVE Clean'
  BY <1>3 DEF ReadFails, OpenFails, SetFails, CommitFails, StoreFailed
<1>4. ASSUME LoadEnds \/ Apply \/ OpenStore PROVE Clean'
  BY <1>4 DEF LoadEnds, Apply, OpenStore, flashVars
<1>5. ASSUME SetValue PROVE Clean'
  BY <1>5 DEF SetValue, NextKey
<1>6. ASSUME Commit PROVE Clean'
  BY <1>6 DEF Commit, Written
<1>7. ASSUME Post \/ Receive \/ ReceiveFails \/ Decode \/ AttributeSame \/ AttributeInvalid PROVE Clean'
  BY <1>7 DEF Post, Receive, ReceiveFails, Decode, AttributeSame, AttributeInvalid, NextKey, flashVars
<1>8. ASSUME AttributeChanges \/ NumledsChanges PROVE Clean'
  BY <1>8 DEF AttributeChanges, NumledsChanges, Change, NextKey, flashVars
<1>9. ASSUME NoMemoryForPixels \/ DecodeEnds PROVE Clean'
  BY <1>9 DEF NoMemoryForPixels, DecodeEnds, flashVars
<1>10. ASSUME Answer PROVE Clean'
  BY <1>10 DEF Answer, flashVars
<1>11. ASSUME TabulaRasa PROVE Clean'
  BY <1>11 DEF TabulaRasa
<1>12. ASSUME Reboot PROVE Clean'
  BY <1>12 DEF Reboot
<1> QED BY <1>1, <1>2, <1>3, <1>4, <1>5, <1>6, <1>7, <1>8, <1>9, <1>10, <1>11, <1>12 DEF Next

LEMMA ForcedKept == IInv /\ Next => Forced'
<1> SUFFICES ASSUME IInv, Next PROVE Forced'
  OBVIOUS
<1> USE KeyFacts, OrderFacts DEF IInv, ConfigInv, Kinds, Control, Forced
<1>1. ASSUME ReadFound \/ ReadMissing \/ ReadFails \/ LoadEnds PROVE Forced'
  BY <1>1 DEF ReadFound, ReadMissing, ReadFails, LoadEnds, forceVars
<1>2. ASSUME Apply PROVE Forced'
  BY <1>2 DEF Apply, Legal, forceVars
<1>3. ASSUME OpenStore \/ OpenFails \/ SetValue \/ SetFails \/ Commit \/ CommitFails PROVE Forced'
  BY <1>3 DEF OpenStore, OpenFails, SetValue, SetFails, Commit, CommitFails, StoreFailed, NextKey, forceVars
<1>4. ASSUME Post \/ Receive \/ ReceiveFails \/ Decode \/ AttributeSame \/ AttributeInvalid PROVE Forced'
  BY <1>4 DEF Post, Receive, ReceiveFails, Decode, AttributeSame, AttributeInvalid, NextKey, forceVars
<1>5. ASSUME AttributeChanges \/ NumledsChanges PROVE Forced'
  BY <1>5 DEF AttributeChanges, NumledsChanges, Change, NextKey, Keys, forceVars
<1>6. ASSUME NoMemoryForPixels \/ DecodeEnds \/ Answer PROVE Forced'
  BY <1>6 DEF NoMemoryForPixels, DecodeEnds, Answer, forceVars
<1>7. ASSUME TabulaRasa \/ Reboot PROVE Forced'
  BY <1>7 DEF TabulaRasa, Reboot, forceVars
<1> QED BY <1>1, <1>2, <1>3, <1>4, <1>5, <1>6, <1>7 DEF Next

LEMMA StepKeeps == IInv /\ [Next]_vars => IInv'
<1> SUFFICES ASSUME IInv, [Next]_vars PROVE IInv'
  OBVIOUS
<1>1. CASE Next
  BY <1>1, KindsKept, ControlKept, AllowedKept, CleanKept, ForcedKept DEF IInv, ConfigInv
<1>2. CASE UNCHANGED vars
  BY <1>2 DEF vars, flashVars, forceVars, bodyVars, IInv, ConfigInv, Kinds, Control, Unread,
       SurvivesPowerLoss, RamAllowed, Clean, Forced
<1> QED BY <1>1, <1>2

-----------------------------------------------------------------------------

THEOREM InvariantHolds == Spec => []IInv
BY InitEstablishes, StepKeeps, PTL DEF Spec

(* The settings, the flash and the strip stay within their ranges, and     *)
(* uncommitted values belong to a failed store or to the one that runs.    *)
THEOREM ConfigSafe == Spec => []ConfigInv
<1>1. IInv => ConfigInv
  BY DEF IInv
<1> QED BY <1>1, InvariantHolds, PTL

(* A loss of power at any step leaves for each key a value that was in     *)
(* force, or asked for, or the initial one.                                *)
THEOREM PowerLossSurvived == Spec => []SurvivesPowerLoss
<1>1. IInv => SurvivesPowerLoss
  BY DEF IInv
<1> QED BY <1>1, InvariantHolds, PTL

(* Between two requests, and without a fault of the flash, flash and RAM   *)
(* are equal.                                                              *)
THEOREM AnswersStored == Spec => []AnsweredIsStored
<1>1. IInv => AnsweredIsStored
  BY DEF IInv, ConfigInv, Kinds, Control, Clean, Unread, AnsweredIsStored
<1> QED BY <1>1, InvariantHolds, PTL

(* Between two requests the settings are in force.                         *)
THEOREM InForce == Spec => []SettingsInForce
<1>1. IInv => SettingsInForce
  BY DEF IInv, ConfigInv, Control, Forced, SettingsInForce
<1> QED BY <1>1, InvariantHolds, PTL
=============================================================================
