-------------------------- MODULE MidiInputProofs ---------------------------
(***************************************************************************)
(* What one unsynchronized slot still guarantees, for both protocols and   *)
(* any number of messages: an undisturbed message is heard whole, and      *)
(* messages are heard once and in order.                                   *)
(***************************************************************************)
EXTENDS MidiInputBuffer, TLAPS

LEMMA LengthIsField == "length" \in Fields
BY DEF Fields

LEMMA TypeInit == Init => TypeOK
<1> SUFFICES ASSUME Init PROVE TypeOK
  OBVIOUS
<1>1. /\ sent = 0 /\ buf = Nothing /\ seen = Nothing /\ wtodo = {} /\ ptodo = {}
      /\ ppc = "idle" /\ fresh = 0 /\ heard = {} /\ before = <<0, 0>>
  BY DEF Init
<1>2. writing \in BOOLEAN /\ overlap \in BOOLEAN
  BY Zenon DEF Init
<1>3. Nothing \in [Fields -> 0 .. 0]
  BY DEF Nothing
<1> QED BY <1>1, <1>2, <1>3 DEF TypeOK

LEMMA TypeStep == TypeOK /\ [Next]_vars => TypeOK'
<1> SUFFICES ASSUME TypeOK, [Next]_vars PROVE TypeOK'
  OBVIOUS
<1> USE DEF TypeOK, writer, cycle
<1>1. CASE BeginMessage
  <2>1. sent' = sent + 1 /\ wtodo' = Fields /\ fresh' = 0 /\ UNCHANGED <<buf, cycle>>
    BY <1>1 DEF BeginMessage
  <2>2. writing' \in BOOLEAN /\ overlap' \in BOOLEAN /\ writing'
    BY <1>1, Zenon DEF BeginMessage
  <2>3. buf' \in [Fields -> 0 .. sent'] /\ seen' \in [Fields -> 0 .. sent']
    BY <2>1
  <2> QED BY <2>1, <2>2, <2>3
<1>2. CASE StoreField
  <2>1. PICK f \in wtodo : buf' = [buf EXCEPT ![f] = sent] /\ wtodo' = wtodo \ {f}
    BY <1>2 DEF StoreField
  <2> QED BY <1>2, <2>1 DEF StoreField
<1>3. CASE EndMessage
  <2>1. writing' \in BOOLEAN
    BY <1>3, Zenon DEF EndMessage
  <2> QED BY <1>3, <2>1 DEF EndMessage
<1>4. CASE BeginProcess
  <2>1. overlap' \in BOOLEAN
    BY <1>4, Zenon DEF BeginProcess
  <2>2. seen' \in [Fields -> 0 .. sent']
    BY <1>4 DEF BeginProcess, Nothing
  <2>3. before' \in Int \X Int
    BY <1>4 DEF BeginProcess
  <2> QED BY <1>4, <2>1, <2>2, <2>3 DEF BeginProcess
<1>5. CASE ReadField
  <2>1. PICK f \in ptodo : seen' = [seen EXCEPT ![f] = buf[f]] /\ ptodo' = ptodo \ {f}
    BY <1>5 DEF ReadField
  <2>2. buf[f] \in 0 .. sent
    BY <2>1
  <2> QED BY <1>5, <2>1, <2>2 DEF ReadField
<1>6. CASE EndProcess
  <2>1. seen["length"] \in 0 .. sent
    BY LengthIsField
  <2>2. {seen["length"]} \ {0} \subseteq 1 .. sent
    BY <2>1
  <2> QED BY <1>6, <2>2 DEF EndProcess
<1>7. CASE ClearField
  <2>1. PICK f \in ptodo : buf' = [buf EXCEPT ![f] = 0] /\ ptodo' = ptodo \ {f}
    BY <1>7 DEF ClearField
  <2> QED BY <1>7, <2>1 DEF ClearField
<1>8. CASE EndCycle
  BY <1>8 DEF EndCycle
<1>9. CASE UNCHANGED vars
  BY <1>9 DEF vars
<1> QED
  BY <1>1, <1>2, <1>3, <1>4, <1>5, <1>6, <1>7, <1>8, <1>9 DEF Next, CycleStep

(* The variables keep their types, whatever the threads do.                *)
THEOREM TypeCorrect == Spec => []TypeOK
<1> QED BY TypeInit, TypeStep, PTL DEF Spec
-----------------------------------------------------------------------------
(***************************************************************************)
(* A message in the slot: what is known of it from its first store to the  *)
(* end of the cycle that hears it.                                         *)
(***************************************************************************)
InSlot == \A f \in Fields : buf[f] = fresh

Undisturbed ==
  /\ writing /\ ~overlap => ppc = "idle" /\ \A f \in Fields \ wtodo : buf[f] = sent
  /\ writing => fresh = 0
  /\ fresh # 0 /\ ppc \in {"idle", "process"} => InSlot
  /\ fresh # 0 /\ ppc = "process" => \A f \in Fields \ ptodo : seen[f] = fresh
  /\ fresh # 0 /\ ppc = "clear" => \A f \in Fields : seen[f] = fresh

LEMMA UndisturbedStep == TypeOK /\ Undisturbed /\ [Next]_vars => Undisturbed'
<1> SUFFICES ASSUME TypeOK, Undisturbed, [Next]_vars PROVE Undisturbed'
  OBVIOUS
<1> USE DEF TypeOK, Undisturbed, InSlot, writer, cycle
<1>1. CASE BeginMessage
  BY <1>1 DEF BeginMessage
<1>2. CASE StoreField
  <2>1. PICK f \in wtodo : buf' = [buf EXCEPT ![f] = sent] /\ wtodo' = wtodo \ {f}
    BY <1>2 DEF StoreField
  <2> QED BY <1>2, <2>1 DEF StoreField
<1>3. CASE EndMessage
  BY <1>3 DEF EndMessage
<1>4. CASE BeginProcess
  BY <1>4 DEF BeginProcess
<1>5. CASE ReadField
  <2>1. PICK f \in ptodo : seen' = [seen EXCEPT ![f] = buf[f]] /\ ptodo' = ptodo \ {f}
    BY <1>5 DEF ReadField
  <2> QED BY <1>5, <2>1 DEF ReadField
<1>6. CASE EndProcess
  BY <1>6 DEF EndProcess
<1>7. CASE ClearField
  <2>1. PICK f \in ptodo : buf' = [buf EXCEPT ![f] = 0] /\ ptodo' = ptodo \ {f}
    BY <1>7 DEF ClearField
  <2> QED BY <1>7, <2>1 DEF ClearField
<1>8. CASE EndCycle
  BY <1>8 DEF EndCycle
<1>9. CASE UNCHANGED vars
  BY <1>9 DEF vars
<1> QED
  BY <1>1, <1>2, <1>3, <1>4, <1>5, <1>6, <1>7, <1>8, <1>9 DEF Next, CycleStep

(* A message between two cycles reaches the plugin in one piece.           *)
THEOREM UndisturbedReachesPlugin == Spec => []UndisturbedIsHeard
<1>1. Init => TypeOK /\ Undisturbed
  BY TypeInit DEF Init, Undisturbed
<1>2. (TypeOK /\ Undisturbed) /\ [Next]_vars => (TypeOK /\ Undisturbed)'
  BY TypeStep, UndisturbedStep
<1>3. Undisturbed => UndisturbedIsHeard
  BY DEF Undisturbed, UndisturbedIsHeard
<1> QED BY <1>1, <1>2, <1>3, PTL DEF Spec
-----------------------------------------------------------------------------
(***************************************************************************)
(* Order.  Only the length decides what is heard: it is stored once per    *)
(* message, and cleared after the message was heard and before the next    *)
(* process().                                                              *)
(***************************************************************************)
Empty(n) == n = 0

StoreIsNew ==
  writing /\ "length" \in wtodo =>
    /\ buf["length"] < sent /\ seen["length"] < sent
    /\ \A m \in heard : m < sent

SlotIsNew ==
  /\ ppc # "clear" => Empty(buf["length"]) \/ \A m \in heard : m < buf["length"]
  /\ ppc = "clear" /\ "length" \in ptodo =>
       Empty(buf["length"]) \/ \A m \in heard : m <= buf["length"]
  /\ ppc = "clear" /\ "length" \notin ptodo =>
       Empty(buf["length"]) \/ \A m \in heard : m < buf["length"]

ReadIsNew ==
  ppc = "process" =>
    /\ "length" \in ptodo => Empty(seen["length"])
    /\ Empty(seen["length"]) \/ \A m \in heard : m < seen["length"]
    /\ seen["length"] <= buf["length"]

Ordered == StoreIsNew /\ SlotIsNew /\ ReadIsNew

LEMMA OrderedStep == TypeOK /\ Ordered /\ [Next]_vars => Ordered'
<1> SUFFICES ASSUME TypeOK, Ordered, [Next]_vars PROVE Ordered'
  OBVIOUS
<1>0. /\ buf["length"] \in 0 .. sent /\ seen["length"] \in 0 .. sent
      /\ sent \in Nat /\ \A m \in heard : m \in 1 .. sent
  BY LengthIsField DEF TypeOK
<1> USE <1>0, LengthIsField DEF Ordered, StoreIsNew, SlotIsNew, ReadIsNew, Empty, writer, cycle
<1>1. CASE BeginMessage
  BY <1>1 DEF BeginMessage
<1>2. CASE StoreField
  <2>1. PICK f \in wtodo : buf' = [buf EXCEPT ![f] = sent] /\ wtodo' = wtodo \ {f}
    BY <1>2 DEF StoreField
  <2>2. CASE f = "length"
    <3>1. buf'["length"] = sent /\ "length" \notin wtodo'
      BY <2>1, <2>2 DEF TypeOK
    <3> QED BY <1>2, <2>1, <2>2, <3>1 DEF StoreField
  <2>3. CASE f # "length"
    <3>1. buf'["length"] = buf["length"]
      BY <2>1, <2>3 DEF TypeOK
    <3> QED BY <1>2, <2>1, <2>3, <3>1 DEF StoreField
  <2> QED BY <2>2, <2>3
<1>3. CASE EndMessage
  BY <1>3 DEF EndMessage
<1>4. CASE BeginProcess
  <2>1. seen'["length"] = 0
    BY <1>4 DEF BeginProcess, Nothing
  <2> QED BY <1>4, <2>1 DEF BeginProcess
<1>5. CASE ReadField
  <2>1. PICK f \in ptodo : seen' = [seen EXCEPT ![f] = buf[f]] /\ ptodo' = ptodo \ {f}
    BY <1>5 DEF ReadField
  <2>2. CASE f = "length"
    <3>1. seen'["length"] = buf["length"] /\ "length" \notin ptodo'
      BY <2>1, <2>2 DEF TypeOK
    <3> QED BY <1>5, <3>1 DEF ReadField
  <2>3. CASE f # "length"
    <3>1. seen'["length"] = seen["length"] /\ ("length" \in ptodo' <=> "length" \in ptodo)
      BY <2>1, <2>3 DEF TypeOK
    <3> QED BY <1>5, <3>1 DEF ReadField
  <2> QED BY <2>2, <2>3
<1>6. CASE EndProcess
  BY <1>6 DEF EndProcess
<1>7. CASE ClearField
  <2>1. PICK f \in ptodo : buf' = [buf EXCEPT ![f] = 0] /\ ptodo' = ptodo \ {f}
    BY <1>7 DEF ClearField
  <2>2. CASE f = "length"
    <3>1. buf'["length"] = 0 /\ "length" \notin ptodo'
      BY <2>1, <2>2 DEF TypeOK
    <3> QED BY <1>7, <3>1 DEF ClearField
  <2>3. CASE f # "length"
    <3>1. buf'["length"] = buf["length"] /\ ("length" \in ptodo' <=> "length" \in ptodo)
      BY <2>1, <2>3 DEF TypeOK
    <3> QED BY <1>7, <3>1 DEF ClearField
  <2> QED BY <2>2, <2>3
<1>8. CASE EndCycle
  BY <1>8 DEF EndCycle
<1>9. CASE UNCHANGED vars
  BY <1>9 DEF vars
<1> QED
  BY <1>1, <1>2, <1>3, <1>4, <1>5, <1>6, <1>7, <1>8, <1>9 DEF Next, CycleStep

LEMMA OrderedInit == Init => Ordered
<1> SUFFICES ASSUME Init PROVE Ordered
  OBVIOUS
<1>1. ~writing
  BY Zenon DEF Init
<1>2. buf["length"] = 0 /\ seen["length"] = 0 /\ ppc = "idle" /\ heard = {}
  BY LengthIsField DEF Init, Nothing
<1> QED BY <1>1, <1>2 DEF Ordered, StoreIsNew, SlotIsNew, ReadIsNew, Empty

(* No message is heard twice or after a later one.                         *)
THEOREM OnceInOrder == Spec => []HeardOnceInOrder
<1>1. Init => TypeOK /\ Ordered
  BY TypeInit, OrderedInit
<1>2. (TypeOK /\ Ordered) /\ [Next]_vars => (TypeOK /\ Ordered)'
  BY TypeStep, OrderedStep
<1>3. Ordered => HeardOnceInOrder
  BY DEF Ordered, ReadIsNew, Empty, HeardOnceInOrder
<1> QED BY <1>1, <1>2, <1>3, PTL DEF Spec
=============================================================================
