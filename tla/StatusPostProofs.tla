-------------------------- MODULE StatusPostProofs --------------------------
(***************************************************************************)
(* Theorems about StatusPost, for any number of calling goroutines, texts  *)
(* and outcomes.                                                           *)
(***************************************************************************)
EXTENDS StatusPost, FiniteSetTheorems, TLAPS

-----------------------------------------------------------------------------
(* The inductive invariant *)

Busy == {c \in Caller : caller[c].pc # "idle"}
Setting == {c \in Caller : caller[c].pc = "set"}

\* Every goroutine that has begun finds room for its text, and every editor
\* that was made has had a text or is about to get one.
CountInv ==
  /\ texts + Cardinality(Busy) <= MaxTexts
  /\ made <= texts + Cardinality(Setting)

\* Editors are not used again: the one a finalEdit stops is no longer the
\* job's, and one that is still to be made has no text.
EditorInv ==
  /\ current <= made
  /\ \A c \in Caller :
       /\ caller[c].ed <= made
       /\ caller[c].pc = "set" => caller[c].ed # 0
       /\ caller[c].pc = "stop" => caller[c].ed # 0 /\ caller[c].ed # current
  /\ \A e \in Editor :
       /\ e > made => pending[e] = 0
       /\ pending[e] <= texts /\ funcs[e] <= texts
       /\ funcs[e] > 0 => pending[e] # 0

StatusInv == TypeOK /\ CountInv /\ EditorInv /\ PendingHasTimer

-----------------------------------------------------------------------------
(* Lemmas about counting *)

Place == [pc : {"idle", "edit", "set", "stop", "update"}, ed : {0} \cup Editor, final : BOOLEAN]

LEMMA Bounds ==
  /\ IsFiniteSet(Caller) /\ Cardinality(Caller) \in Nat /\ MaxTexts \in Nat /\ MaxFinals \in Nat
  /\ Editor \subseteq Nat /\ \A n \in Nat : n # 0 /\ n <= MaxTexts + Cardinality(Caller) => n \in Editor
  /\ \A e \in Editor : e # 0
<1>1. IsFiniteSet(Caller) /\ Cardinality(Caller) \in Nat /\ MaxTexts \in Nat /\ MaxFinals \in Nat
  BY StatusAssumption, FS_CardinalityType
<1>2. QED
  BY <1>1 DEF Editor

LEMMA PlaceEditor ==
  ASSUME NEW x \in Place
  PROVE  x.ed \in Nat
<1>1. x.ed \in {0} \cup Editor
  BY DEF Place
<1>2. {0} \cup Editor \subseteq Nat
  BY Bounds
<1>3. QED
  BY <1>1, <1>2

LEMMA LargerOf ==
  ASSUME NEW m \in Nat, NEW n \in Nat
  PROVE  Max({m, n}) = IF m <= n THEN n ELSE m
  BY DEF Max

\* Two sets that differ in one element at most.
LEMMA CountStep ==
  ASSUME NEW S, NEW T, NEW x, IsFiniteSet(S), S \ {x} = T \ {x}
  PROVE  /\ Cardinality(S) \in Nat /\ Cardinality(T) \in Nat
         /\ x \in S /\ x \notin T => Cardinality(T) = Cardinality(S) - 1
         /\ x \notin S /\ x \in T => Cardinality(T) = Cardinality(S) + 1
         /\ (x \in S <=> x \in T) => Cardinality(T) = Cardinality(S)
<1>1. CASE x \in S <=> x \in T
  <2>1. S = T
    BY <1>1
  <2>2. QED
    BY <1>1, <2>1, FS_CardinalityType
<1>2. CASE x \in S /\ x \notin T
  <2>1. T = S \ {x}
    BY <1>2
  <2>2. IsFiniteSet(T) /\ Cardinality(T) = Cardinality(S) - 1
    BY <1>2, <2>1, FS_RemoveElement
  <2>3. QED
    BY <1>2, <2>2, FS_CardinalityType
<1>3. CASE x \notin S /\ x \in T
  <2>1. T = S \cup {x}
    BY <1>3
  <2>2. IsFiniteSet(T) /\ Cardinality(T) = Cardinality(S) + 1
    BY <1>3, <2>1, FS_AddElement
  <2>3. QED
    BY <1>3, <2>2, FS_CardinalityType
<1>4. QED
  BY <1>1, <1>2, <1>3

LEMMA Counts ==
  /\ IsFiniteSet(Busy) /\ IsFiniteSet(Setting)
  /\ Cardinality(Busy) \in Nat /\ Cardinality(Setting) \in Nat
  /\ Cardinality(Setting) <= Cardinality(Busy) /\ Cardinality(Setting) <= Cardinality(Caller)
<1>1. Busy \subseteq Caller /\ Setting \subseteq Busy /\ Setting \subseteq Caller
  BY DEF Busy, Setting
<1>2. IsFiniteSet(Busy) /\ IsFiniteSet(Setting)
  BY <1>1, Bounds, FS_Subset
<1>3. Cardinality(Setting) <= Cardinality(Busy) /\ Cardinality(Setting) <= Cardinality(Caller)
  BY <1>1, <1>2, Bounds, FS_Subset
<1>4. QED
  BY <1>2, <1>3, FS_CardinalityType

\* One goroutine moves.
LEMMA OneMoves ==
  ASSUME NEW c \in Caller, \A d \in Caller : d # c => caller'[d] = caller[d]
  PROVE  /\ caller[c].pc = "idle" /\ caller'[c].pc # "idle" =>
              Cardinality(Busy') = Cardinality(Busy) + 1
         /\ caller[c].pc # "idle" /\ caller'[c].pc # "idle" =>
              Cardinality(Busy') = Cardinality(Busy)
         /\ caller[c].pc # "idle" /\ caller'[c].pc = "idle" =>
              Cardinality(Busy') = Cardinality(Busy) - 1
         /\ caller[c].pc # "set" /\ caller'[c].pc = "set" =>
              Cardinality(Setting') = Cardinality(Setting) + 1
         /\ caller[c].pc # "set" /\ caller'[c].pc # "set" =>
              Cardinality(Setting') = Cardinality(Setting)
         /\ caller[c].pc = "set" /\ caller'[c].pc # "set" =>
              Cardinality(Setting') = Cardinality(Setting) - 1
         /\ Cardinality(Busy') \in Nat /\ Cardinality(Setting') \in Nat
<1>1. Busy \ {c} = Busy' \ {c} /\ Setting \ {c} = Setting' \ {c}
  BY DEF Busy, Setting
<1>2. /\ c \in Busy <=> caller[c].pc # "idle"
      /\ c \in Busy' <=> caller'[c].pc # "idle"
      /\ c \in Setting <=> caller[c].pc = "set"
      /\ c \in Setting' <=> caller'[c].pc = "set"
  BY DEF Busy, Setting
<1>3. /\ Cardinality(Busy') \in Nat
      /\ c \in Busy /\ c \notin Busy' => Cardinality(Busy') = Cardinality(Busy) - 1
      /\ c \notin Busy /\ c \in Busy' => Cardinality(Busy') = Cardinality(Busy) + 1
      /\ (c \in Busy <=> c \in Busy') => Cardinality(Busy') = Cardinality(Busy)
  BY <1>1, Counts, CountStep
<1>4. /\ Cardinality(Setting') \in Nat
      /\ c \in Setting /\ c \notin Setting' => Cardinality(Setting') = Cardinality(Setting) - 1
      /\ c \notin Setting /\ c \in Setting' => Cardinality(Setting') = Cardinality(Setting) + 1
      /\ (c \in Setting <=> c \in Setting') => Cardinality(Setting') = Cardinality(Setting)
  BY <1>1, Counts, CountStep
<1>5. QED
  BY <1>2, <1>3, <1>4

-----------------------------------------------------------------------------
(* The steps *)

LEMMA StatusStep ==
  ASSUME StatusInv, [Next]_vars
  PROVE  StatusInv'
<1> USE Bounds DEF Place
<1>0. /\ caller \in [Caller -> Place]
      /\ current \in {0} \cup Editor /\ made \in {0} \cup Editor
      /\ texts \in 0 .. MaxTexts
      /\ pending \in [Editor -> 0 .. MaxTexts]
      /\ timer \in [Editor -> BOOLEAN] /\ funcs \in [Editor -> 0 .. MaxTexts]
      /\ updates \subseteq 1 .. MaxTexts /\ post \in 0 .. MaxTexts
      /\ sent \subseteq 1 .. MaxTexts /\ finals \subseteq 1 .. MaxTexts
      /\ CountInv /\ EditorInv /\ PendingHasTimer
  BY DEF StatusInv, TypeOK
<1>00. /\ Cardinality(Busy) \in Nat /\ Cardinality(Setting) \in Nat
       /\ Cardinality(Setting) <= Cardinality(Busy)
  BY Counts
<1>1. CASE UNCHANGED vars
  BY <1>1 DEF vars, StatusInv, TypeOK, CountInv, Busy, Setting, EditorInv, PendingHasTimer
<1>2. ASSUME NEW c \in Caller, FindActive(c) PROVE StatusInv'
  <2>1. /\ caller[c].pc = "idle" /\ caller'[c] = [caller[c] EXCEPT !.pc = "edit"]
        /\ \A d \in Caller : d # c => caller'[d] = caller[d]
        /\ caller' \in [Caller -> Place]
        /\ UNCHANGED <<current, made, texts, pending, timer, funcs, updates, post, sent, finals>>
    BY <1>0, <1>2 DEF FindActive
  <2>2. caller'[c].pc = "edit" /\ caller'[c].ed = caller[c].ed
    BY <1>0, <2>1
  <2>3. TypeOK'
    BY <1>0, <2>1 DEF TypeOK
  <2>4. CountInv'
    <3>1. texts + Cardinality(Busy) < MaxTexts
      BY <1>2 DEF FindActive, Room, Busy
    <3>2. Cardinality(Busy') = Cardinality(Busy) + 1 /\ Cardinality(Setting') = Cardinality(Setting)
      BY <2>1, <2>2, OneMoves
    <3>3. QED
      BY <1>0, <1>00, <2>1, <3>1, <3>2 DEF CountInv
  <2>5. EditorInv'
    BY <1>0, <2>1, <2>2 DEF EditorInv
  <2>6. PendingHasTimer'
    BY <1>0, <2>1 DEF PendingHasTimer
  <2>7. QED
    BY <2>3, <2>4, <2>5, <2>6 DEF StatusInv
<1>3. ASSUME NEW c \in Caller, Edit(c) PROVE StatusInv'
  <2> DEFINE e == IF current = 0 THEN made + 1 ELSE current
  <2>1. /\ caller[c].pc = "edit" /\ caller' = [caller EXCEPT ![c] = [Idle EXCEPT !.pc = "set", !.ed = e]]
        /\ current' = e /\ made' = Max({made, e})
        /\ UNCHANGED <<texts, pending, timer, funcs, updates, post, sent, finals>>
    BY <1>3 DEF Edit
  <2>2. made \in Nat /\ current \in Nat /\ current <= made /\ e \in Nat /\ e # 0
        /\ (current = 0 => e = made + 1) /\ (current # 0 => e = current)
    BY <1>0 DEF EditorInv
  <2> HIDE DEF e
  <2>3. made' = (IF current = 0 THEN made + 1 ELSE made) /\ e <= made'
    <3>1. Max({made, e}) = IF made <= e THEN e ELSE made
      BY <2>2, LargerOf
    <3>2. QED
      BY <2>1, <2>2, <3>1
  <2>4. /\ caller'[c].pc = "set" /\ caller'[c].ed = e /\ caller'[c].final = FALSE
        /\ \A d \in Caller : d # c => caller'[d] = caller[d]
    BY <1>0, <2>1 DEF Idle
  <2>5. /\ Cardinality(Busy') = Cardinality(Busy) /\ Cardinality(Setting') = Cardinality(Setting) + 1
        /\ Cardinality(Setting') <= Cardinality(Caller)
    <3>1. Cardinality(Busy') = Cardinality(Busy) /\ Cardinality(Setting') = Cardinality(Setting) + 1
      BY <2>1, <2>4, OneMoves
    <3>2. Setting' \subseteq Caller
      BY DEF Setting
    <3>3. Cardinality(Setting') <= Cardinality(Caller)
      BY <3>2, FS_Subset
    <3>4. QED
      BY <3>1, <3>3
  <2>6. CountInv'
    <3>1. texts \in Nat /\ made' <= made + 1 /\ made' \in Nat
      BY <1>0, <2>2, <2>3
    <3>2. texts + Cardinality(Busy) <= MaxTexts /\ made <= texts + Cardinality(Setting)
      BY <1>0 DEF CountInv
    <3>3. texts' + Cardinality(Busy') <= MaxTexts /\ made' <= texts' + Cardinality(Setting')
      BY <1>00, <2>1, <2>2, <2>5, <3>1, <3>2
    <3>4. QED
      BY <3>3 DEF CountInv
  <2>7. made' \in Editor /\ e \in Editor
    <3>1. made' \in Nat /\ made' # 0 /\ made' <= texts + Cardinality(Setting)'
      BY <2>1, <2>2, <2>3, <2>6 DEF CountInv
    <3>2. made' <= MaxTexts + Cardinality(Caller)
      BY <1>0, <1>00, <2>5, <3>1
    <3>3. QED
      BY <1>0, <2>2, <2>3, <3>1, <3>2
  <2>8. TypeOK'
    <3>1. [Idle EXCEPT !.pc = "set", !.ed = e] \in Place
      BY <2>7 DEF Idle
    <3>2. caller' \in [Caller -> Place]
      BY <1>0, <2>1, <3>1
    <3>3. QED
      BY <1>0, <2>1, <2>7, <3>2 DEF TypeOK
  <2>9. EditorInv'
    <3>1. ASSUME NEW d \in Caller
          PROVE  /\ caller'[d].ed <= made'
                 /\ caller'[d].pc = "set" => caller'[d].ed # 0
                 /\ caller'[d].pc = "stop" => caller'[d].ed # 0 /\ caller'[d].ed # current'
      <4>1. CASE d = c
        BY <2>2, <2>3, <2>4, <4>1
      <4>2. CASE d # c
        <5>0. caller[d].ed \in Nat
          BY <1>0, PlaceEditor
        <5>1. caller'[d] = caller[d] /\ caller[d].ed <= made
          BY <1>0, <2>4, <4>2 DEF EditorInv
        <5>2. caller[d].pc = "set" => caller[d].ed # 0
          BY <1>0 DEF EditorInv
        <5>3. caller[d].pc = "stop" => caller[d].ed # 0 /\ caller[d].ed # current
          BY <1>0 DEF EditorInv
        <5>4. QED
          BY <2>1, <2>2, <2>3, <5>0, <5>1, <5>2, <5>3
      <4>3. QED
        BY <4>1, <4>2
    <3>2. \A f \in Editor :
            /\ f > made' => pending[f] = 0
            /\ pending[f] <= texts /\ funcs[f] <= texts
            /\ funcs[f] > 0 => pending[f] # 0
      BY <1>0, <2>2, <2>3 DEF EditorInv
    <3>3. QED
      BY <2>1, <2>3, <3>1, <3>2 DEF EditorInv
  <2>10. PendingHasTimer'
    <3>1. current # e => pending[e] = 0
      BY <1>0, <2>2, <2>7 DEF EditorInv
    <3>2. QED
      BY <1>0, <2>1, <3>1 DEF PendingHasTimer
  <2>11. QED
    BY <2>6, <2>8, <2>9, <2>10 DEF StatusInv
<1>4. ASSUME NEW c \in Caller, SetPending(c) PROVE StatusInv'
  <2> DEFINE e == caller[c].ed
  <2>1. /\ caller[c].pc = "set" /\ caller' = [caller EXCEPT ![c] = Idle]
        /\ pending' = [pending EXCEPT ![e] = texts + 1]
        /\ timer' = [timer EXCEPT ![e] = TRUE]
        /\ funcs' = [funcs EXCEPT ![e] = IF timer[e] THEN @ ELSE @ + 1]
        /\ texts' = texts + 1
        /\ UNCHANGED <<current, made, updates, post, sent, finals>>
    BY <1>4 DEF SetPending
  <2>2. e \in Editor /\ e <= made
    BY <1>0, <2>1 DEF EditorInv
  <2> HIDE DEF e
  <2>3. caller'[c] = Idle /\ \A d \in Caller : d # c => caller'[d] = caller[d]
    BY <1>0, <2>1
  <2>4. caller'[c].pc = "idle" /\ caller'[c].ed = 0
    BY <2>3 DEF Idle
  <2>5. /\ Cardinality(Busy') = Cardinality(Busy) - 1 /\ Cardinality(Setting') = Cardinality(Setting) - 1
        /\ Cardinality(Busy') \in Nat
    BY <2>1, <2>3, <2>4, OneMoves
  <2>6. CountInv'
    BY <1>0, <1>00, <2>1, <2>5 DEF CountInv
  <2>7. texts' \in 0 .. MaxTexts /\ texts' \in 1 .. MaxTexts
    BY <1>0, <2>1, <2>5, <2>6 DEF CountInv
  <2>8. /\ \A f \in Editor : f # e => pending'[f] = pending[f] /\ timer'[f] = timer[f] /\ funcs'[f] = funcs[f]
        /\ pending'[e] = texts' /\ timer'[e] = TRUE
        /\ funcs'[e] = IF timer[e] THEN funcs[e] ELSE funcs[e] + 1
    BY <1>0, <2>1, <2>2
  <2>9. /\ funcs'[e] \in Nat /\ funcs'[e] > 0 /\ funcs'[e] <= texts'
    <3>1. funcs[e] \in Nat /\ funcs[e] <= texts /\ (timer[e] => funcs[e] > 0)
      BY <1>0, <2>2 DEF EditorInv, PendingHasTimer
    <3>2. QED
      BY <1>0, <2>1, <2>8, <3>1
  <2>10. TypeOK'
    <3>1. caller' \in [Caller -> Place]
      BY <1>0, <2>1 DEF Idle
    <3>2. pending' \in [Editor -> 0 .. MaxTexts] /\ timer' \in [Editor -> BOOLEAN]
      BY <1>0, <2>1, <2>2, <2>7
    <3>3. funcs'[e] \in 0 .. MaxTexts
      BY <2>7, <2>9
    <3>4. funcs' \in [Editor -> 0 .. MaxTexts]
      BY <1>0, <2>1, <2>8, <3>3
    <3>5. QED
      BY <1>0, <2>1, <2>7, <3>1, <3>2, <3>4 DEF TypeOK
  <2>11. EditorInv'
    <3>1. ASSUME NEW d \in Caller
          PROVE  /\ caller'[d].ed <= made'
                 /\ caller'[d].pc = "set" => caller'[d].ed # 0
                 /\ caller'[d].pc = "stop" => caller'[d].ed # 0 /\ caller'[d].ed # current'
      BY <1>0, <2>1, <2>3, <2>4 DEF EditorInv
    <3>2. ASSUME NEW f \in Editor
          PROVE  /\ f > made' => pending'[f] = 0
                 /\ pending'[f] <= texts' /\ funcs'[f] <= texts'
                 /\ funcs'[f] > 0 => pending'[f] # 0
      <4>1. CASE f = e
        BY <1>0, <2>1, <2>2, <2>7, <2>8, <2>9, <4>1
      <4>2. CASE f # e
        <5>1. /\ f > made => pending[f] = 0
              /\ pending[f] <= texts /\ funcs[f] <= texts /\ pending[f] \in Nat /\ funcs[f] \in Nat
              /\ funcs[f] > 0 => pending[f] # 0
          BY <1>0 DEF EditorInv
        <5>2. QED
          BY <1>0, <2>1, <2>8, <4>2, <5>1
      <4>3. QED
        BY <4>1, <4>2
    <3>3. QED
      BY <1>0, <2>1, <3>1, <3>2 DEF EditorInv
  <2>12. PendingHasTimer'
    BY <1>0, <2>1, <2>8, <2>9 DEF PendingHasTimer
  <2>13. QED
    BY <2>6, <2>10, <2>11, <2>12 DEF StatusInv
<1>5. ASSUME NEW e \in Editor, Fire(e) PROVE StatusInv'
  <2>1. /\ funcs[e] > 0 /\ funcs' = [funcs EXCEPT ![e] = @ - 1]
        /\ timer' = [timer EXCEPT ![e] = FALSE]
        /\ updates' = updates \cup {pending[e]} /\ sent' = sent \cup {pending[e]}
        /\ UNCHANGED <<caller, current, made, texts, pending, post, finals>>
    BY <1>5 DEF Fire
  <2>2. pending[e] \in 1 .. MaxTexts /\ funcs[e] \in Nat /\ funcs[e] - 1 \in 0 .. MaxTexts
    BY <1>0, <2>1 DEF EditorInv
  <2>3. /\ \A f \in Editor : f # e => timer'[f] = timer[f] /\ funcs'[f] = funcs[f]
        /\ timer'[e] = FALSE /\ funcs'[e] = funcs[e] - 1
    BY <1>0, <2>1
  <2>4. TypeOK'
    BY <1>0, <2>1, <2>2 DEF TypeOK
  <2>5. CountInv'
    BY <1>0, <2>1 DEF CountInv, Busy, Setting
  <2>6. EditorInv'
    <3>1. ASSUME NEW f \in Editor
          PROVE  funcs'[f] <= texts /\ (funcs'[f] > 0 => pending[f] # 0)
      <4>1. funcs[f] \in Nat /\ funcs[f] <= texts /\ (funcs[f] > 0 => pending[f] # 0)
        BY <1>0 DEF EditorInv
      <4>2. QED
        BY <1>0, <2>1, <2>3, <4>1
    <3>2. QED
      BY <1>0, <2>1, <3>1 DEF EditorInv
  <2>7. PendingHasTimer'
    BY <1>0, <2>1, <2>3 DEF PendingHasTimer
  <2>8. QED
    BY <2>4, <2>5, <2>6, <2>7 DEF StatusInv
<1>6. ASSUME NEW c \in Caller, FinalEdit(c) PROVE StatusInv'
  <2>1. /\ caller[c].pc = "idle" /\ Room
        /\ caller' = [caller EXCEPT ![c] =
             [pc |-> IF current = 0 THEN "update" ELSE "stop", ed |-> current, final |-> TRUE]]
        /\ current' = 0
        /\ UNCHANGED <<made, texts, pending, timer, funcs, updates, post, sent, finals>>
    BY <1>6 DEF FinalEdit
  <2>2. /\ caller'[c].pc = (IF current = 0 THEN "update" ELSE "stop") /\ caller'[c].ed = current
        /\ \A d \in Caller : d # c => caller'[d] = caller[d]
    BY <1>0, <2>1
  <2>3. TypeOK'
    BY <1>0, <2>1 DEF TypeOK
  <2>4. CountInv'
    <3>1. texts + Cardinality(Busy) < MaxTexts
      BY <2>1 DEF Room, Busy
    <3>2. Cardinality(Busy') = Cardinality(Busy) + 1 /\ Cardinality(Setting') = Cardinality(Setting)
      BY <2>1, <2>2, OneMoves
    <3>3. QED
      BY <1>0, <1>00, <2>1, <3>1, <3>2 DEF CountInv
  <2>5. EditorInv'
    <3>1. ASSUME NEW d \in Caller
          PROVE  /\ caller'[d].ed <= made'
                 /\ caller'[d].pc = "set" => caller'[d].ed # 0
                 /\ caller'[d].pc = "stop" => caller'[d].ed # 0 /\ caller'[d].ed # current'
      BY <1>0, <2>1, <2>2 DEF EditorInv
    <3>2. made' \in Nat
      BY <1>0, <2>1
    <3>3. QED
      BY <1>0, <2>1, <3>1, <3>2 DEF EditorInv
  <2>6. PendingHasTimer'
    BY <1>0, <2>1 DEF PendingHasTimer
  <2>7. QED
    BY <2>3, <2>4, <2>5, <2>6 DEF StatusInv
<1>7. ASSUME NEW c \in Caller, StopTimer(c) PROVE StatusInv'
  <2> DEFINE e == caller[c].ed
  <2>1. /\ caller[c].pc = "stop" /\ caller' = [caller EXCEPT ![c].pc = "update"]
        /\ timer' = [timer EXCEPT ![e] = FALSE]
        /\ (timer[e] /\ funcs' = [funcs EXCEPT ![e] = @ - 1]) \/ UNCHANGED funcs
        /\ UNCHANGED <<current, made, texts, pending, updates, post, sent, finals>>
    BY <1>7 DEF StopTimer
  <2>2. e \in Editor /\ e # current
    BY <1>0, <2>1 DEF EditorInv
  <2>3. /\ caller'[c].pc = "update" /\ caller'[c].ed = caller[c].ed
        /\ \A d \in Caller : d # c => caller'[d] = caller[d]
    BY <1>0, <2>1
  <2> HIDE DEF e
  <2>4. /\ \A f \in Editor : f # e => timer'[f] = timer[f] /\ funcs'[f] = funcs[f]
        /\ timer'[e] = FALSE /\ funcs'[e] \in Nat /\ funcs'[e] <= funcs[e]
    <3>1. funcs[e] \in Nat /\ (timer[e] => funcs[e] > 0)
      BY <1>0, <2>2 DEF PendingHasTimer
    <3>2. QED
      BY <1>0, <2>1, <2>2, <3>1
  <2>5. TypeOK'
    <3>1. caller' \in [Caller -> Place]
      BY <1>0, <2>1
    <3>2. funcs'[e] \in 0 .. MaxTexts
      BY <1>0, <2>2, <2>4
    <3>3. funcs' \in [Editor -> 0 .. MaxTexts] /\ timer' \in [Editor -> BOOLEAN]
      BY <1>0, <2>1, <2>4, <3>2
    <3>4. QED
      BY <1>0, <2>1, <3>1, <3>3 DEF TypeOK
  <2>6. CountInv'
    <3>1. Cardinality(Busy') = Cardinality(Busy) /\ Cardinality(Setting') = Cardinality(Setting)
      BY <2>1, <2>3, OneMoves
    <3>2. QED
      BY <1>0, <2>1, <3>1 DEF CountInv
  <2>7. EditorInv'
    <3>1. ASSUME NEW f \in Editor
          PROVE  funcs'[f] <= texts /\ (funcs'[f] > 0 => pending[f] # 0)
      <4>1. funcs[f] \in Nat /\ funcs[f] <= texts /\ (funcs[f] > 0 => pending[f] # 0)
        BY <1>0 DEF EditorInv
      <4>2. QED
        BY <1>0, <2>4, <4>1
    <3>2. ASSUME NEW d \in Caller
          PROVE  /\ caller'[d].ed <= made'
                 /\ caller'[d].pc = "set" => caller'[d].ed # 0
                 /\ caller'[d].pc = "stop" => caller'[d].ed # 0 /\ caller'[d].ed # current'
      BY <1>0, <2>1, <2>3 DEF EditorInv
    <3>3. QED
      BY <1>0, <2>1, <3>1, <3>2 DEF EditorInv
  <2>8. PendingHasTimer'
    BY <1>0, <2>1, <2>2, <2>4 DEF PendingHasTimer
  <2>9. QED
    BY <2>5, <2>6, <2>7, <2>8 DEF StatusInv
<1>8. ASSUME NEW c \in Caller, FinalUpdate(c) PROVE StatusInv'
  <2>1. /\ caller[c].pc = "update" /\ caller' = [caller EXCEPT ![c] = Idle]
        /\ texts' = texts + 1 /\ finals' = finals \cup {texts + 1}
        /\ updates' = updates \cup {texts + 1} /\ sent' = sent \cup {texts + 1}
        /\ UNCHANGED <<current, made, pending, timer, funcs, post>>
    BY <1>8 DEF FinalUpdate
  <2>2. caller'[c] = Idle /\ \A d \in Caller : d # c => caller'[d] = caller[d]
    BY <1>0, <2>1
  <2>3. caller'[c].pc = "idle" /\ caller'[c].ed = 0
    BY <2>2 DEF Idle
  <2>4. /\ Cardinality(Busy') = Cardinality(Busy) - 1 /\ Cardinality(Setting') = Cardinality(Setting)
        /\ Cardinality(Busy') \in Nat
    BY <2>1, <2>2, <2>3, OneMoves
  <2>5. CountInv'
    BY <1>0, <1>00, <2>1, <2>4 DEF CountInv
  <2>6. texts + 1 \in 1 .. MaxTexts
    BY <1>0, <1>00, <2>1, <2>4, <2>5 DEF CountInv
  <2>7. TypeOK'
    <3>1. caller' \in [Caller -> Place]
      BY <1>0, <2>1 DEF Idle
    <3>2. QED
      BY <1>0, <2>1, <2>6, <3>1 DEF TypeOK
  <2>8. EditorInv'
    <3>1. ASSUME NEW d \in Caller
          PROVE  /\ caller'[d].ed <= made'
                 /\ caller'[d].pc = "set" => caller'[d].ed # 0
                 /\ caller'[d].pc = "stop" => caller'[d].ed # 0 /\ caller'[d].ed # current'
      BY <1>0, <2>1, <2>2, <2>3 DEF EditorInv
    <3>2. ASSUME NEW f \in Editor
          PROVE  /\ f > made => pending[f] = 0
                 /\ pending[f] <= texts' /\ funcs[f] <= texts'
                 /\ funcs[f] > 0 => pending[f] # 0
      <4>1. pending[f] \in Nat /\ funcs[f] \in Nat /\ pending[f] <= texts /\ funcs[f] <= texts
        BY <1>0 DEF EditorInv
      <4>2. QED
        BY <1>0, <2>1, <4>1 DEF EditorInv
    <3>3. QED
      BY <1>0, <2>1, <3>1, <3>2 DEF EditorInv
  <2>9. PendingHasTimer'
    BY <1>0, <2>1 DEF PendingHasTimer
  <2>10. QED
    BY <2>5, <2>7, <2>8, <2>9 DEF StatusInv
<1>9. ASSUME NEW t \in updates, UpdatePost(t) PROVE StatusInv'
  <2>1. /\ updates' = updates \ {t} /\ post' = t
        /\ UNCHANGED <<caller, current, made, texts, pending, timer, funcs, sent, finals>>
    BY <1>9 DEF UpdatePost
  <2>2. TypeOK'
    BY <1>0, <2>1 DEF TypeOK
  <2>3. QED
    BY <1>0, <2>1, <2>2 DEF StatusInv, CountInv, Busy, Setting, EditorInv, PendingHasTimer
<1>10. QED
  BY <1>1, <1>2, <1>3, <1>4, <1>5, <1>6, <1>7, <1>8, <1>9 DEF Next, Steps

-----------------------------------------------------------------------------
(* Theorems *)

\* Every step of edit, its timer and finalEdit keeps the invariant.
THEOREM StatusInductive == Spec => []StatusInv
<1>1. Init => StatusInv
  <2> SUFFICES ASSUME Init PROVE StatusInv
    OBVIOUS
  <2> USE Bounds DEF Init, Idle
  <2>1. TypeOK
    BY DEF TypeOK
  <2>2. Busy = {} /\ Setting = {}
    BY DEF Busy, Setting
  <2>3. CountInv
    BY <2>2, FS_EmptySet DEF CountInv
  <2>4. EditorInv /\ PendingHasTimer
    BY DEF EditorInv, PendingHasTimer
  <2>5. QED
    BY <2>1, <2>3, <2>4 DEF StatusInv
<1>2. StatusInv /\ [Next]_vars => StatusInv'
  BY StatusStep
<1>3. QED
  BY <1>1, <1>2, PTL DEF Spec

\* Type correctness: in particular a timer's function never sends a text
\* nobody wrote, and the editors do not outnumber the texts.
THEOREM StatusTypeCorrect == Spec => []TypeOK
<1>1. StatusInv => TypeOK
  BY DEF StatusInv
<1>2. QED
  BY <1>1, StatusInductive, PTL

\* A timer that is set has a function that will run, and the editor of a job
\* holds no unsent text without one, however edit, timers and finalEdit
\* interleave.
THEOREM EditIsScheduled == Spec => []PendingHasTimer
<1>1. StatusInv => PendingHasTimer
  BY DEF StatusInv
<1>2. QED
  BY <1>1, StatusInductive, PTL
=============================================================================
