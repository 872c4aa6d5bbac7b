-------------------------- MODULE WmsViewer_proofs --------------------------
(***************************************************************************)
(* Proofs about the map viewer, for any layers, times and map contexts.    *)
(***************************************************************************)
EXTENDS WmsViewer, FiniteSetTheorems, TLAPS

\* The slider offers the common times of the layers it knows.
Good(v) == v \in Views /\ v.sorted \in Sortings(CommonTimes(v.layers)) /\ SliderFits(v)

Follows(v) ==
    v.slider # NoSlider /\ v.moved => \A l \in v.visible : v.time[l] = v.sorted[v.slider]

\* While the handle is held the layers wait.
Settled(v) == v.dragging \/ Follows(v)

Own(v) ==
    \A l \in Layers : Timed(l) => v.time[l] \in context.values[l] \cup {context.default[l]}

IInv ==
    /\ TypeOK
    /\ Good(view)
    /\ drawn \/ (view.slider = NoSlider /\ open = NoLayer)
    /\ drawn => view.layers = view.visible
    /\ Settled(view)
    /\ drawn /\ open # NoLayer => Own(view)
    /\ StopMissesOnlyOvertaken

\* What every operator of the slider and the layers gives from a good view.
Outcome(v, w) ==
    /\ Good(w) /\ Settled(w)
    /\ w.layers = w.visible
    /\ Own(v) => Own(w)
-----------------------------------------------------------------------------
\* The common times of layers are times, and those of each layer that has any.
LEMMA CommonIsOwn ==
    ASSUME context \in Contexts, NEW ls \in SUBSET Layers
    PROVE  /\ CommonTimes(ls) \in SUBSET Times
           /\ \A l \in ls : Timed(l) => CommonTimes(ls) \subseteq context.values[l]
  BY ViewerAssumption DEF CommonTimes, ContextType, Timed

\* The positions of a sorting are those of the slider, and hold its times.
LEMMA SortingType ==
    ASSUME NEW S \in SUBSET Times, NEW s \in Sortings(S)
    PROVE  /\ s \in UNION {Sortings(T) : T \in SUBSET Times}
           /\ Cardinality(S) \in Nat
           /\ DOMAIN s = 0 .. Cardinality(S) - 1
           /\ \A i \in DOMAIN s : s[i] \in S
  <1>1. IsFiniteSet(S)
    BY FS_Subset, ViewerAssumption
  <1>2. Cardinality(S) \in Nat
    BY <1>1, FS_CardinalityType
  <1> QED
    BY <1>2 DEF Sortings

\* The handle moves: the layers the slider knows get the time, the others keep theirs.
LEMMA ValueChangeGives ==
    ASSUME context \in Contexts, NEW v \in Views, v.sorted \in Sortings(CommonTimes(v.layers)),
           v.layers = v.visible, NEW i \in DOMAIN v.sorted
    PROVE  Outcome(v, ValueChange(v, i)) /\ Follows(ValueChange(v, i))
  <1>0. PICK w : w = ValueChange(v, i)
    OBVIOUS
  <1>1. CommonTimes(v.layers) \in SUBSET Times /\ v.layers \subseteq Layers
    BY CommonIsOwn DEF Views
  <1>2. /\ v.sorted[i] \in CommonTimes(v.layers)
        /\ DOMAIN v.sorted = 0 .. Cardinality(CommonTimes(v.layers)) - 1
        /\ Cardinality(CommonTimes(v.layers)) \in Nat
    BY <1>1, SortingType
  <1>3. i \in Nat
    BY <1>2
  <1> DEFINE tm == [l \in Layers |-> IF l \in v.layers THEN v.sorted[i] ELSE v.time[l]]
  <1>4. tm \in [Layers -> Times \cup {NoTime}]
    BY <1>1, <1>2 DEF Views
  <1>5. w = [v EXCEPT !.slider = i, !.moved = TRUE, !.time = tm]
    BY <1>0 DEF ValueChange
  <1>6. \A l \in Layers : tm[l] = IF l \in v.layers THEN v.sorted[i] ELSE v.time[l]
    OBVIOUS
  <1> HIDE DEF tm
  <1>7. /\ w \in Views /\ w.sorted = v.sorted /\ w.layers = v.layers /\ w.visible = v.visible
        /\ w.slider = i /\ w.time = tm /\ w.dragging = v.dragging
    BY <1>3, <1>4, <1>5 DEF Views
  <1>8. Good(w)
    BY <1>7 DEF Good, SliderFits
  <1>9. Follows(w)
    BY <1>1, <1>6, <1>7 DEF Follows
  <1>10. ASSUME Own(v) PROVE Own(w)
    <2>1. \A l \in v.layers : Timed(l) => v.sorted[i] \in context.values[l]
      BY <1>1, <1>2, CommonIsOwn
    <2> QED
      BY <1>6, <1>7, <1>10, <2>1 DEF Own
  <1> QED
    BY <1>0, <1>7, <1>8, <1>9, <1>10 DEF Outcome, Settled

\* The slider is drawn anew for the visible layers.
LEMMA LayerChangeGives ==
    ASSUME context \in Contexts, NEW v \in Views, NEW w \in LayerChange(v)
    PROVE  Outcome(v, w)
  <1>0. PICK u : u = [v EXCEPT !.layers = v.visible]
    OBVIOUS
  <1>1. /\ u \in Views /\ u.layers = v.visible /\ u.visible = v.visible /\ u.time = v.time
        /\ u.layers \in SUBSET Layers
    BY <1>0 DEF Views
  <1>2. PICK s \in Sortings(CommonTimes(u.layers)) :
          w = IF DOMAIN s = {} THEN [u EXCEPT !.sorted = s, !.slider = NoSlider,
                                              !.dragging = FALSE]
                               ELSE ValueChange([u EXCEPT !.sorted = s, !.dragging = FALSE], 0)
    BY <1>0 DEF LayerChange, Redraws
  <1>3. /\ s \in UNION {Sortings(T) : T \in SUBSET Times}
        /\ DOMAIN s = 0 .. Cardinality(CommonTimes(u.layers)) - 1
        /\ Cardinality(CommonTimes(u.layers)) \in Nat
    BY <1>1, CommonIsOwn, SortingType
  <1>4. CASE DOMAIN s = {}
    <2>1. w = [u EXCEPT !.sorted = s, !.slider = NoSlider, !.dragging = FALSE]
      BY <1>2, <1>4
    <2>2. /\ w \in Views /\ w.sorted = s /\ w.slider = NoSlider /\ w.layers = u.layers
          /\ w.visible = u.visible /\ w.time = u.time /\ w.dragging = FALSE
      BY <1>1, <1>3, <2>1 DEF Views
    <2> QED
      BY <1>1, <1>2, <1>4, <2>2 DEF Outcome, Good, SliderFits, Settled, Follows, Own
  <1>5. CASE DOMAIN s # {}
    <2>1. PICK x : x = [u EXCEPT !.sorted = s, !.dragging = FALSE]
      OBVIOUS
    <2>2. /\ x \in Views /\ x.sorted = s /\ x.layers = u.layers /\ x.visible = u.visible
          /\ x.time = u.time
      BY <1>1, <1>3, <2>1 DEF Views
    <2>3. 0 \in DOMAIN s
      BY <1>3, <1>5
    <2>4. Outcome(x, ValueChange(x, 0))
      BY <1>1, <1>2, <2>2, <2>3, ValueChangeGives
    <2>5. w = ValueChange(x, 0)
      BY <1>2, <1>5, <2>1
    <2> QED
      BY <1>1, <2>2, <2>4, <2>5 DEF Outcome, Own
  <1> QED
    BY <1>4, <1>5

\* Layers are shown or hidden: nothing changes, or the slider is drawn anew.
LEMMA VisibilityGives ==
    ASSUME context \in Contexts, NEW v, Good(v), Settled(v), v.layers = v.visible,
           NEW S \in SUBSET Layers,
           NEW w, w = v \/ w \in LayerChange([v EXCEPT !.visible = S])
    PROVE  Outcome(v, w)
  <1>0. PICK u : u = [v EXCEPT !.visible = S]
    OBVIOUS
  <1>1. u \in Views /\ u.time = v.time
    BY <1>0 DEF Views, Good
  <1>2. CASE w = v
    BY <1>2 DEF Outcome
  <1>3. CASE w \in LayerChange(u)
    BY <1>1, <1>3, LayerChangeGives DEF Outcome, Own
  <1> QED
    BY <1>0, <1>2, <1>3

\* What setVisibility does to the layers that are visible.
LEMMA SetVisibilityIs ==
    ASSUME NEW v, Good(v), NEW l \in Layers, NEW on, NEW w \in SetVisibility(v, l, on)
    PROVE  \E S \in SUBSET Layers : w = v \/ w \in LayerChange([v EXCEPT !.visible = S])
  <1> DEFINE S == IF on THEN v.visible \cup {l} ELSE v.visible \ {l}
  <1>1. S \in SUBSET Layers
    BY DEF Good, Views
  <1>2. w = v \/ w \in LayerChange([v EXCEPT !.visible = S])
    BY DEF SetVisibility
  <1> QED
    BY <1>1, <1>2
-----------------------------------------------------------------------------
\* The initial states satisfy the invariant.
LEMMA InitHolds == Init => IInv
  <1> SUFFICES ASSUME Init PROVE IInv
    OBVIOUS
  <1> USE ViewerAssumption DEF Init
  <1> DEFINE none == [i \in {} |-> NoTime]
  <1>1. context \in Contexts /\ context \in ContextType
    OBVIOUS
  <1>2. CommonTimes({}) = {}
    BY DEF CommonTimes
  <1>3. Cardinality({}) = 0
    BY FS_EmptySet
  <1>4. none \in Sortings({})
    BY <1>3 DEF Sortings
  <1>5. none \in UNION {Sortings(T) : T \in SUBSET Times}
    BY <1>4
  <1>6. DOMAIN none = {}
    OBVIOUS
  <1>7. view = [visible |-> context.visible, layers |-> {},
                time |-> [l \in Layers |-> NoTime],
                sorted |-> none, slider |-> NoSlider, dragging |-> FALSE, moved |-> FALSE]
    OBVIOUS
  <1> HIDE DEF none
  <1>8. view \in Views
    BY <1>1, <1>5, <1>7 DEF Views, ContextType
  <1>c. view.layers = {} /\ view.sorted = none /\ view.slider = NoSlider /\ ~view.dragging
    BY <1>7
  <1>9. Good(view)
    BY <1>2, <1>4, <1>6, <1>8, <1>c DEF Good, SliderFits
  <1>10. TypeOK
    <2>1. /\ drawn = FALSE /\ sticky = {} /\ open = NoLayer
          /\ intervals = {} /\ slideshow = 0 /\ plays = 0 /\ overtaken = {}
      OBVIOUS
    <2> HIDE DEF Init
    <2>2. plays \in 0 .. MaxPlays /\ slideshow \in 0 .. plays
      BY <2>1
    <2>3. drawn \in BOOLEAN
      BY <2>1
    <2>4. view \in Views /\ SliderFits(view)
      BY <1>9 DEF Good
    <2> QED
      BY <1>1, <2>1, <2>2, <2>3, <2>4 DEF TypeOK
  <1> QED
    BY <1>7, <1>9, <1>10 DEF IInv, Settled, Follows, StopMissesOnlyOvertaken

\* The map is drawn.
LEMMA DrawHolds == ASSUME IInv, DrawMap PROVE IInv'
  <1>1. context \in Contexts /\ context' = context /\ view \in Views
    BY DEF DrawMap, IInv, TypeOK
  <1>2. PICK v \in LayerChange(view) :
          \/ /\ ~Timed(First)
             /\ view' = v
             /\ UNCHANGED open
          \/ \E w \in SetDefault(v), start \in StartTimes :
                /\ view' = [w EXCEPT !.moved = FALSE,
                      !.time = [l \in Layers |-> IF Timed(l) THEN start[l] ELSE w.time[l]]]
                /\ open' = First
    BY DEF DrawMap
  <1>3. Outcome(view, v)
    BY <1>1, LayerChangeGives
  <1>4. /\ drawn' = TRUE /\ UNCHANGED <<context, sticky, timerVars>>
        /\ open \in Layers \cup {NoLayer} /\ ~drawn
    BY DEF DrawMap, IInv, TypeOK
  <1>6. CASE ~Timed(First) /\ view' = v /\ UNCHANGED open
    <2>1. Good(view)' /\ Settled(view)' /\ view'.layers = view'.visible
      BY <1>1, <1>3, <1>6 DEF Outcome, Good, Settled, Follows, CommonTimes, Timed
    <2>2. open' = NoLayer
      BY <1>4, <1>6 DEF IInv
    <2> QED
      BY <1>1, <1>4, <2>1, <2>2 DEF IInv, TypeOK, Good, StopMissesOnlyOvertaken, timerVars
  <1>7. ASSUME NEW w \in SetDefault(v), NEW start \in StartTimes, open' = First,
               view' = [w EXCEPT !.moved = FALSE,
                  !.time = [l \in Layers |-> IF Timed(l) THEN start[l] ELSE w.time[l]]]
        PROVE  IInv'
    <2>1. Outcome(v, w)
      <3>1. CASE w = v
        BY <1>3, <3>1 DEF Outcome
      <3>2. CASE \E i \in DOMAIN v.sorted : w = ValueChange(v, i)
        BY <1>1, <1>3, <3>2, ValueChangeGives DEF Outcome, Good
      <3> QED
        BY <3>1, <3>2 DEF SetDefault
    <2> DEFINE tm == [l \in Layers |-> IF Timed(l) THEN start[l] ELSE w.time[l]]
    <2>2. w \in Views /\ start \in [Layers -> Times \cup {NoTime}]
      BY <2>1 DEF Outcome, Good, StartTimes
    <2>3. tm \in [Layers -> Times \cup {NoTime}]
      BY <2>2 DEF Views
    <2>4. \A l \in Layers : Timed(l) => tm[l] \in context.values[l] \cup {context.default[l]}
      BY DEF StartTimes
    <2>5. view' = [w EXCEPT !.moved = FALSE, !.time = tm]
      BY <1>7
    <2> HIDE DEF tm
    <2>6. /\ view' \in Views /\ view'.sorted = w.sorted /\ view'.layers = w.layers
          /\ view'.visible = w.visible /\ view'.slider = w.slider /\ view'.time = tm
          /\ view'.moved = FALSE /\ view'.dragging = w.dragging
      BY <2>2, <2>3, <2>5 DEF Views
    <2>7. SliderFits(view)' /\ view'.sorted \in Sortings(CommonTimes(view'.layers))
      BY <2>1, <2>6 DEF Outcome, Good, SliderFits
    <2>8. Good(view)'
      BY <1>1, <2>6, <2>7 DEF Good, CommonTimes, Timed
    <2>9. Own(view)'
      BY <1>1, <2>4, <2>6 DEF Own, Timed
    <2>10. Settled(view)'
      BY <2>6 DEF Settled, Follows
    <2>11. view'.layers = view'.visible /\ open' \in Layers
      BY <1>7, <2>1, <2>6, ViewerAssumption DEF Outcome
    <2> QED
      BY <1>1, <1>4, <2>8, <2>9, <2>10, <2>11
         DEF IInv, TypeOK, Good, StopMissesOnlyOvertaken, timerVars
  <1> QED
    BY <1>2, <1>6, <1>7

(***************************************************************************)
(* Steps that change only the view: when the new view is an outcome of the *)
(* old, or the old with the handle elsewhere, the invariant is kept.       *)
(***************************************************************************)
LEMMA ViewHolds ==
    ASSUME IInv, UNCHANGED <<context, drawn, sticky, timerVars>>, open' \in Layers \cup {open},
           open' # NoLayer => open # NoLayer,
           drawn, Good(view)', view'.layers = view'.visible,
           Settled(view)', Own(view) => Own(view)'
    PROVE  IInv'
  BY DEF IInv, TypeOK, Good, StopMissesOnlyOvertaken, timerVars

\* One section is closed and another opened.
LEMMA OpenHolds == ASSUME IInv, NEW n \in Layers, OpenSection(n) PROVE IInv'
  <1>1. /\ context \in Contexts /\ context' = context /\ Good(view) /\ Settled(view)
        /\ open \in Layers /\ open # NoLayer
    BY DEF OpenSection, IInv, TypeOK
  <1>2. drawn /\ view.layers = view.visible
    BY <1>1 DEF IInv
  <1>3. PICK v \in IF open \in context.base THEN {view}
                                            ELSE SetVisibility(view, open, open \in sticky) :
          view' \in SetVisibility(v, n, TRUE)
    BY DEF OpenSection
  <1>4. Outcome(view, v)
    <2>1. CASE v = view
      BY <1>1, <1>2, <2>1 DEF Outcome
    <2>2. CASE v \in SetVisibility(view, open, open \in sticky)
      <3>1. PICK S \in SUBSET Layers : v = view \/ v \in LayerChange([view EXCEPT !.visible = S])
        BY <1>1, <2>2, SetVisibilityIs
      <3> QED
        BY <1>1, <1>2, <3>1, VisibilityGives
    <2> QED
      BY <1>3, <2>1, <2>2
  <1>5. PICK w : w = view'
    OBVIOUS
  <1>6. Outcome(v, w)
    <2>1. PICK S \in SUBSET Layers : w = v \/ w \in LayerChange([v EXCEPT !.visible = S])
      BY <1>3, <1>4, <1>5, SetVisibilityIs DEF Outcome
    <2> QED
      BY <1>1, <1>4, <2>1, VisibilityGives DEF Outcome
  <1>7. Good(view)' /\ Settled(view)' /\ (Own(view) => Own(view)') /\ view'.layers = view'.visible
    BY <1>1, <1>4, <1>5, <1>6 DEF Outcome, Good, Settled, Follows, Own, CommonTimes, Timed
  <1> QED
    BY <1>1, <1>2, <1>7, ViewHolds DEF OpenSection

\* The handle is set to another position.
LEMMA SetSliderHolds ==
    ASSUME IInv, drawn, NEW i \in DOMAIN view.sorted, SetSlider(i), view.slider # NoSlider
    PROVE  IInv'
  <1>1. /\ context \in Contexts /\ context' = context /\ Good(view) /\ view.layers = view.visible
        /\ UNCHANGED <<context, drawn, sticky, open, timerVars>>
    BY DEF SetSlider, IInv, TypeOK
  <1>2. i \in Nat
    BY <1>1, CommonIsOwn, SortingType DEF Good, Views
  <1>3. CASE view.dragging
    <2>1. view' = [view EXCEPT !.slider = i]
      BY <1>3 DEF SetSlider
    <2>2. /\ view' \in Views /\ view'.slider = i /\ view'.sorted = view.sorted
          /\ view'.layers = view.layers /\ view'.visible = view.visible /\ view'.time = view.time
          /\ view'.dragging
      BY <1>1, <1>2, <1>3, <2>1 DEF Good, Views
    <2>3. Good(view)' /\ (Own(view) => Own(view)')
      BY <1>1, <2>2 DEF Good, SliderFits, Own, CommonTimes, Timed
    <2> QED
      BY <1>1, <2>2, <2>3, ViewHolds DEF Settled
  <1>4. CASE ~view.dragging
    <2>0. PICK w : w = view'
      OBVIOUS
    <2>1. Outcome(view, w)
      BY <1>1, <1>4, <2>0, ValueChangeGives DEF SetSlider, Good
    <2>2. /\ Good(view)' /\ Settled(view)' /\ (Own(view) => Own(view)')
          /\ view'.layers = view'.visible
      BY <1>1, <2>0, <2>1 DEF Outcome, Good, Settled, Follows, Own, CommonTimes, Timed
    <2> QED
      BY <1>1, <2>2, ViewHolds
  <1> QED
    BY <1>3, <1>4

\* The positions Next and Previous go to are positions of the slider.
LEMMA NeighboursFit ==
    ASSUME IInv, HasSlider
    PROVE  /\ drawn /\ view.slider \in DOMAIN view.sorted /\ view.slider # NoSlider
           /\ NextIndex \in DOMAIN view.sorted
           /\ (IF view.slider > 0 THEN view.slider - 1 ELSE Last) \in DOMAIN view.sorted
  <1>1. drawn /\ view.slider # NoSlider /\ view.slider \in DOMAIN view.sorted
    BY DEF HasSlider, IInv, Good, SliderFits
  <1>2. PICK n \in Nat : DOMAIN view.sorted = 0 .. n - 1
    BY CommonIsOwn, SortingType DEF IInv, TypeOK, Good, Views
  <1>3. Last = n - 1
    BY <1>1, <1>2, FS_Interval DEF Last
  <1> QED
    BY <1>1, <1>2, <1>3 DEF NextIndex

\* A handle that is held is on a slider.
LEMMA HeldIsThere ==
    ASSUME IInv, view.dragging
    PROVE  drawn /\ view.slider \in DOMAIN view.sorted /\ view.slider # NoSlider
  <1>1. view.slider \in DOMAIN view.sorted
    BY DEF IInv, Good, SliderFits
  <1>2. \A i \in DOMAIN view.sorted : i \in Nat
    BY CommonIsOwn, SortingType DEF IInv, TypeOK, Good, Views
  <1>3. view.slider # NoSlider
    BY <1>1, <1>2, ViewerAssumption
  <1> QED
    BY <1>1, <1>3 DEF IInv

\* The handle is let go.
LEMMA DropHolds == ASSUME IInv, Drop PROVE IInv'
  <1>1. /\ context \in Contexts /\ context' = context /\ Good(view) /\ drawn
        /\ view.layers = view.visible /\ view.slider \in DOMAIN view.sorted
        /\ UNCHANGED <<context, drawn, sticky, open, timerVars>>
    BY HeldIsThere DEF Drop, IInv, TypeOK
  <1>2. PICK w : w = ValueChange(view, view.slider)
    OBVIOUS
  <1>3. Outcome(view, w) /\ Follows(w)
    BY <1>1, <1>2, ValueChangeGives DEF Good
  <1>4. view' = [w EXCEPT !.dragging = FALSE]
    BY <1>2 DEF Drop
  <1>5. /\ view' \in Views /\ view'.sorted = w.sorted /\ view'.layers = w.layers
        /\ view'.visible = w.visible /\ view'.time = w.time /\ view'.slider = w.slider
        /\ view'.moved = w.moved /\ view'.dragging = FALSE
    BY <1>3, <1>4 DEF Outcome, Good, Views
  <1>6. /\ Good(view)' /\ Settled(view)' /\ (Own(view) => Own(view)')
        /\ view'.layers = view'.visible
    BY <1>1, <1>3, <1>5 DEF Outcome, Good, SliderFits, Settled, Follows, Own, CommonTimes, Timed
  <1> QED
    BY <1>1, <1>6, ViewHolds

\* The user takes the handle.
LEMMA GraspHolds == ASSUME IInv, Grasp PROVE IInv'
  <1>1. /\ context' = context /\ Good(view) /\ drawn
        /\ view.layers = view.visible /\ view.slider # NoSlider
        /\ UNCHANGED <<context, drawn, sticky, open, timerVars>>
    BY DEF Grasp, HasSlider, IInv, TypeOK
  <1>2. view' = [view EXCEPT !.dragging = TRUE]
    BY DEF Grasp
  <1>3. /\ view' \in Views /\ view'.sorted = view.sorted /\ view'.layers = view.layers
        /\ view'.visible = view.visible /\ view'.time = view.time
        /\ view'.slider = view.slider /\ view'.dragging = TRUE
    BY <1>1, <1>2 DEF Good, Views
  <1>4. Good(view)' /\ Settled(view)' /\ (Own(view) => Own(view)')
    BY <1>1, <1>3 DEF Good, SliderFits, Settled, Own, CommonTimes, Timed
  <1> QED
    BY <1>1, <1>3, <1>4, ViewHolds

\* Boxes and buttons of the slideshow leave the view alone.
LEMMA ControlHolds ==
    ASSUME IInv, ToggleSticky \/ TimesliderPlay \/ Stop
    PROVE  IInv'
  <1>1. UNCHANGED <<context, drawn, view, open>>
    BY DEF ToggleSticky, TimesliderPlay, Stop
  <1>2. Good(view)' /\ (Settled(view) => Settled(view)') /\ (Own(view) => Own(view)')
    BY <1>1 DEF IInv, Good, Settled, Follows, Own, SliderFits, CommonTimes, Timed
  <1>3. TypeOK'
    <2>1. CASE ToggleSticky
      <3>1. sticky' \subseteq Layers \ context.base
        BY <2>1 DEF IInv, TypeOK, ToggleSticky
      <3> QED
        BY <1>1, <2>1, <3>1 DEF IInv, TypeOK, SliderFits, ToggleSticky, timerVars
    <2>2. CASE TimesliderPlay
      BY <1>1, <2>2, ViewerAssumption DEF IInv, TypeOK, SliderFits, TimesliderPlay
    <2>3. CASE Stop
      BY <1>1, <2>3 DEF IInv, TypeOK, SliderFits, Stop
    <2> QED
      BY <2>1, <2>2, <2>3
  <1>4. StopMissesOnlyOvertaken'
    BY DEF StopMissesOnlyOvertaken, IInv, ToggleSticky, TimesliderPlay, Stop, timerVars
  <1> QED
    BY <1>1, <1>2, <1>3, <1>4 DEF IInv

\* Every step keeps the invariant.
LEMMA StepHolds == IInv /\ [Next]_vars => IInv'
  <1> SUFFICES ASSUME IInv, [Next]_vars PROVE IInv'
    OBVIOUS
  <1>1. CASE UNCHANGED vars
    BY <1>1 DEF vars, timerVars, IInv, TypeOK, Good, Settled, Follows, Own, SliderFits, CommonTimes,
       Timed, StopMissesOnlyOvertaken
  <1>2. CASE TimesliderNext \/ TimesliderPrevious \/ Tick
    BY <1>2, NeighboursFit, SetSliderHolds DEF TimesliderNext, TimesliderPrevious, Tick
  <1>3. ASSUME NEW i \in DOMAIN view.sorted, Drag(i) PROVE IInv'
    <2>1. view.slider # NoSlider /\ drawn
      BY <1>3, HeldIsThere DEF Drag
    <2> QED
      BY <1>3, <2>1, SetSliderHolds DEF Drag
  <1> QED
    BY <1>1, <1>2, <1>3, DrawHolds, OpenHolds, DropHolds, GraspHolds, ControlHolds
       DEF Next

\* The invariant holds in every state.
LEMMA Invariance == Spec => []IInv
  BY InitHolds, StepHolds, PTL DEF Spec
-----------------------------------------------------------------------------
\* Map, slider and timers are well typed, and the handle is on the slider.
THEOREM Typing == Spec => []TypeOK
  <1>1. IInv => TypeOK
    BY DEF IInv
  <1> QED
    BY <1>1, Invariance, PTL

\* The visible layers show the time the slider stands at.
THEOREM SliderIsFollowed == Spec => []LayersFollowSlider
  <1>1. IInv => LayersFollowSlider
    BY DEF IInv, Settled, Follows, LayersFollowSlider, HasSlider
  <1> QED
    BY <1>1, Invariance, PTL

\* Layers are only asked for times of their own.
THEOREM TimesAreOwn == Spec => []LayersKeepOwnTimes
  <1>1. IInv => LayersKeepOwnTimes
    BY DEF IInv, Own, LayersKeepOwnTimes
  <1> QED
    BY <1>1, Invariance, PTL

\* Stop reaches every timer but those overtaken.
THEOREM StopReaches == Spec => []StopMissesOnlyOvertaken
  <1>1. IInv => StopMissesOnlyOvertaken
    BY DEF IInv
  <1> QED
    BY <1>1, Invariance, PTL
=============================================================================
