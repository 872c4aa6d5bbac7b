------------------------------ MODULE WmsViewer ------------------------------
(***************************************************************************)
(* The map viewer in the browser: the layers of a map context, the         *)
(* accordion that shows and hides them, and the time slider, which sets    *)
(* all visible layers to one of the times they have in common and can play *)
(* these times as a slideshow.                                             *)
(***************************************************************************)
EXTENDS Naturals, FiniteSets

CONSTANTS
    Layers,
    First,      \* map.layers[0]
    Times,      \* times, in the order of their strings
    Contexts,   \* the map contexts the server may send
    NoTime, NoLayer, NoSlider,
    MaxPlays    \* bound: times a slideshow is started

ContextType ==
    [base : SUBSET Layers, visible : SUBSET Layers,
     values : [Layers -> SUBSET Times], default : [Layers -> Times \cup {NoTime}]]

ASSUME ViewerAssumption ==
    /\ First \in Layers /\ NoLayer \notin Layers
    /\ Times \subseteq Nat /\ IsFiniteSet(Times)
    /\ NoTime \notin Times /\ NoSlider \notin Nat
    /\ Contexts \subseteq ContextType
    /\ MaxPlays \in Nat

VARIABLES
    context,    \* the map context
    drawn,      \* drawMap is over
    view,       \* the map and the slider, see Views
    sticky,     \* the layers that stay visible when their section closes
    open,       \* the layer whose section of the accordion is open
    intervals,  \* the interval timers that run
    slideshow,  \* the timer the Stop button clears, 0 before the first
    plays,      \* timers started so far, which number them
    overtaken   \* history: timers that ran when another was started

timerVars == <<intervals, slideshow, plays, overtaken>>
vars == <<context, drawn, view, sticky, open, timerVars>>

\* Times in their order, by position from 0 as in the slider.
Sortings(S) ==
    {s \in [0 .. Cardinality(S) - 1 -> S] : \A i, j \in DOMAIN s : i < j => s[i] < s[j]}

\* layers: visibleLayers; dragging: the user holds the handle of the slider; moved:
\* history, the slider has moved since drawMap.
Views ==
    [visible : SUBSET Layers, layers : SUBSET Layers, time : [Layers -> Times \cup {NoTime}],
     sorted : UNION {Sortings(S) : S \in SUBSET Times}, slider : Nat \cup {NoSlider},
     dragging : BOOLEAN, moved : BOOLEAN]

SliderFits(v) ==
    IF DOMAIN v.sorted = {} THEN v.slider = NoSlider /\ ~v.dragging
                            ELSE v.slider \in DOMAIN v.sorted

TypeOK ==
    /\ context \in Contexts
    /\ drawn \in BOOLEAN
    /\ view \in Views /\ SliderFits(view)
    /\ sticky \subseteq Layers \ context.base
    /\ open \in Layers \cup {NoLayer}
    /\ plays \in 0 .. MaxPlays
    /\ intervals \subseteq 1 .. plays /\ overtaken \subseteq 1 .. plays
    /\ slideshow \in 0 .. plays

Init ==
    /\ context \in Contexts
    /\ drawn = FALSE
    /\ view = [visible |-> context.visible, layers |-> {},
               time |-> [l \in Layers |-> NoTime],
               sorted |-> [i \in {} |-> NoTime], slider |-> NoSlider,
               dragging |-> FALSE, moved |-> FALSE]
    /\ sticky = {} /\ open = NoLayer
    /\ intervals = {} /\ slideshow = 0 /\ plays = 0 /\ overtaken = {}
-----------------------------------------------------------------------------
Timed(l) == context.values[l] # {}

\* Mutation: times of some layer only are not filtered out.
TimesOfAny(layers) == UNION {context.values[l] : l \in layers}

\* The times sortTimes leaves: those of all layers that have times.
CommonTimes(layers) ==
    {t \in UNION {context.values[l] : l \in layers} :
        \A l \in layers : Timed(l) => t \in context.values[l]}

\* The handle is at i and the event of the change is handled: changeLayerTime.
ValueChange(v, i) ==
    [v EXCEPT !.slider = i, !.moved = TRUE,
              !.time = [l \in Layers |-> IF l \in v.layers THEN v.sorted[i] ELSE v.time[l]]]

\* Mutation: the slider of before is not destroyed.
RedrawsKeeping(v) ==
    {IF DOMAIN s = {} THEN [v EXCEPT !.sorted = s]
                      ELSE ValueChange([v EXCEPT !.sorted = s], 0) :
        s \in Sortings(CommonTimes(v.layers))}

\* updateAvailableTimes and redraw. (There is one sorting.) The slider that is
\* destroyed lets go of the mouse.
Redraws(v) ==
    {IF DOMAIN s = {} THEN [v EXCEPT !.sorted = s, !.slider = NoSlider, !.dragging = FALSE]
                      ELSE ValueChange([v EXCEPT !.sorted = s, !.dragging = FALSE], 0) :
        s \in Sortings(CommonTimes(v.layers))}

\* Mutation: the visible layers are collected last.
LayerChangeLate(v) == {[w EXCEPT !.layers = v.visible] : w \in Redraws(v)}

LayerChange(v) == Redraws([v EXCEPT !.layers = v.visible])

\* A layer that stays hidden may be told so with false or undefined, which
\* setVisibility takes for a change.
SetVisibility(v, l, on) ==
    LET w == [v EXCEPT !.visible = IF on THEN @ \cup {l} ELSE @ \ {l}] IN
    (IF w = v THEN {v} ELSE {}) \cup (IF w = v /\ on THEN {} ELSE LayerChange(w))
-----------------------------------------------------------------------------
\* timesliderSetTime, with the default time of the first layer.
SetDefault(v) ==
    LET at == {i \in DOMAIN v.sorted : v.sorted[i] = context.default[First]} IN
    IF at = {} \/ ~Timed(First) THEN {v} ELSE {ValueChange(v, i) : i \in at}

\* The times layers start with, when they have any.
StartTimes ==
    {f \in [Layers -> Times \cup {NoTime}] : \A l \in Layers :
        IF context.default[l] # NoTime \/ ~Timed(l) THEN f[l] = context.default[l]
                                                    ELSE f[l] \in context.values[l]}

\* drawMap: first the slider, then the layers. Without dimensions of the first
\* layer the slider dies of an exception, and the layers never get their sections.
DrawMap ==
    /\ ~drawn
    /\ drawn' = TRUE
    /\ \E v \in LayerChange(view) :
          \/ /\ ~Timed(First)
             /\ view' = v
             /\ UNCHANGED open
          \/ \E w \in SetDefault(v), start \in StartTimes :
                /\ view' = [w EXCEPT !.moved = FALSE,
                      !.time = [l \in Layers |-> IF Timed(l) THEN start[l] ELSE w.time[l]]]
                /\ open' = First
    /\ UNCHANGED <<context, sticky, timerVars>>

\* The accordion closes the section of one layer and opens that of another.  It tells
\* when its animation is over, and the user may hold the handle by then.
OpenSection(n) ==
    /\ open \notin {NoLayer, n}
    /\ \E v \in IF open \in context.base THEN {view}
                                         ELSE SetVisibility(view, open, open \in sticky) :
          view' \in SetVisibility(v, n, TRUE)
    /\ open' = n
    /\ UNCHANGED <<context, drawn, sticky, timerVars>>

\* The box "stay visible" in the open section.
ToggleSticky ==
    /\ open \in Layers \ context.base /\ ~view.dragging
    /\ sticky' = IF open \in sticky THEN sticky \ {open} ELSE sticky \cup {open}
    /\ UNCHANGED <<context, drawn, view, open, timerVars>>
-----------------------------------------------------------------------------
HasSlider == drawn /\ view.slider # NoSlider

\* slider("value", i): while the handle is dragged no change is told.
SetSlider(i) ==
    /\ view' = IF view.dragging THEN [view EXCEPT !.slider = i] ELSE ValueChange(view, i)
    /\ UNCHANGED <<context, drawn, sticky, open, timerVars>>

Last == Cardinality(DOMAIN view.sorted) - 1

\* Mutation: the slider stays at the end.
NextIndexStays == IF view.slider < Last THEN view.slider + 1 ELSE view.slider

NextIndex == IF view.slider < Last THEN view.slider + 1 ELSE 0

TimesliderNext == HasSlider /\ SetSlider(NextIndex)

TimesliderPrevious ==
    HasSlider /\ SetSlider(IF view.slider > 0 THEN view.slider - 1 ELSE Last)

\* The user takes the handle, moves it and lets it go.
Grasp ==
    /\ HasSlider /\ ~view.dragging
    /\ view' = [view EXCEPT !.dragging = TRUE]
    /\ UNCHANGED <<context, drawn, sticky, open, timerVars>>

Drag(i) == view.dragging /\ i \in DOMAIN view.sorted /\ SetSlider(i)

Drop ==
    /\ view.dragging
    /\ view' = [ValueChange(view, view.slider) EXCEPT !.dragging = FALSE]
    /\ UNCHANGED <<context, drawn, sticky, open, timerVars>>
-----------------------------------------------------------------------------
\* Mutation: only the first timer is noted for Stop, as in slideshow = slideshow || ...
PlayNotesFirst ==
    /\ HasSlider /\ ~view.dragging
    /\ plays < MaxPlays
    /\ plays' = plays + 1
    /\ slideshow' = IF slideshow = 0 THEN plays' ELSE slideshow
    /\ intervals' = intervals \cup {plays'}
    /\ overtaken' = overtaken \cup intervals
    /\ UNCHANGED <<context, drawn, view, sticky, open>>

TimesliderPlay ==
    /\ HasSlider /\ ~view.dragging
    /\ plays < MaxPlays
    /\ plays' = plays + 1
    /\ slideshow' = plays'
    /\ intervals' = intervals \cup {plays'}
    /\ overtaken' = overtaken \cup intervals
    /\ UNCHANGED <<context, drawn, view, sticky, open>>

Stop ==
    /\ HasSlider /\ ~view.dragging
    /\ intervals' = intervals \ {slideshow}
    /\ UNCHANGED <<context, drawn, view, sticky, open, slideshow, plays, overtaken>>

\* A timer fires; without a slider it meets an exception and goes on.
Tick == intervals # {} /\ TimesliderNext

Next ==
    \/ DrawMap
    \/ \E l \in Layers : OpenSection(l)
    \/ ToggleSticky
    \/ ~view.dragging /\ (TimesliderNext \/ TimesliderPrevious)
    \/ Grasp \/ Drop \/ \E i \in DOMAIN view.sorted : Drag(i)
    \/ TimesliderPlay \/ Stop
    \/ Tick

Spec == Init /\ [][Next]_vars

(***************************************************************************)
(* drawMap is called when the context arrives, and a timer fires again and *)
(* again.                                                                  *)
(***************************************************************************)
FairSpec == Spec /\ WF_vars(DrawMap) /\ WF_vars(Tick)
-----------------------------------------------------------------------------
(***************************************************************************)
(* Once the slider has moved after the drawing, all visible layers show    *)
(* the time it stands at, whatever sections were opened and closed since   *)
(* and however timers and dragging interleave. While the handle is dragged *)
(* the layers wait.                                                        *)
(***************************************************************************)
LayersFollowSlider ==
    HasSlider /\ view.moved /\ ~view.dragging =>
        \A l \in view.visible : view.time[l] = view.sorted[view.slider]

(***************************************************************************)
(* A layer that has times is only ever asked for one of them, or for the   *)
(* default the map context names, also when it was hidden, shown together  *)
(* with others, or left with no slider.                                    *)
(***************************************************************************)
LayersKeepOwnTimes ==
    drawn /\ open # NoLayer => \A l \in Layers :
        Timed(l) => view.time[l] \in context.values[l] \cup {context.default[l]}

(***************************************************************************)
(* A timer that runs and that the Stop button does not clear is one a      *)
(* second press of Slideshow overtook.                                     *)
(***************************************************************************)
StopMissesOnlyOvertaken == intervals \ {slideshow} \subseteq overtaken

(***************************************************************************)
(* A slideshow the user leaves alone comes to each common time again and   *)
(* again, however many timers drive it.                                    *)
(***************************************************************************)
Playing(t) ==
    /\ HasSlider /\ ~view.dragging /\ intervals # {}
    /\ \E i \in DOMAIN view.sorted : view.sorted[i] = t

ShowsAllTimes ==
    <>[][Tick]_vars =>
        \A t \in Times : <>[]Playing(t) => []<>(HasSlider /\ view.sorted[view.slider] = t)
=============================================================================
