--------------------------- MODULE GesturesProofs ---------------------------
(***************************************************************************)
(* Theorems about gestures of the pointer (Gestures), for every number of  *)
(* events, changes of the view, resizes, switches and reconnections.       *)
(***************************************************************************)
EXTENDS Gestures, TLAPS, SequenceTheorems

-----------------------------------------------------------------------------
(* Types *)

Places == {"row", "canvas"}
Rows == [area : Nat, items : Nat, off : Nat]
Scene == [rev : Nat, gen : Nat, canvas : BOOLEAN, area : Nat,
          interaction : [row : Rows, rev : Nat]]
Scenes == Scene \cup {None}

Screen == [area : Nat, items : Nat, off : Nat, rev : Nat, shows : Nat, canvas : BOOLEAN,
           gen : Nat, capture : [place : Places, gen : Nat, row : Rows] \cup {None}]
Believed == [attached : Nat, buttons : SUBSET Buttons, key : BOOLEAN]
Session == [peer : BOOLEAN, view : Nat, scene : Scene, unsent : BOOLEAN,
            history : SUBSET Scene, press : Nat \cup {None}, embedded : Nat \cup {None},
            target : Scenes, scroll : Scenes, toggles : Nat]
Courses == {"none", "plain", "astray"}
Client == [conn : BOOLEAN, calling : BOOLEAN, connected : BOOLEAN, breaks : Nat, gen : Nat,
           pixels : BOOLEAN, last : Scenes, shown : Scenes, active : BOOLEAN,
           pressed : SUBSET Buttons, focused : BOOLEAN, refocus : BOOLEAN,
           held : SUBSET Buttons, course : Courses, key : BOOLEAN, events : Nat,
           resizes : Nat]

CanvasEvent ==
  [type : {"embedded"}, act : {"down", "up", "wheel"}, button : Buttons, rev : Nat, gen : Nat]
    \cup [type : {"embedded"}, act : {"release", "keydown", "keyup"}, button : {0},
          rev : Nat, gen : Nat]
PlainEvent == [type : {"pointer"}, act : {"down", "up", "wheel"}, button : Buttons,
               place : Places, rev : Nat, gen : Nat]
Notice == [type : {"resize", "presentation"}, gen : Nat] \cup [type : {"cancel"}]
            \cup [type : {"presented"}, rev : Nat, gen : Nat]
Post == CanvasEvent \cup PlainEvent \cup Notice

Types ==
  /\ ui \in Screen /\ ctl \in Believed /\ se \in Session /\ fe \in Client
  /\ up \in Seq(Post) /\ down \in Seq({"hello", "toggle"}) /\ slot \in Scenes
  /\ link \in {"open", "cut"} /\ (se.peer => ctl.attached > 0)

-----------------------------------------------------------------------------
(* What the frontend sends *)

\* A message that is sent under a condition.
Put(s, c, m) == IF c THEN Append(s, m) ELSE s

LEMMA PutType ==
  ASSUME NEW S, NEW s \in Seq(S), NEW m \in S, NEW c
  PROVE  Put(s, c, m) \in Seq(S)
  BY DEF Put

LEMMA SentOne ==
  ASSUME up \in Seq(Post), NEW a \in Post
  PROVE  Sent(<<a>>) = Put(up, fe.conn /\ link = "open", a)
<1>1. up \o <<a>> = Append(up, a)
  BY AppendIsConcat
<1> QED
  BY <1>1 DEF Sent, Put

LEMMA SentTwo ==
  ASSUME up \in Seq(Post), NEW c, NEW d, NEW a \in Post, NEW b \in Post
  PROVE  Sent(When(c, a) \o When(d, b)) =
           IF fe.conn /\ link = "open" THEN Put(Put(up, c, a), d, b) ELSE up
<1> DEFINE first == When(c, a)
           second == When(d, b)
<1>1. first \in Seq(Post) /\ second \in Seq(Post) /\ Put(up, c, a) \in Seq(Post)
  <2>1. <<a>> \in Seq(Post) /\ <<b>> \in Seq(Post) /\ <<>> \in Seq(Post)
    OBVIOUS
  <2> QED
    BY <2>1, PutType DEF When
<1>2. up \o (first \o second) = (up \o first) \o second
  <2> HIDE DEF first, second
  <2> QED
    BY SMTT(30), <1>1, ConcatAssociative
<1>3. up \o first = Put(up, c, a)
  BY AppendIsConcat, ConcatEmptySeq DEF Put, When
<1>4. Put(up, c, a) \o second = Put(Put(up, c, a), d, b)
  BY <1>1, AppendIsConcat, ConcatEmptySeq DEF Put, When
<1> QED
  BY <1>2, <1>3, <1>4 DEF Sent

\* What the user's events are stamped with.
LEMMA Stamped ==
  ASSUME GesturesAssumption, fe \in Client
  PROVE  /\ Rev \in Nat /\ Gen \in Nat /\ (Ready => Gen = fe.gen)
         /\ (fe.shown # None => fe.shown.gen <= fe.gen) => Gen <= fe.gen
<1>1. CASE fe.shown = None
  BY <1>1 DEF Client, Rev, Gen, Ready
<1>2. CASE fe.shown # None
  <2>1. fe.shown \in Scene
    BY <1>2 DEF Client, Scenes
  <2> QED
    BY <1>2, <2>1 DEF Rev, Gen, Ready, Scene
<1> QED
  BY <1>1, <1>2

LEMMA EventPosts ==
  ASSUME GesturesAssumption, fe \in Client
  PROVE  /\ \A act \in {"down", "up", "wheel"}, b \in Buttons : ToCanvas(act, b) \in Post
         /\ \A act \in {"release", "keydown", "keyup"} : ToCanvas(act, 0) \in Post
         /\ Release \in Post
         /\ \A act \in {"down", "up", "wheel"}, b \in Buttons, p \in Places :
              [type |-> "pointer", act |-> act, button |-> b, place |-> p,
               rev |-> Rev, gen |-> Gen] \in Post
         /\ [type |-> "cancel"] \in Post
         /\ \A g \in Nat : [type |-> "resize", gen |-> g] \in Post
         /\ \A g \in Nat : [type |-> "presentation", gen |-> g] \in Post
         /\ \A r, g \in Nat : [type |-> "presented", rev |-> r, gen |-> g] \in Post
<1>1. Rev \in Nat /\ Gen \in Nat
  BY Stamped
<1> QED
  BY <1>1 DEF Post, CanvasEvent, PlainEvent, Notice, ToCanvas, Release, Places

-----------------------------------------------------------------------------
(* What the user's steps do *)

Taken(place) == Routed /\ fe.last.canvas /\ (place = "canvas" \/ fe.pressed # {})
\* The Router lets go before the event is handled.
Dropped(act, place) == Gone \/ (Routed /\ ~Taken(place) /\ act = "down" /\ fe.active)
Event(act, b, place) ==
  IF Taken(place) THEN ToCanvas(act, b)
  ELSE [type |-> "pointer", act |-> act, button |-> b, place |-> place, rev |-> Rev, gen |-> Gen]

LEMMA Counts ==
  ASSUME NEW r \in Client
  PROVE  /\ [r EXCEPT !.events = @ + 1] \in Client /\ [r EXCEPT !.resizes = @ + 1] \in Client
         /\ [r EXCEPT !.gen = @ + 1] \in Client /\ [r EXCEPT !.breaks = @ + 1] \in Client
<1> DEFINE events == r.events + 1
           resizes == r.resizes + 1
           gen == r.gen + 1
           breaks == r.breaks + 1
<1>1. events \in Nat /\ resizes \in Nat /\ gen \in Nat /\ breaks \in Nat
  BY DEF Client
<1> HIDE DEF events, resizes, gen, breaks
<1>2. /\ [r EXCEPT !.events = events] \in Client /\ [r EXCEPT !.resizes = resizes] \in Client
      /\ [r EXCEPT !.gen = gen] \in Client /\ [r EXCEPT !.breaks = breaks] \in Client
  BY SMTT(30), <1>1 DEF Client
<1> QED
  BY <1>2 DEF events, resizes, gen, breaks

LEMMA LetGoType ==
  ASSUME fe \in Client
  PROVE  LetGo(fe) \in Client /\ LetGo(fe) = [fe EXCEPT !.active = FALSE, !.pressed = {}]
  BY DEF Client, LetGo

LEMMA MouseEffect ==
  ASSUME GesturesAssumption, Types, NEW act \in {"down", "up", "wheel"}, NEW b \in Buttons,
         NEW place \in Places, Mouse(act, b, place)
  PROVE  /\ fe.focused /\ (act = "down" => b \notin fe.held) /\ (act = "up" => b \in fe.held)
         /\ Event(act, b, place) \in Post
         /\ up' = IF fe.conn /\ link = "open"
                    THEN Put(Put(up, Dropped(act, place), Release), Ready, Event(act, b, place))
                    ELSE up
         /\ fe' \in Client
         /\ fe'.conn = fe.conn /\ fe'.calling = fe.calling /\ fe'.connected = fe.connected
         /\ fe'.gen = fe.gen /\ fe'.pixels = fe.pixels
         /\ fe'.last = fe.last /\ fe'.shown = fe.shown /\ fe'.focused = fe.focused
         /\ fe'.active = ((fe.active /\ ~Dropped(act, place)) \/ (Taken(place) /\ act = "down"))
         /\ (fe.pressed # {} => fe.active) => (fe'.pressed # {} => fe'.active)
         /\ fe'.refocus = (fe.refocus /\ act # "down")
         /\ fe'.course = Course(act, b, Taken(place))
         /\ fe'.held = (IF act = "down" THEN fe.held \cup {b}
                        ELSE IF act = "up" THEN fe.held \ {b} ELSE fe.held)
         /\ UNCHANGED <<ui, ctl, se, fired, down, slot, link>>
<1> DEFINE f == IF Gone THEN LetGo(fe) ELSE fe
           taken == Routed /\ fe.last.canvas /\ (place = "canvas" \/ f.pressed # {})
           outside == Routed /\ ~taken /\ act = "down" /\ f.active
           routed == IF outside THEN LetGo(f)
                     ELSE IF ~taken THEN f
                     ELSE IF act = "down" THEN [f EXCEPT !.active = TRUE, !.pressed = @ \cup {b}]
                     ELSE IF act = "up" THEN [f EXCEPT !.pressed = @ \ {b}] ELSE f
           event == IF taken THEN ToCanvas(act, b)
                    ELSE [type |-> "pointer", act |-> act, button |-> b, place |-> place,
                          rev |-> Rev, gen |-> Gen]
<1>1. /\ up' = Sent(When(Gone \/ outside, Release) \o When(Ready, event))
      /\ fe' = Counted([routed EXCEPT
                 !.refocus = @ /\ act # "down",
                 !.course = Course(act, b, taken),
                 !.held = IF act = "down" THEN @ \cup {b} ELSE IF act = "up" THEN @ \ {b} ELSE @])
  BY DEF Mouse
<1>2. /\ fe.focused /\ (act = "down" => b \notin fe.held) /\ (act = "up" => b \in fe.held)
      /\ UNCHANGED <<ui, ctl, se, fired, down, slot, link>>
  BY DEF Mouse, FeStep
<1>3. f \in Client /\ LetGo(fe) \in Client /\ fe \in Client
  BY LetGoType DEF Types
<1>4. taken <=> Taken(place)
  BY DEF Taken, Gone, LetGo
<1>5. (Gone \/ outside) <=> Dropped(act, place)
  BY <1>4, <1>3 DEF Dropped, LetGo, Client
<1>6. event = Event(act, b, place) /\ event \in Post /\ Release \in Post
  BY <1>3, <1>4, EventPosts DEF Event
<1>7. up' = IF fe.conn /\ link = "open"
              THEN Put(Put(up, Dropped(act, place), Release), Ready, Event(act, b, place)) ELSE up
  <2> DEFINE drop == Gone \/ outside
  <2>1. up' = Sent(When(drop, Release) \o When(Ready, event))
    BY <1>1
  <2> HIDE DEF drop, event
  <2>2. up' = IF fe.conn /\ link = "open" THEN Put(Put(up, drop, Release), Ready, event) ELSE up
    BY <1>6, <2>1, SentTwo DEF Types
  <2>3. drop = Dropped(act, place)
    BY <1>5 DEF drop, Dropped
  <2> QED
    BY <1>6, <2>2, <2>3
<1> DEFINE fields(r) ==
      /\ r \in Client
      /\ r.conn = fe.conn /\ r.calling = fe.calling /\ r.connected = fe.connected
      /\ r.breaks = fe.breaks /\ r.gen = fe.gen /\ r.pixels = fe.pixels
      /\ r.last = fe.last /\ r.shown = fe.shown /\ r.focused = fe.focused
      /\ r.refocus = fe.refocus /\ r.course = fe.course /\ r.held = fe.held
<1>8. /\ fields(f)
      /\ f.active = (fe.active /\ ~Gone)
      /\ f.pressed = IF Gone THEN {} ELSE fe.pressed
  BY <1>3 DEF LetGo, Client
<1>9. Gone => ~taken
  BY DEF Gone
<1> HIDE DEF f
<1>10. /\ fields(routed)
       /\ routed.active = ((fe.active /\ ~(Gone \/ outside)) \/ (taken /\ act = "down"))
       /\ (fe.pressed # {} => fe.active) => (routed.pressed # {} => routed.active)
  <2> HIDE DEF taken
  <2>1. CASE outside
    <3>1. routed = [f EXCEPT !.active = FALSE, !.pressed = {}]
      BY <2>1 DEF LetGo
    <3> QED
      BY <1>8, <2>1, <3>1 DEF Client
  <2>2. CASE ~outside /\ ~taken
    <3>1. routed = f
      BY <2>2
    <3> QED
      BY <1>8, <2>2, <3>1
  <2>3. CASE ~outside /\ taken /\ act = "down"
    <3>1. routed = [f EXCEPT !.active = TRUE, !.pressed = @ \cup {b}]
      BY <2>3
    <3> QED
      BY <1>8, <2>3, <3>1 DEF Client
  <2>4. CASE ~outside /\ taken /\ act = "up"
    <3>1. routed = [f EXCEPT !.pressed = @ \ {b}]
      BY <2>4
    <3> QED
      BY <1>8, <1>9, <2>4, <3>1 DEF Client
  <2>5. CASE ~outside /\ taken /\ act = "wheel"
    <3>1. routed = f
      BY <2>5
    <3> QED
      BY <1>8, <1>9, <2>5, <3>1
  <2> QED
    BY <2>1, <2>2, <2>3, <2>4, <2>5
<1>11. /\ fe' \in Client
       /\ fe'.conn = fe.conn /\ fe'.calling = fe.calling /\ fe'.connected = fe.connected
       /\ fe'.breaks = fe.breaks /\ fe'.gen = fe.gen /\ fe'.pixels = fe.pixels
       /\ fe'.last = fe.last /\ fe'.shown = fe.shown /\ fe'.focused = fe.focused
       /\ fe'.active = routed.active /\ fe'.pressed = routed.pressed
       /\ fe'.refocus = (fe.refocus /\ act # "down")
       /\ fe'.course = Course(act, b, Taken(place))
       /\ fe'.held = (IF act = "down" THEN fe.held \cup {b}
                      ELSE IF act = "up" THEN fe.held \ {b} ELSE fe.held)
  <2> DEFINE refocus == routed.refocus /\ act # "down"
             course == Course(act, b, taken)
             held == IF act = "down" THEN routed.held \cup {b}
                     ELSE IF act = "up" THEN routed.held \ {b} ELSE routed.held
  <2>1. fe' = [routed EXCEPT !.refocus = refocus, !.course = course, !.held = held,
                             !.events = @ + 1]
    BY <1>1 DEF Counted
  <2>2. refocus \in BOOLEAN /\ course \in Courses /\ held \in SUBSET Buttons
    BY <1>3, <1>10 DEF Client, Course, Courses
  <2>3. refocus = (fe.refocus /\ act # "down") 
        /\ course = Course(act, b, Taken(place))
        /\ held = (IF act = "down" THEN fe.held \cup {b}
                   ELSE IF act = "up" THEN fe.held \ {b} ELSE fe.held)
    BY <1>4, <1>10 DEF Course
  <2> HIDE DEF routed, refocus, course, held
  <2>4. routed \in Client
    BY <1>10
  <2>5. fe' \in Client
    <3>1. routed.events + 1 \in Nat
      BY <2>4 DEF Client
    <3>2. fe' = [routed EXCEPT !.refocus = refocus, !.course = course, !.held = held,
                               !.events = routed.events + 1]
      BY <2>1, <2>4 DEF Client
    <3>3. [routed EXCEPT !.refocus = refocus, !.course = course] \in Client
      BY <2>2, <2>4 DEF Client
    <3>4. [[routed EXCEPT !.refocus = refocus, !.course = course]
             EXCEPT !.held = held, !.events = routed.events + 1] \in Client
      BY <2>2, <3>1, <3>3 DEF Client
    <3> QED
      BY <3>2, <3>4
  <2>6. /\ fe'.conn = routed.conn /\ fe'.calling = routed.calling
        /\ fe'.connected = routed.connected /\ fe'.breaks = routed.breaks
        /\ fe'.gen = routed.gen /\ fe'.pixels = routed.pixels
        /\ fe'.last = routed.last /\ fe'.shown = routed.shown
        /\ fe'.focused = routed.focused /\ fe'.active = routed.active
        /\ fe'.pressed = routed.pressed /\ fe'.refocus = refocus
        /\ fe'.course = course /\ fe'.held = held /\ fe'.key = routed.key
    BY <2>1, <2>2, <2>4 DEF Client
  <2> QED
    BY <1>10, <2>3, <2>5, <2>6
<1> HIDE DEF taken, outside, event, routed
<1>12. fe'.active = ((fe.active /\ ~Dropped(act, place)) \/ (Taken(place) /\ act = "down"))
  BY <1>4, <1>5, <1>10, <1>11
<1>13. (fe.pressed # {} => fe.active) => (fe'.pressed # {} => fe'.active)
  BY <1>10, <1>11
<1> QED
  BY <1>1, <1>2, <1>4, <1>6, <1>7, <1>11, <1>12, <1>13

LEMMA KeyEffect ==
  ASSUME GesturesAssumption, Types, NEW act \in {"keydown", "keyup", "escape"}, Key(act)
  PROVE  /\ Routed /\ fe.active /\ fe.focused /\ (Ready \/ ~fe.connected)
         /\ (IF Gone \/ act = "escape" THEN Release ELSE ToCanvas(act, 0)) \in Post
         /\ up' = IF (Ready \/ Gone) /\ fe.conn /\ link = "open"
                    THEN Append(up, IF Gone \/ act = "escape" THEN Release ELSE ToCanvas(act, 0))
                    ELSE up
         /\ fe' \in Client
         /\ fe'.conn = fe.conn /\ fe'.calling = fe.calling /\ fe'.connected = fe.connected
         /\ fe'.gen = fe.gen /\ fe'.pixels = fe.pixels
         /\ fe'.last = fe.last /\ fe'.shown = fe.shown /\ fe'.focused = fe.focused
         /\ fe'.active = (fe.active /\ ~Gone /\ act # "escape") /\ ~fe'.refocus
         /\ (fe.pressed # {} => fe.active) => (fe'.pressed # {} => fe'.active)
         /\ fe'.course = fe.course /\ fe'.held = fe.held
         /\ UNCHANGED <<ui, ctl, se, fired, down, slot, link>>
<1> DEFINE lets == Gone \/ act = "escape"
           m == IF lets THEN Release ELSE ToCanvas(act, 0)
           r == IF lets THEN LetGo(fe) ELSE fe
           key == (act = "keydown" \/ r.key) /\ act # "keyup"
<1>1. m \in Post
  BY EventPosts DEF Types
<1>2. /\ Routed /\ fe.active /\ fe.focused /\ (Ready \/ ~fe.connected)
      /\ UNCHANGED <<ui, ctl, se, fired, down, slot, link>>
      /\ up' = IF Ready \/ Gone THEN Sent(<<m>>) ELSE up
      /\ fe' = Counted([r EXCEPT !.refocus = FALSE, !.key = key])
  BY DEF Key, FeStep
<1>3. r \in Client
  BY LetGoType DEF Types
<1>4. /\ r.conn = fe.conn /\ r.calling = fe.calling /\ r.connected = fe.connected
      /\ r.gen = fe.gen /\ r.pixels = fe.pixels /\ r.course = fe.course /\ r.held = fe.held
      /\ r.last = fe.last /\ r.shown = fe.shown /\ r.focused = fe.focused
      /\ r.active = (fe.active /\ ~lets)
      /\ (fe.pressed # {} => fe.active) => (r.pressed # {} => r.active)
  BY DEF Types, Client, LetGo
<1>5. key \in BOOLEAN
  OBVIOUS
<1>6. Sent(<<m>>) = Put(up, fe.conn /\ link = "open", m)
  <2> HIDE DEF m
  <2> QED
    BY <1>1, SentOne DEF Types
<1> HIDE DEF r, key
<1>7. fe' \in Client
  <2>1. [r EXCEPT !.refocus = FALSE, !.key = key] \in Client
    BY <1>3, <1>5 DEF Client
  <2> QED
    BY <1>2, <2>1, Counts DEF Counted
<1>8. /\ fe'.conn = r.conn /\ fe'.calling = r.calling /\ fe'.connected = r.connected
      /\ fe'.gen = r.gen /\ fe'.pixels = r.pixels /\ fe'.course = r.course
      /\ fe'.held = r.held /\ fe'.last = r.last /\ fe'.shown = r.shown
      /\ fe'.focused = r.focused /\ fe'.active = r.active /\ fe'.pressed = r.pressed
      /\ ~fe'.refocus
  BY <1>2, <1>3, <1>5 DEF Counted, Client
<1>9. up' = IF (Ready \/ Gone) /\ fe.conn /\ link = "open" THEN Append(up, m) ELSE up
  BY <1>2, <1>6 DEF Put
<1> QED
  BY <1>1, <1>2, <1>4, <1>7, <1>8, <1>9

LEMMA LoseFocusEffect ==
  ASSUME GesturesAssumption, Types, LoseFocus
  PROVE  /\ Release \in Post /\ [type |-> "cancel"] \in Post
         /\ up' = IF fe.conn /\ link = "open"
                    THEN Put(Put(up, Routed /\ fe.active, Release), Ready, [type |-> "cancel"])
                    ELSE up
         /\ fe' \in Client
         /\ fe'.conn = fe.conn /\ fe'.calling = fe.calling /\ fe'.connected = fe.connected
         /\ fe'.gen = fe.gen /\ fe'.pixels = fe.pixels
         /\ fe'.last = fe.last /\ fe'.shown = fe.shown
         /\ fe'.active = (fe.active /\ ~Routed) /\ ~fe'.refocus
         /\ (fe.pressed # {} => fe.active) => (fe'.pressed # {} => fe'.active)
         /\ fe'.course = (IF Ready THEN "none" ELSE fe.course) /\ fe'.held = {}
         /\ UNCHANGED <<ui, ctl, se, fired, down, slot, link>>
<1> DEFINE r == IF Routed THEN LetGo(fe) ELSE fe
           course == IF Ready THEN "none" ELSE r.course
<1>1. Release \in Post /\ [type |-> "cancel"] \in Post
  BY EventPosts DEF Types
<1>2. /\ UNCHANGED <<ui, ctl, se, fired, down, slot, link>>
      /\ up' = Sent(When(Routed /\ fe.active, Release) \o When(Ready, [type |-> "cancel"]))
      /\ fe' = Counted([r EXCEPT !.focused = FALSE, !.refocus = FALSE, !.held = {},
                                 !.key = FALSE, !.course = course])
  BY DEF LoseFocus, FeStep
<1>3. r \in Client
  BY LetGoType DEF Types
<1>4. /\ r.conn = fe.conn /\ r.calling = fe.calling /\ r.connected = fe.connected
      /\ r.gen = fe.gen /\ r.pixels = fe.pixels /\ r.course = fe.course
      /\ r.last = fe.last /\ r.shown = fe.shown
      /\ r.active = (fe.active /\ ~Routed)
      /\ (fe.pressed # {} => fe.active) => (r.pressed # {} => r.active)
  BY DEF Types, Client, LetGo
<1>5. up' = IF fe.conn /\ link = "open"
              THEN Put(Put(up, Routed /\ fe.active, Release), Ready, [type |-> "cancel"])
              ELSE up
  BY SMTT(30), <1>1, <1>2, SentTwo DEF Types
<1>8. course \in Courses /\ course = (IF Ready THEN "none" ELSE fe.course)
  BY <1>3, <1>4 DEF Client, Courses
<1> HIDE DEF r, course
<1>6. fe' \in Client
  <2>1. [r EXCEPT !.focused = FALSE, !.refocus = FALSE] \in Client
    BY <1>3 DEF Client
  <2>2. [[r EXCEPT !.focused = FALSE, !.refocus = FALSE]
           EXCEPT !.held = {}, !.key = FALSE] \in Client
    BY <2>1 DEF Client
  <2> DEFINE x == [[r EXCEPT !.focused = FALSE, !.refocus = FALSE]
                     EXCEPT !.held = {}, !.key = FALSE]
  <2>3. fe' = Counted([x EXCEPT !.course = course])
    BY <1>2
  <2>4. x \in Client
    BY <2>2
  <2> HIDE DEF x
  <2>5. [x EXCEPT !.course = course] \in Client
    BY <1>8, <2>4 DEF Client
  <2> QED
    BY <2>3, <2>5, Counts DEF Counted
<1>7. /\ fe'.conn = r.conn /\ fe'.calling = r.calling /\ fe'.connected = r.connected
      /\ fe'.gen = r.gen /\ fe'.pixels = r.pixels /\ fe'.course = course
      /\ fe'.held = {} /\ fe'.last = r.last /\ fe'.shown = r.shown
      /\ fe'.active = r.active /\ fe'.pressed = r.pressed /\ ~fe'.refocus
  BY <1>2, <1>3 DEF Counted, Client
<1> QED
  BY <1>1, <1>2, <1>4, <1>5, <1>6, <1>7, <1>8

LEMMA ResizeEffect ==
  ASSUME GesturesAssumption, Types, Resize
  PROVE  /\ Release \in Post /\ [type |-> "resize", gen |-> fe.gen + 1] \in Post
         /\ up' = IF fe.conn /\ link = "open"
                    THEN Put(Put(up, Routed /\ fe.active, Release), fe.connected,
                             [type |-> "resize", gen |-> fe.gen + 1])
                    ELSE up
         /\ fe' \in Client
         /\ fe'.conn = fe.conn /\ fe'.calling = fe.calling /\ fe'.connected = fe.connected
         /\ fe'.gen = fe.gen + 1 /\ fe'.pixels = fe.pixels /\ fe'.focused = fe.focused
         /\ fe'.last = None /\ fe'.shown = None
         /\ fe'.active = (fe.active /\ ~Routed)
         /\ (fe'.refocus => fe.refocus \/ fe.focused)
         /\ (fe.pressed # {} => fe.active) => (fe'.pressed # {} => fe'.active)
         /\ fe'.course = "none" /\ fe'.held = fe.held
         /\ UNCHANGED <<ui, ctl, se, fired, down, slot, link>>
<1> DEFINE r == IF Routed THEN LetGo(fe) ELSE fe
           refocus == r.refocus \/ (fe.focused /\ fe.active)
<1>0. fe \in Client /\ fe.gen + 1 \in Nat
  BY DEF Types, Client
<1>1. Release \in Post /\ [type |-> "resize", gen |-> fe.gen + 1] \in Post
  BY <1>0, EventPosts
<1>2. /\ UNCHANGED <<ui, ctl, se, fired, down, slot, link>>
      /\ up' = Sent(When(Routed /\ fe.active, Release)
                      \o When(fe.connected, [type |-> "resize", gen |-> fe.gen + 1]))
      /\ fe' = [r EXCEPT !.refocus = refocus, !.resizes = @ + 1,
                         !.gen = @ + 1, !.last = None, !.shown = None, !.course = "none"]
  BY DEF Resize, FeStep
<1>3. r \in Client
  BY <1>0, LetGoType
<1>4. /\ r.conn = fe.conn /\ r.calling = fe.calling /\ r.connected = fe.connected
      /\ r.gen = fe.gen /\ r.pixels = fe.pixels /\ r.course = fe.course
      /\ r.held = fe.held /\ r.focused = fe.focused /\ r.refocus = fe.refocus
      /\ r.active = (fe.active /\ ~Routed)
      /\ (fe.pressed # {} => fe.active) => (r.pressed # {} => r.active)
  BY <1>0 DEF Client, LetGo
<1>5. up' = IF fe.conn /\ link = "open"
              THEN Put(Put(up, Routed /\ fe.active, Release), fe.connected,
                       [type |-> "resize", gen |-> fe.gen + 1])
              ELSE up
  BY SMTT(30), <1>1, <1>2, SentTwo DEF Types
<1>6. refocus \in BOOLEAN /\ refocus = (fe.refocus \/ (fe.focused /\ fe.active))
  BY <1>4
<1> HIDE DEF r, refocus
<1>7. fe' \in Client
  <2> DEFINE x == [r EXCEPT !.refocus = refocus]
             y == [x EXCEPT !.resizes = @ + 1]
             z == [y EXCEPT !.gen = @ + 1]
  <2>1. x \in Client
    BY <1>3, <1>6 DEF Client
  <2>2. y \in Client
    <3> HIDE DEF x
    <3> QED
      BY <2>1, Counts
  <2>3. z \in Client
    <3> HIDE DEF y
    <3> QED
      BY <2>2, Counts
  <2>4. [z EXCEPT !.last = None, !.shown = None, !.course = "none"] \in Client
    <3> HIDE DEF z
    <3> QED
      BY <2>3 DEF Client, Scenes, Courses
  <2>5. fe' = [z EXCEPT !.last = None, !.shown = None, !.course = "none"]
    BY <1>2, <1>3 DEF Client
  <2> QED
    BY <2>4, <2>5
<1>8. /\ fe'.conn = r.conn /\ fe'.calling = r.calling /\ fe'.connected = r.connected
      /\ fe'.gen = r.gen + 1 /\ fe'.pixels = r.pixels /\ fe'.course = "none"
      /\ fe'.held = r.held /\ fe'.last = None /\ fe'.shown = None /\ fe'.focused = r.focused
      /\ fe'.active = r.active /\ fe'.pressed = r.pressed /\ fe'.refocus = refocus
  BY <1>2, <1>3 DEF Client
<1> QED
  BY <1>1, <1>2, <1>4, <1>5, <1>6, <1>7, <1>8


-----------------------------------------------------------------------------
(* Every step keeps the types *)

LEMMA SceneType ==
  ASSUME NEW u \in Screen, NEW rev \in Nat
  PROVE  SceneOf(u, rev) \in Scene
<1>1. Row(u) \in Rows
  BY DEF Screen, Row, Rows
<1> QED
  BY <1>1 DEF SceneOf, Screen, Scene

LEMMA ScreenTypes ==
  ASSUME NEW u \in Screen
  PROVE  /\ Uncaptured(u) \in Screen
         /\ \A part \in {"items", "area"} : Retargeted(u, part) \in Screen
         /\ \A view \in Nat : Framed(u, view) \in Screen
         /\ \A m \in PlainEvent : Pointed(u, m) \in Screen
<1>1. ASSUME NEW v \in Screen PROVE Uncaptured(v) \in Screen
  BY DEF Uncaptured, Screen
<1>2. ASSUME NEW part \in {"items", "area"} PROVE Retargeted(u, part) \in Screen
  <2>1. CASE part = "items"
    <3>1. u.items + 1 \in Nat
      BY DEF Screen
    <3>2. [u EXCEPT !.items = u.items + 1] \in Screen
      BY <3>1 DEF Screen
    <3> QED
      BY <1>1, <2>1, <3>2 DEF Retargeted
  <2>2. CASE part = "area"
    <3>1. u.area + 1 \in Nat
      BY DEF Screen
    <3>2. [u EXCEPT !.area = u.area + 1] \in Screen
      BY <3>1 DEF Screen
    <3> QED
      BY <1>1, <2>2, <3>2 DEF Retargeted
  <2> QED
    BY <2>1, <2>2
<1>3. ASSUME NEW view \in Nat PROVE Framed(u, view) \in Screen
  <2>1. [u EXCEPT !.gen = view] \in Screen
    BY DEF Screen
  <2> QED
    BY <1>1, <2>1 DEF Framed
<1>4. ASSUME NEW m \in PlainEvent PROVE Pointed(u, m) \in Screen
  <2>1. Down(u, m) \in Screen
    <3>1. Row(u) \in Rows /\ m.place \in Places /\ u.gen \in Nat
      BY DEF Screen, Row, Rows, PlainEvent
    <3>2. [place |-> m.place, gen |-> u.gen, row |-> Row(u)]
            \in [place : Places, gen : Nat, row : Rows]
      BY <3>1
    <3> DEFINE new == [place |-> m.place, gen |-> u.gen, row |-> Row(u)]
    <3> HIDE DEF new
    <3>3. [u EXCEPT !.capture = new] \in Screen
      BY <3>2 DEF Screen, new
    <3> QED
      BY <3>3 DEF Down, new
  <2>2. [u EXCEPT !.off = @ + 1] \in Screen
    <3>1. u.off + 1 \in Nat
      BY DEF Screen
    <3> QED
      BY <3>1 DEF Screen
  <2> QED
    BY <1>1, <2>1, <2>2 DEF Pointed, Wheel
<1> QED
  BY <1>1, <1>2, <1>3, <1>4

LEMMA RefocusedType ==
  ASSUME NEW f \in Client
  PROVE  Refocused(f) \in Client
<1>1. LetGo(f) \in Client
  BY DEF LetGo, Client
<1>2. [f EXCEPT !.active = TRUE, !.refocus = FALSE] \in Client
  BY DEF Client
<1> QED
  BY <1>1, <1>2 DEF Refocused

\* The handlers of the session.
LEMMA HandlerTypes ==
  ASSUME GesturesAssumption, Types, NEW m \in Post, NEW alive \in BOOLEAN,
         \/ Pointer(m, alive) \/ CancelPointer(m, alive) \/ ResizeInput(m, alive)
         \/ Embedded(m, alive) \/ Presented(m) \/ SwitchInput(m)
  PROVE  ui' \in Screen /\ ctl' \in Believed /\ se' \in Session
<1>0. ui \in Screen /\ ctl \in Believed /\ se \in Session /\ Uncaptured(ui) \in Screen
  BY ScreenTypes DEF Types
<1>1. CASE Pointer(m, alive)
  <2>1. m \in PlainEvent
    BY <1>1 DEF Pointer, Post, CanvasEvent, Notice
  <2>2. Press(m) \in Nat \cup {None}
    BY <1>0, <2>1 DEF Press, PlainEvent, Session
  <2>3. Pointed(ui, m) \in Screen
    BY <1>0, <2>1, ScreenTypes
  <2>4. se' \in Session
    <3>1. se' = [se EXCEPT !.press = Press(m), !.peer = alive]
      BY <1>1 DEF Pointer
    <3> QED
      BY <1>0, <2>2, <3>1 DEF Session
  <2> QED
    BY <1>0, <1>1, <2>3, <2>4 DEF Pointer
<1>2. CASE CancelPointer(m, alive)
  BY <1>0, <1>2 DEF CancelPointer, Session
<1>3. CASE ResizeInput(m, alive)
  <2>1. m.gen \in Nat
    BY <1>3 DEF ResizeInput, Post, CanvasEvent, PlainEvent, Notice
  <2> QED
    BY <1>0, <1>3, <2>1 DEF ResizeInput, Session
<1>4. CASE Embedded(m, alive)
  <2>1. m \in CanvasEvent
    BY <1>4 DEF Embedded, Post, PlainEvent, Notice
  <2> DEFINE embedded == IF Releases(m) \/ OwnUp(m) THEN None
                         ELSE IF m.act = "down" /\ EmbeddedAdmits(m) THEN m.gen ELSE se.embedded
  <2>2. embedded \in Nat \cup {None}
    BY <1>0, <2>1 DEF CanvasEvent, Session
  <2>3. se' = [se EXCEPT !.peer = alive, !.embedded = embedded]
    BY <1>4 DEF Embedded
  <2>4. se' \in Session
    <3> HIDE DEF embedded
    <3> QED
      BY <1>0, <2>2, <2>3 DEF Session
  <2>5. Embodied(m) \in Believed
    BY <1>0, <2>1 DEF Embodied, Believed, CanvasEvent
  <2> QED
    BY <1>0, <1>4, <2>4, <2>5 DEF Embedded
<1>5. CASE Presented(m)
  <2>1. CASE \E h \in se.history : h.rev = m.rev /\ h.gen = m.gen
    <3> DEFINE h == CHOOSE h \in se.history : h.rev = m.rev /\ h.gen = m.gen
    <3>1. h \in se.history
      BY <2>1
    <3>2. se' = [se EXCEPT !.target = h, !.scroll = h]
      BY <1>5, <2>1 DEF Presented
    <3>3. h \in Scenes
      BY <1>0, <3>1 DEF Session, Scenes
    <3> HIDE DEF h
    <3> QED
      BY <1>0, <1>5, <3>2, <3>3 DEF Presented, Session
  <2>2. CASE ~ \E h \in se.history : h.rev = m.rev /\ h.gen = m.gen
    BY <1>0, <1>5, <2>2 DEF Presented
  <2> QED
    BY SMTT(30), <2>1, <2>2
<1>6. CASE SwitchInput(m)
  <2>1. m.gen \in Nat
    BY <1>6 DEF SwitchInput, Post, CanvasEvent, PlainEvent, Notice
  <2>2. [se EXCEPT !.view = m.gen] \in Session
    BY <1>0, <2>1 DEF Session
  <2> QED
    BY <1>0, <1>6, <2>2 DEF SwitchInput
<1> QED
  BY <1>1, <1>2, <1>3, <1>4, <1>5, <1>6


LEMMA TypesStep ==
  ASSUME GesturesAssumption, Types, [Next]_vars
  PROVE  Types'
<1>0. /\ ui \in Screen /\ ctl \in Believed /\ se \in Session /\ fe \in Client
      /\ up \in Seq(Post) /\ down \in Seq({"hello", "toggle"}) /\ slot \in Scenes
      /\ link \in {"open", "cut"}
  BY DEF Types
<1>1. CASE Work
  <2>1. ui' \in Screen
    <3>1. CASE \E part \in {"items", "area"} : ui' = Retargeted(ui, part)
      BY <1>0, <3>1, ScreenTypes
    <3>2. CASE ui' = [ui EXCEPT !.rev = @ + 1]
      <4>1. ui.rev + 1 \in Nat
        BY <1>0 DEF Screen
      <4> QED
        BY <1>0, <3>2, <4>1 DEF Screen
    <3>3. CASE ui' = [ui EXCEPT !.canvas = ~@, !.shows = @ + 1]
      <4>1. ui.shows + 1 \in Nat
        BY <1>0 DEF Screen
      <4>2. [ui EXCEPT !.canvas = ~ui.canvas] \in Screen
        BY <1>0 DEF Screen
      <4>3. [[ui EXCEPT !.canvas = ~ui.canvas] EXCEPT !.shows = ui.shows + 1] \in Screen
        BY <4>1, <4>2 DEF Screen
      <4> QED
        BY <3>3, <4>3
    <3> QED
      BY <1>1, <3>1, <3>2, <3>3 DEF Work
  <2> QED
    BY <1>0, <1>1, <2>1 DEF Work, Types
<1>2. CASE AskToggle
  <2>1. se.toggles + 1 \in Nat
    BY <1>0 DEF Session
  <2>2. se' = [se EXCEPT !.toggles = se.toggles + 1]
    BY <1>2 DEF AskToggle
  <2>3. se' \in Session /\ se'.peer = se.peer
    BY <1>0, <2>1, <2>2 DEF Session
  <2>4. down' \in Seq({"hello", "toggle"})
    BY <1>0, <1>2 DEF AskToggle
  <2> QED
    BY <1>0, <1>2, <2>3, <2>4 DEF AskToggle, Types
<1>3. CASE Eof
  <2>1. se' \in Session /\ ~se'.peer /\ ui' \in Screen
    BY <1>0, <1>3, ScreenTypes DEF Eof, Detached, Idle, Session
  <2>2. ctl.attached - 1 \in Nat
    BY <1>0, <1>3 DEF Eof, Believed, Types
  <2>3. ctl' = [ctl EXCEPT !.attached = ctl.attached - 1, !.buttons = {}, !.key = FALSE]
    BY <1>3 DEF Eof, Detached
  <2>4. ctl' \in Believed
    BY <1>0, <2>2, <2>3 DEF Believed
  <2> QED
    BY <1>0, <1>3, <2>1, <2>4 DEF Eof, Types, Scenes
<1>4. CASE Attach
  <2>1. fe.gen \in Nat /\ ctl.attached + 1 \in Nat /\ ctl.attached + 1 > 0
    BY <1>0 DEF Client, Believed
  <2>2. [se EXCEPT !.peer = TRUE, !.unsent = TRUE] \in Session
    BY <1>0 DEF Session
  <2>3. se' \in Session
    <3>1. [[se EXCEPT !.peer = TRUE, !.unsent = TRUE] EXCEPT !.view = fe.gen] \in Session
      BY <2>1, <2>2 DEF Session
    <3>2. se' = [[se EXCEPT !.peer = TRUE, !.unsent = TRUE] EXCEPT !.view = fe.gen]
      BY <1>0, <1>4 DEF Attach, Session
    <3> QED
      BY <3>1, <3>2
  <2>4. fe' \in Client
    BY <1>0, <1>4 DEF Attach, Client
  <2>5. ctl' \in Believed /\ ctl'.attached > 0 /\ ui' \in Screen
    <3>1. CASE se.peer
      BY <1>0, <1>4, <3>1, ScreenTypes DEF Attach, Believed, Types
    <3>2. CASE ~se.peer
      <4>1. ctl' = [ctl EXCEPT !.attached = ctl.attached + 1] /\ ui' = ui
        BY <1>4, <3>2 DEF Attach
      <4> QED
        BY <1>0, <2>1, <4>1 DEF Believed
    <3> QED
      BY <3>1, <3>2
  <2>6. up' \in Seq(Post) /\ down' \in Seq({"hello", "toggle"}) /\ slot' \in Scenes
        /\ link' \in {"open", "cut"}
    BY <1>4 DEF Attach, Scenes
  <2> QED
    BY <2>3, <2>4, <2>5, <2>6 DEF Types
<1>5. CASE Receive
  <2>1. PICK alive \in BOOLEAN :
          \/ Pointer(Head(up), alive) \/ CancelPointer(Head(up), alive)
          \/ ResizeInput(Head(up), alive) \/ Embedded(Head(up), alive)
          \/ Presented(Head(up)) \/ SwitchInput(Head(up))
    BY <1>5 DEF Receive
  <2>2. Head(up) \in Post /\ Tail(up) \in Seq(Post) /\ se.peer
    BY <1>0, <1>5, HeadTailProperties DEF Receive
  <2>3. ui' \in Screen /\ ctl' \in Believed /\ se' \in Session
    BY <2>1, <2>2, HandlerTypes
  <2>4. ctl'.attached = ctl.attached
    BY <1>0, <2>1 DEF Pointer, CancelPointer, ResizeInput, Embedded, Presented, SwitchInput,
                      Embodied, Believed
  <2>5. up' \in Seq(Post) /\ UNCHANGED <<fe, down, slot, link>>
    BY <1>5, <2>2 DEF Receive
  <2> QED
    BY <1>0, <2>2, <2>3, <2>4, <2>5 DEF Types
<1>6. CASE Paint
  <2> DEFINE u == Framed(ui, se.view)
             same == SceneOf(u, se.scene.rev) = se.scene
             scene == IF same THEN se.scene ELSE SceneOf(u, se.scene.rev + 1)
  <2>1. u \in Screen /\ se.scene \in Scene /\ se.scene.rev + 1 \in Nat
    <3>1. se.view \in Nat /\ se.scene \in Scene
      BY <1>0 DEF Session
    <3>2. Framed(ui, se.view) \in Screen
      BY <1>0, <3>1, ScreenTypes
    <3>3. se.scene.rev \in Nat
      BY <3>1 DEF Scene
    <3> QED
      BY <3>1, <3>2, <3>3
  <2> HIDE DEF u
  <2>2. scene \in Scene
    BY <2>1, SceneType
  <2>3. /\ ui' = u /\ slot' = scene /\ UNCHANGED <<ctl, fe, up, down, link>>
        /\ se' = [se EXCEPT !.scene = scene, !.unsent = FALSE, !.history = @ \cup {scene}]
    BY <1>6 DEF Paint, u
  <2> HIDE DEF scene
  <2>4. se' \in Session /\ se'.peer = se.peer
    BY <1>0, <2>2, <2>3 DEF Session
  <2> QED
    BY <1>0, <2>1, <2>2, <2>3, <2>4 DEF Types, Scenes
<1>7. CASE HandleHello
  <2>1. [type |-> "resize", gen |-> fe.gen] \in Post
    BY <1>0, EventPosts DEF Client
  <2>2. up' = Put(up, fe.conn /\ link = "open", [type |-> "resize", gen |-> fe.gen])
    BY <1>0, <1>7, <2>1, SentOne DEF HandleHello
  <2>3. up' \in Seq(Post)
    BY <1>0, <2>1, <2>2, PutType
  <2>4. fe' \in Client
    BY <1>0, <1>7 DEF HandleHello, Client, Scenes, Courses
  <2>5. down' \in Seq({"hello", "toggle"})
    BY <1>0, <1>7, HeadTailProperties DEF HandleHello
  <2> QED
    BY <1>0, <1>7, <2>3, <2>4, <2>5 DEF HandleHello, FeStep, Types
<1>8. CASE HandleToggle
  <2>1. fe.gen + 1 \in Nat /\ [type |-> "presentation", gen |-> fe.gen + 1] \in Post
    BY SMTT(30), <1>0, EventPosts DEF Client
  <2>2. up' = Put(up, fe.conn /\ link = "open", [type |-> "presentation", gen |-> fe.gen + 1])
    BY <1>0, <1>8, <2>1, SentOne DEF HandleToggle
  <2>3. up' \in Seq(Post)
    BY <1>0, <2>1, <2>2, PutType
  <2>4. fe' \in Client
    <3> DEFINE x == [fe EXCEPT !.gen = @ + 1]
    <3>1. x \in Client
      BY <1>0, Counts
    <3>2. fe' = [x EXCEPT !.pixels = ~@, !.last = None, !.shown = None, !.course = "none"]
      BY <1>0, <1>8 DEF HandleToggle, Client
    <3> HIDE DEF x
    <3> QED
      BY <3>1, <3>2 DEF Client, Scenes, Courses
  <2>5. down' \in Seq({"hello", "toggle"})
    BY <1>0, <1>8, HeadTailProperties DEF HandleToggle
  <2> QED
    BY <1>0, <1>8, <2>3, <2>4, <2>5 DEF HandleToggle, FeStep, Types
<1>9. CASE Arrive
  <2>1. [fe EXCEPT !.last = slot] \in Client
    BY <1>0 DEF Client
  <2>2. fe' \in Client
    BY <1>0, <1>9, <2>1, RefocusedType DEF Arrive
  <2> QED
    BY <1>0, <1>9, <2>2 DEF Arrive, FeStep, Types, Scenes
<1>10. CASE Show
  <2>1. fe.last \in Scene
    BY <1>0, <1>10 DEF Show, Client, Scenes
  <2>2. [type |-> "presented", rev |-> fe.last.rev, gen |-> fe.last.gen] \in Post
    BY <1>0, <2>1, EventPosts DEF Scene
  <2>3. up' \in Seq(Post)
    BY <1>0, <1>10, <2>2, SentOne, PutType DEF Show
  <2>4. fe' \in Client
    BY <1>0, <1>10 DEF Show, Client
  <2> QED
    BY <1>0, <1>10, <2>3, <2>4 DEF Show, FeStep, Types
<1>11. CASE Lose
  BY <1>0, <1>11, Counts DEF Lose, FeStep, Types
<1>12. CASE Dead
  <2>1. fe' \in Client
    <3>1. LetGo(fe) \in Client
      BY <1>0, LetGoType
    <3> QED
      BY <1>12, <3>1 DEF Dead, Client, Scenes
  <2> QED
    BY <1>0, <1>12, <2>1 DEF Dead, FeStep, Types
<1>13. CASE Reconnect
  <2>1. fe' \in Client
    <3> DEFINE x == [fe EXCEPT !.gen = @ + 1]
    <3>1. x \in Client
      BY <1>0, Counts
    <3>2. fe' = [x EXCEPT !.conn = TRUE, !.calling = TRUE, !.course = "none"]
      BY <1>0, <1>13 DEF Reconnect, Client
    <3> HIDE DEF x
    <3> QED
      BY <3>1, <3>2 DEF Client, Courses
  <2> QED
    BY <1>0, <1>13, <2>1 DEF Reconnect, FeStep, Types
<1>14. ASSUME NEW act \in {"down", "up", "wheel"}, NEW b \in Buttons,
              NEW place \in {"row", "canvas"}, Mouse(act, b, place)
       PROVE  Types'
  <2>1. place \in Places /\ Release \in Post
    BY <1>0, EventPosts DEF Places
  <2>2. /\ fe' \in Client /\ UNCHANGED <<ui, ctl, se, fired, down, slot, link>>
        /\ Event(act, b, place) \in Post
        /\ up' = IF fe.conn /\ link = "open"
                   THEN Put(Put(up, Dropped(act, place), Release), Ready, Event(act, b, place))
                   ELSE up
    BY <1>14, <2>1, MouseEffect
  <2>3. up' \in Seq(Post)
    BY <1>0, <2>1, <2>2, PutType
  <2> QED
    BY <1>0, <2>2, <2>3 DEF Types
<1>15. ASSUME NEW act \in {"keydown", "keyup", "escape"}, Key(act)
       PROVE  Types'
  <2>1. /\ fe' \in Client /\ UNCHANGED <<ui, ctl, se, fired, down, slot, link>>
        /\ up' \in Seq(Post)
    BY SMTT(30), <1>0, <1>15, KeyEffect
  <2> QED
    BY <1>0, <2>1 DEF Types
<1>16. CASE LoseFocus
  <2>1. /\ fe' \in Client /\ UNCHANGED <<ui, ctl, se, fired, down, slot, link>>
        /\ up' \in Seq(Post)
    BY <1>0, <1>16, LoseFocusEffect, PutType
  <2> QED
    BY <1>0, <2>1 DEF Types
<1>17. CASE GainFocus
  BY <1>0, <1>17 DEF GainFocus, FeStep, Types, Client
<1>18. CASE Resize
  <2>1. /\ fe' \in Client /\ UNCHANGED <<ui, ctl, se, fired, down, slot, link>>
        /\ up' \in Seq(Post)
    BY <1>0, <1>18, ResizeEffect, PutType
  <2> QED
    BY <1>0, <2>1 DEF Types
<1>19. CASE UNCHANGED vars
  BY <1>19 DEF vars, Types
<1> QED
  BY <1>1, <1>2, <1>3, <1>4, <1>5, <1>6, <1>7, <1>8, <1>9, <1>10, <1>11, <1>12, <1>13, <1>14,
     <1>15, <1>16, <1>17, <1>18, <1>19 DEF Next, User

-----------------------------------------------------------------------------
(* Messages on their way to the session *)

\* A gesture of the left button begins, ends, is ended whatever it is; and the release of
\* another button, after which the session admits its end only if its scene is the same.
Begins(m) == m.type = "pointer" /\ m.act = "down" /\ m.button = 0
Ends(m) == m.type = "pointer" /\ m.act = "up" /\ m.button = 0
Cancels(m) == m.type = "cancel"
Spoils(m) == m.type = "pointer" /\ m.act = "up" /\ m.button # 0
\* What the canvas is told to hold, and that it holds nothing any more.
Holds(m) == m.type = "embedded" /\ m.act \in {"down", "keydown"}
Frees(m) == m.type = "embedded" /\ m.act = "release"

Within(s, g) == \A i \in DOMAIN s : s[i].type # "cancel" => s[i].gen <= g
Free(s) == \A i \in DOMAIN s : ~Holds(s[i])
Freed(s) == \E i \in DOMAIN s : Frees(s[i]) /\ \A j \in i + 1 .. Len(s) : ~Holds(s[j])
\* No gesture begins in geometry g.
Without(s, g) == \A i \in DOMAIN s : Begins(s[i]) => s[i].gen # g
\* Behind the message i of s: a cancel, the release of the left button with no other before
\* it, no other's release at all.
Cancelled(s, i) == \E j \in i + 1 .. Len(s) : Cancels(s[j])
Ended(s, i) == \E j \in i + 1 .. Len(s) : Ends(s[j]) /\ \A k \in i + 1 .. j : ~Spoils(s[k])
Tidy(s, i) == \A j \in i + 1 .. Len(s) : ~Spoils(s[j])

\* One more message.
LEMMA Longer ==
  ASSUME NEW s \in Seq(Post), NEW m \in Post, NEW g \in Nat
  PROVE  /\ Within(s, g) /\ (m.type # "cancel" => m.gen <= g) => Within(Append(s, m), g)
         /\ Free(s) /\ ~Holds(m) => Free(Append(s, m))
         /\ (Freed(s) /\ ~Holds(m)) \/ Frees(m) => Freed(Append(s, m))
         /\ Without(s, g) /\ (Begins(m) => m.gen # g) => Without(Append(s, m), g)
<1> DEFINE t == Append(s, m)
<1>1. /\ Len(t) = Len(s) + 1 /\ Len(s) \in Nat /\ t[Len(s) + 1] = m
      /\ DOMAIN s = 1 .. Len(s) /\ DOMAIN t = 1 .. Len(s) + 1
      /\ \A i \in 1 .. Len(s) : t[i] = s[i]
  BY AppendProperties
<1> HIDE DEF t
<1>2. Within(s, g) /\ (m.type # "cancel" => m.gen <= g) => Within(t, g)
  BY <1>1 DEF Within
<1>3. Free(s) /\ ~Holds(m) => Free(t)
  BY <1>1 DEF Free
<1>4. Freed(s) /\ ~Holds(m) => Freed(t)
  BY <1>1 DEF Freed
<1>5. Frees(m) => Freed(t)
  BY <1>1 DEF Freed
<1>7. Without(s, g) /\ (Begins(m) => m.gen # g) => Without(t, g)
  BY <1>1 DEF Without
<1> QED
  BY <1>2, <1>3, <1>4, <1>5, <1>7 DEF t

\* The first message is read.
LEMMA Shorter ==
  ASSUME NEW s \in Seq(Post), s # <<>>, NEW g \in Nat
  PROVE  /\ Within(s, g) => Within(Tail(s), g) /\ (Head(s).type # "cancel" => Head(s).gen <= g)
         /\ Free(s) => Free(Tail(s)) /\ ~Holds(Head(s))
         /\ Freed(s) => Freed(Tail(s)) \/ (Frees(Head(s)) /\ Free(Tail(s)))
         /\ Without(s, g) => Without(Tail(s), g) /\ (Begins(Head(s)) => Head(s).gen # g)
<1> DEFINE t == Tail(s)
           m == Head(s)
<1>1. /\ Len(s) \in Nat /\ Len(s) > 0 /\ Len(t) = Len(s) - 1 /\ m = s[1]
      /\ DOMAIN s = 1 .. Len(s) /\ DOMAIN t = 1 .. Len(s) - 1
      /\ \A i \in 1 .. Len(s) - 1 : t[i] = s[i + 1]
  BY HeadTailProperties
<1>2. 1 \in DOMAIN s /\ \A i \in DOMAIN t : i + 1 \in DOMAIN s /\ t[i] = s[i + 1]
  BY <1>1
<1>3. \A i \in DOMAIN s : i = 1 \/ (i - 1 \in DOMAIN t /\ t[i - 1] = s[i])
  BY <1>1
<1> HIDE DEF t, m
<1>4. Within(s, g) => Within(t, g) /\ (m.type # "cancel" => m.gen <= g)
  BY <1>1, <1>2 DEF Within
<1>5. Free(s) => Free(t) /\ ~Holds(m)
  BY <1>1, <1>2 DEF Free
<1>6. Freed(s) => Freed(t) \/ (Frees(m) /\ Free(t))
  <2> SUFFICES ASSUME NEW i \in DOMAIN s, Frees(s[i]), \A j \in i + 1 .. Len(s) : ~Holds(s[j])
               PROVE  Freed(t) \/ (Frees(m) /\ Free(t))
    BY DEF Freed
  <2>1. CASE i = 1
    BY <1>1, <2>1 DEF Free
  <2>2. CASE i # 1
    <3>1. i - 1 \in DOMAIN t /\ t[i - 1] = s[i]
      BY <1>3, <2>2
    <3>2. \A j \in (i - 1) + 1 .. Len(t) : ~Holds(t[j])
      BY <1>1, <3>1
    <3> QED
      BY <3>1, <3>2 DEF Freed
  <2> QED
    BY <2>1, <2>2
<1>8. Without(s, g) => Without(t, g) /\ (Begins(m) => m.gen # g)
  BY <1>1, <1>2 DEF Without
<1> QED
  BY <1>4, <1>5, <1>6, <1>8 DEF t, m

\* What is behind a message stays behind it when more is sent.
Onto(s, t) == Len(s) <= Len(t) /\ \A k \in 1 .. Len(s) : t[k] = s[k]
Quiet(s, t) == /\ Onto(s, t)
               /\ \A k \in Len(s) + 1 .. Len(t) : ~Begins(t[k]) /\ ~Spoils(t[k])

LEMMA Behind ==
  ASSUME NEW s \in Seq(Post), NEW t \in Seq(Post), Onto(s, t), NEW i \in 0 .. Len(s)
  PROVE  /\ Cancelled(s, i) => Cancelled(t, i)
         /\ Ended(s, i) => Ended(t, i)
         /\ Tidy(s, i) /\ Quiet(s, t) => Tidy(t, i)
<1>1. Len(s) \in Nat /\ Len(t) \in Nat
  OBVIOUS
<1>2. Cancelled(s, i) => Cancelled(t, i)
  BY <1>1 DEF Cancelled, Onto
<1>3. Ended(s, i) => Ended(t, i)
  <2> SUFFICES ASSUME NEW j \in i + 1 .. Len(s), Ends(s[j]),
                      \A k \in i + 1 .. j : ~Spoils(s[k])
               PROVE  Ended(t, i)
    BY DEF Ended
  <2>1. j \in i + 1 .. Len(t) /\ \A k \in i + 1 .. j : t[k] = s[k]
    BY <1>1 DEF Onto
  <2> QED
    BY <1>1, <2>1 DEF Ended
<1>4. Tidy(s, i) /\ Quiet(s, t) => Tidy(t, i)
  BY <1>1 DEF Tidy, Quiet, Onto
<1> QED
  BY <1>2, <1>3, <1>4

LEMMA Putting ==
  ASSUME NEW s \in Seq(Post), NEW m \in Post, NEW c \in BOOLEAN
  PROVE  /\ Onto(s, Put(s, c, m)) /\ Put(s, c, m) \in Seq(Post)
         /\ ~Begins(m) /\ ~Spoils(m) => Quiet(s, Put(s, c, m))
         /\ \A i \in 0 .. Len(s) : /\ c /\ Cancels(m) => Cancelled(Put(s, c, m), i)
                                   /\ c /\ Ends(m) /\ Tidy(s, i) => Ended(Put(s, c, m), i)
         /\ \A i \in DOMAIN Put(s, c, m) :
              i \in DOMAIN s \/ (c /\ Put(s, c, m)[i] = m /\ Tidy(Put(s, c, m), i))
<1> DEFINE t == Put(s, c, m)
<1>1. CASE ~c
  <2>1. t = s /\ Len(s) \in Nat
    BY <1>1 DEF Put
  <2> QED
    BY <1>1, <2>1 DEF Onto, Quiet
<1>2. CASE c
  <2>1. /\ Len(t) = Len(s) + 1 /\ Len(s) \in Nat /\ t[Len(s) + 1] = m /\ t \in Seq(Post)
        /\ DOMAIN s = 1 .. Len(s) /\ DOMAIN t = 1 .. Len(s) + 1
        /\ \A i \in 1 .. Len(s) : t[i] = s[i]
    BY <1>2, AppendProperties DEF Put
  <2> HIDE DEF t
  <2>2. Onto(s, t) /\ (~Begins(m) /\ ~Spoils(m) => Quiet(s, t))
    BY <2>1 DEF Onto, Quiet
  <2>3. ASSUME NEW i \in 0 .. Len(s)
        PROVE  /\ Cancels(m) => Cancelled(t, i)
               /\ Ends(m) /\ Tidy(s, i) => Ended(t, i)
    <3>1. Cancels(m) => Cancelled(t, i)
      BY <2>1 DEF Cancelled
    <3>2. ASSUME Ends(m), Tidy(s, i) PROVE Ended(t, i)
      <4>1. ~Spoils(m)
        BY <3>2 DEF Ends, Spoils
      <4>2. \A k \in i + 1 .. Len(s) + 1 : ~Spoils(t[k])
        BY <2>1, <3>2, <4>1 DEF Tidy
      <4> QED
        BY <2>1, <3>2, <4>2 DEF Ended
    <3> QED
      BY <3>1, <3>2
  <2>4. ASSUME NEW i \in DOMAIN t, i \notin DOMAIN s PROVE t[i] = m /\ Tidy(t, i)
    BY <2>1, <2>4 DEF Tidy
  <2> QED
    BY <1>2, <2>1, <2>2, <2>3, <2>4 DEF t
<1> QED
  BY <1>1, <1>2

\* What is behind a message when the first one is read.
LEMMA Ahead ==
  ASSUME NEW s \in Seq(Post), s # <<>>, NEW i \in Nat
  PROVE  /\ Cancelled(s, i + 1) => Cancelled(Tail(s), i)
         /\ Ended(s, i + 1) => Ended(Tail(s), i)
         /\ Tidy(s, i + 1) => Tidy(Tail(s), i)
         /\ Cancelled(s, 0) => Cancels(Head(s)) \/ Cancelled(Tail(s), 0)
         /\ Ended(s, 0) => ~Spoils(Head(s)) /\ (Ends(Head(s)) \/ Ended(Tail(s), 0))
         /\ Tidy(s, 0) => ~Spoils(Head(s)) /\ Tidy(Tail(s), 0)
<1> DEFINE t == Tail(s)
           m == Head(s)
<1>1. /\ Len(s) \in Nat /\ Len(s) > 0 /\ Len(t) = Len(s) - 1 /\ m = s[1]
      /\ \A k \in 1 .. Len(s) - 1 : t[k] = s[k + 1]
  BY HeadTailProperties
<1> HIDE DEF t, m
<1>2. \A k \in 2 .. Len(s) : k - 1 \in 1 .. Len(t) /\ t[k - 1] = s[k]
  BY <1>1
<1>3. Cancelled(s, i + 1) => Cancelled(t, i)
  <2> SUFFICES ASSUME NEW j \in i + 2 .. Len(s), Cancels(s[j])
               PROVE  Cancelled(t, i)
    BY DEF Cancelled
  <2>1. j - 1 \in i + 1 .. Len(t) /\ t[j - 1] = s[j]
    BY <1>1, <1>2
  <2> QED
    BY <2>1 DEF Cancelled
<1>4. Ended(s, i + 1) => Ended(t, i)
  <2> SUFFICES ASSUME NEW j \in i + 2 .. Len(s), Ends(s[j]),
                      \A k \in i + 2 .. j : ~Spoils(s[k])
               PROVE  Ended(t, i)
    BY DEF Ended
  <2>1. j - 1 \in i + 1 .. Len(t) /\ t[j - 1] = s[j]
    BY <1>1, <1>2
  <2>2. \A k \in i + 1 .. j - 1 : t[k] = s[k + 1] /\ k + 1 \in i + 2 .. j
    BY <1>1
  <2> QED
    BY <2>1, <2>2 DEF Ended
<1>5. Tidy(s, i + 1) => Tidy(t, i)
  <2> SUFFICES ASSUME Tidy(s, i + 1), NEW k \in i + 1 .. Len(t)
               PROVE  ~Spoils(t[k])
    BY DEF Tidy
  <2>1. k + 1 \in (i + 1) + 1 .. Len(s) /\ t[k] = s[k + 1]
    BY <1>1
  <2> QED
    BY <2>1 DEF Tidy
<1>6. Cancelled(s, 0) => Cancels(m) \/ Cancelled(t, 0)
  <2> SUFFICES ASSUME NEW j \in 1 .. Len(s), Cancels(s[j]), ~Cancels(m)
               PROVE  Cancelled(t, 0)
    BY DEF Cancelled
  <2>1. j - 1 \in 1 .. Len(t) /\ t[j - 1] = s[j]
    BY <1>1, <1>2
  <2> QED
    BY <2>1 DEF Cancelled
<1>7. Ended(s, 0) => ~Spoils(m) /\ (Ends(m) \/ Ended(t, 0))
  <2> SUFFICES ASSUME NEW j \in 1 .. Len(s), Ends(s[j]), \A k \in 1 .. j : ~Spoils(s[k])
               PROVE  ~Spoils(m) /\ (Ends(m) \/ Ended(t, 0))
    BY DEF Ended
  <2>1. 1 \in 1 .. j
    OBVIOUS
  <2>2. CASE j = 1
    BY <1>1, <2>1, <2>2
  <2>3. CASE j # 1
    <3>1. j - 1 \in 1 .. Len(t) /\ t[j - 1] = s[j]
      BY <1>1, <1>2, <2>3
    <3>2. \A k \in 1 .. j - 1 : t[k] = s[k + 1] /\ k + 1 \in 1 .. j
      BY <1>1
    <3> QED
      BY <1>1, <2>1, <3>1, <3>2 DEF Ended
  <2> QED
    BY <2>2, <2>3
<1>8. Tidy(s, 0) => ~Spoils(m) /\ Tidy(t, 0)
  <2> SUFFICES ASSUME Tidy(s, 0)
               PROVE  ~Spoils(m) /\ Tidy(t, 0)
    OBVIOUS
  <2>1. ~Spoils(m)
    BY <1>1 DEF Tidy
  <2>2. \A k \in 1 .. Len(t) : t[k] = s[k + 1] /\ k + 1 \in 1 .. Len(s)
    BY <1>1
  <2> QED
    BY <2>1, <2>2 DEF Tidy
<1> QED
  BY <1>3, <1>4, <1>5, <1>6, <1>7, <1>8 DEF t, m


-----------------------------------------------------------------------------
(* The invariants *)

\* Who is connected, whose geometry is whose, what a scene is of.
Wires ==
  /\ ui.gen = se.scene.gen /\ ui.gen <= fe.gen /\ se.view <= fe.gen
  /\ se.scene \in se.history \/ se.unsent
  /\ Within(up, fe.gen)
  /\ fe.shown # None => fe.shown.gen <= fe.gen
  /\ fe.connected => fe.conn /\ ~fe.calling
  /\ fe.calling => fe.conn
  /\ ~fe.conn => link = "cut"
  /\ \A i \in DOMAIN down : down[i] = "hello" => i = 1 /\ ~fe.connected
  /\ \A i \in DOMAIN down : down[i] = "toggle" => se.toggles > 0
  /\ fe.pixels \/ se.toggles > 0
  /\ fe.pressed # {} => fe.active

\* A capture is of the rows and the geometry the application has.
Captured == ui.capture # None => ui.capture.row = Row(ui) /\ ui.capture.gen = ui.gen

\* What the application holds for its canvas, or is about to be told to hold, is let go
\* by a message behind it, unless the Router still has the canvas.
Empty == ctl.buttons = {} /\ ~ctl.key
Settled(s) == Freed(s) \/ (Empty /\ Free(s))
Released == ~fe.connected \/ ~fe.active \/ fe.last = None
CanvasInv ==
  /\ fe.refocus => fe.focused
  /\ fe.refocus /\ se.toggles = 0 => ~fe.active \/ fe.last = None
  /\ ~se.peer /\ ctl.attached = 0 => Empty
  /\ (/\ se.toggles = 0 /\ ctl.attached = 1 /\ se.peer /\ link = "open" /\ ~fe.calling
      /\ Released) => Settled(up)

\* A gesture in the frontend's geometry is one the user still makes, and whose end can be
\* sent, or its end is on its way.
Making == 0 \in fe.held /\ fe.course = "plain" /\ Ready
Pending(s, i) == Cancelled(s, i) \/ Ended(s, i) \/ (Making /\ Tidy(s, i))
Answered(s) == \A i \in DOMAIN s : Begins(s[i]) /\ s[i].gen = fe.gen => Pending(s, i)
\* The session admits the end of what is captured, or a cancel comes first.
Closing(s) == Cancelled(s, 0) \/ (se.press # None /\ (Ended(s, 0) \/ (Making /\ Tidy(s, 0))))
CaptureInv ==
  /\ fe.conn /\ ~fe.connected => /\ ui.capture # None => ui.gen # fe.gen
                                 /\ Without(up, fe.gen)
  /\ fe.connected /\ link = "open" /\ fe.course # "astray" =>
       /\ se.peer /\ ui.capture # None /\ ui.gen = fe.gen => Closing(up)
       /\ Answered(up)

\* Where everything is in the beginning.
LEMMA GestureInitially ==
  ASSUME GesturesAssumption, Init
  PROVE  Types /\ Wires /\ Captured /\ CanvasInv /\ CaptureInv /\ fired = None
<1> DEFINE scene == SceneOf(ui, 1)
<1>1. ui \in Screen /\ ui.gen = 1 /\ ui.capture = None
  BY DEF Init, Screen
<1>2. scene \in Scene /\ scene.gen = 1
  BY <1>1, SceneType DEF SceneOf
<1>3. se = [peer |-> TRUE, view |-> 1, scene |-> scene, unsent |-> TRUE, history |-> {scene},
            press |-> None, embedded |-> None, target |-> None, scroll |-> None, toggles |-> 0]
  BY DEF Init
<1> HIDE DEF scene
<1>4. se \in Session
  BY <1>2, <1>3 DEF Session, Scenes
<1>5. ctl \in Believed /\ ctl.attached = 1 /\ Empty
  BY DEF Init, Believed, Empty
<1>6. fe \in Client /\ up \in Seq(Post) /\ down \in Seq({"hello", "toggle"}) /\ slot \in Scenes
      /\ link \in {"open", "cut"}
  BY DEF Init, Client, Scenes, Courses
<1>7. Types
  BY <1>1, <1>4, <1>5, <1>6 DEF Types
<1>8. up = <<>> /\ DOMAIN down = 1 .. 1 /\ down[1] = "hello"
  BY DEF Init
<1>9. (\A g : Within(up, g) /\ Free(up) /\ Without(up, g)) /\ Answered(up)
  BY <1>8 DEF Within, Free, Without, Answered
<1>10. /\ fe.gen = 1 /\ fe.conn /\ ~fe.calling /\ ~fe.connected /\ fe.pixels
       /\ fe.last = None /\ fe.shown = None /\ fe.pressed = {} /\ ~fe.active /\ ~fe.refocus
       /\ fired = None
  BY DEF Init
<1>11. Wires
  BY <1>1, <1>2, <1>3, <1>8, <1>9, <1>10 DEF Wires
<1>12. Captured /\ CanvasInv /\ CaptureInv
  BY <1>1, <1>3, <1>5, <1>9, <1>10 DEF Captured, CanvasInv, CaptureInv, Settled
<1> QED
  BY <1>7, <1>10, <1>11, <1>12

-----------------------------------------------------------------------------
(* What the session's steps do *)

LEMMA Uncapturing ==
  ASSUME NEW u \in Screen
  PROVE  /\ Uncaptured(u).capture = None /\ Uncaptured(u).gen = u.gen
         /\ Row(Uncaptured(u)) = Row(u)
  BY DEF Screen, Uncaptured, Row

\* The application's work changes no geometry, and no rows under a capture.
LEMMA Working ==
  ASSUME ui \in Screen, Work
  PROVE  /\ ui'.gen = ui.gen
         /\ ui'.capture # None => ui'.capture = ui.capture /\ Row(ui') = Row(ui)
<1>1. ASSUME NEW part \in {"items", "area"}, ui' = Retargeted(ui, part)
      PROVE  ui'.gen = ui.gen /\ ui'.capture = None
  <2> DEFINE v == [ui EXCEPT ![part] = @ + 1]
  <2>1. v \in Screen /\ v.gen = ui.gen
    <3>1. ui[part] + 1 \in Nat
      BY DEF Screen
    <3>2. CASE part = "items"
      BY <3>1, <3>2 DEF Screen
    <3>3. CASE part = "area"
      BY <3>1, <3>3 DEF Screen
    <3> QED
      BY <3>2, <3>3
  <2> HIDE DEF v
  <2>2. ui' = Uncaptured(v)
    BY <1>1 DEF Retargeted, v
  <2> QED
    BY <2>1, <2>2, Uncapturing
<1>2. CASE ui' = [ui EXCEPT !.rev = @ + 1]
  BY <1>2 DEF Screen, Row
<1>3. CASE ui' = [ui EXCEPT !.canvas = ~@, !.shows = @ + 1]
  BY <1>3 DEF Screen, Row
<1> QED
  BY <1>1, <1>2, <1>3 DEF Work

LEMMA PointedEffect ==
  ASSUME NEW u \in Screen, NEW m \in PlainEvent
  PROVE  /\ Pointed(u, m).gen = u.gen
         /\ \/ Pointed(u, m).capture = None
            \/ Pointed(u, m) = u /\ (m.button = 0 => m.act \notin {"down", "up"})
            \/ /\ m.act = "down" /\ m.button = 0 /\ Row(Pointed(u, m)) = Row(u)
               /\ Pointed(u, m).capture.row = Row(u) /\ Pointed(u, m).capture.gen = u.gen
<1>1. m.act \in {"down", "up", "wheel"}
  BY DEF PlainEvent
<1>2. CASE m.button # 0
  BY <1>2 DEF Pointed
<1>3. CASE m.button = 0 /\ m.act = "down"
  <2> DEFINE c == [place |-> m.place, gen |-> u.gen, row |-> Row(u)]
  <2>1. Pointed(u, m) = [u EXCEPT !.capture = c]
    BY <1>3 DEF Pointed, Down
  <2>2. c.row = Row(u) /\ c.gen = u.gen
    OBVIOUS
  <2> HIDE DEF c
  <2> QED
    BY <1>3, <2>1, <2>2 DEF Screen, Row
<1>4. CASE m.button = 0 /\ m.act = "up"
  BY <1>4, Uncapturing DEF Pointed
<1>5. CASE m.button = 0 /\ m.act = "wheel"
  <2>1. Pointed(u, m) = Wheel(u, m)
    BY <1>5 DEF Pointed
  <2>2. CASE m.place = "row"
    <3>1. [u EXCEPT !.off = @ + 1] \in Screen /\ [u EXCEPT !.off = @ + 1].gen = u.gen
      <4>1. u.off + 1 \in Nat
        BY DEF Screen
      <4> QED
        BY <4>1 DEF Screen
    <3> QED
      BY <2>1, <2>2, <3>1, Uncapturing DEF Wheel
  <2>3. CASE m.place # "row"
    BY <1>5, <2>1, <2>3 DEF Wheel
  <2> QED
    BY <2>2, <2>3
<1> QED
  BY <1>1, <1>2, <1>3, <1>4, <1>5


\* One message is read: what becomes of the capture, the press, what the canvas holds and
\* the geometry.
ReadResult(m) ==
  /\ ui'.gen = ui.gen /\ UNCHANGED <<se.scene, se.history, se.unsent, se.toggles>>
  /\ ctl'.attached = ctl.attached
  /\ se'.view = se.view \/ (m.type # "cancel" /\ se'.view = m.gen)
  /\ (ui'.capture # None => ui'.capture.row = Row(ui') /\ ui'.capture.gen = ui'.gen)
  /\ fired' = fired \/ fired'.row = fired'.pressed
  /\ \/ ui'.capture = None
     \/ /\ ui'.capture = ui.capture /\ m.type # "cancel"
        /\ \/ se'.press = se.press /\ ~Ends(m)
           \/ m.type = "pointer" /\ se'.press = m.gen /\ ~Ends(m)
           \/ Ends(m) /\ ~Admits(m)
           \/ Spoils(m)
     \/ Begins(m) /\ m.gen = ui.gen /\ se'.press = m.gen
  /\ Frees(m) => Empty'
  /\ Empty /\ ~Holds(m) => Empty'

LEMMA ReceiveEffect ==
  ASSUME GesturesAssumption, Types, Wires, Captured, Receive
  PROVE  /\ Head(up) \in Post /\ se.peer /\ up # <<>> /\ UNCHANGED <<fe, down, slot, link>>
         /\ up' = IF se'.peer THEN Tail(up) ELSE <<>>
         /\ ReadResult(Head(up))
<1> DEFINE m == Head(up)
<1>0. /\ ui \in Screen /\ ctl \in Believed /\ se \in Session /\ ui.gen = se.scene.gen
      /\ m \in Post /\ Uncaptured(ui).capture = None /\ Uncaptured(ui).gen = ui.gen
  BY HeadTailProperties, Uncapturing DEF Types, Wires, Receive
<1>1. PICK alive \in BOOLEAN :
        \/ Pointer(m, alive) \/ CancelPointer(m, alive)
        \/ ResizeInput(m, alive) \/ Embedded(m, alive)
        \/ Presented(m) \/ SwitchInput(m)
  BY DEF Receive
<1>2. /\ se.peer /\ up # <<>> /\ UNCHANGED <<fe, down, slot, link>>
      /\ up' = IF se'.peer THEN Tail(up) ELSE <<>>
  BY DEF Receive
<1> HIDE DEF m
<1>3. ASSUME Pointer(m, alive) PROVE ReadResult(m)
  <2>1. /\ m.type = "pointer" /\ m \in PlainEvent /\ m.act \in {"down", "up", "wheel"}
        /\ ctl' = ctl /\ se' = [se EXCEPT !.press = Press(m), !.peer = alive]
    BY <1>0, <1>3 DEF Pointer, Post, CanvasEvent, Notice, PlainEvent
  <2>2. /\ UNCHANGED <<se.scene, se.history, se.unsent, se.toggles, se.view>>
        /\ se'.press = Press(m)
    BY <1>0, <2>1 DEF Session
  <2>3. ~Frees(m) /\ (Empty => Empty')
    BY <2>1 DEF Frees, Empty
  <2>4. Press(m) = IF m.act = "up" THEN None
                   ELSE IF m.act = "down" /\ Matches(m) THEN m.gen ELSE se.press
    BY DEF Press
  <2>5. Matches(m) => m.gen = ui.gen
    BY <1>0 DEF Matches
  <2>6. CASE ~Admits(m)
    <3>1. ui' = ui /\ fired' = fired
      BY <1>3, <2>6 DEF Pointer
    <3>2. ~Matches(m)
      BY <2>6 DEF Admits
    <3> QED
      BY <2>1, <2>2, <2>3, <2>4, <2>6, <3>1, <3>2 DEF Captured, Ends, Spoils, ReadResult
  <2>7. CASE Admits(m) /\ m.act = "up" /\ CancelRelease(m)
    <3>1. ui' = Uncaptured(ui) /\ fired' = fired
      BY <1>3, <2>7 DEF Pointer
    <3> QED
      BY <1>0, <2>1, <2>2, <2>3, <3>1 DEF ReadResult
  <2>8. CASE Admits(m) /\ ~(m.act = "up" /\ CancelRelease(m))
    <3>1. /\ ui' = Pointed(ui, m)
          /\ fired' = IF m.act = "up" /\ m.button = 0 /\ Activates(ui, m)
                        THEN Activation(ui) ELSE fired
      BY <1>3, <2>8 DEF Pointer
    <3>2. fired' = fired \/ fired'.row = fired'.pressed
      BY <3>1 DEF Captured, Activates, Activation
    <3>3. m.act = "down" => Matches(m)
      BY <2>8 DEF Admits
    <3>4. /\ ui'.gen = ui.gen
          /\ \/ ui'.capture = None
             \/ ui' = ui /\ (m.button = 0 => m.act \notin {"down", "up"})
             \/ /\ m.act = "down" /\ m.button = 0 /\ Row(ui') = Row(ui)
                /\ ui'.capture.row = Row(ui) /\ ui'.capture.gen = ui.gen
      BY <1>0, <2>1, <3>1, PointedEffect
    <3>5. \/ ui'.capture = None
          \/ ui' = ui /\ m.act = "wheel" /\ se'.press = se.press
          \/ ui' = ui /\ m.act = "up" /\ m.button # 0
          \/ ui' = ui /\ m.act = "down" /\ se'.press = m.gen
          \/ /\ m.act = "down" /\ m.button = 0 /\ se'.press = m.gen /\ m.gen = ui.gen
             /\ (ui'.capture # None => ui'.capture.row = Row(ui') /\ ui'.capture.gen = ui.gen)
      BY <2>1, <2>2, <2>4, <2>5, <3>3, <3>4 DEF Captured
    <3> QED
      BY <2>1, <2>2, <2>3, <3>2, <3>4, <3>5 DEF Ends, Spoils, Begins, Captured, ReadResult
  <2> QED
    BY <2>6, <2>7, <2>8
<1>4. ASSUME CancelPointer(m, alive) PROVE ReadResult(m)
  <2>1. /\ m.type = "cancel" /\ ui' = Uncaptured(ui) /\ se' = [se EXCEPT !.peer = alive]
        /\ ctl' = ctl /\ fired' = fired
    BY <1>4 DEF CancelPointer
  <2>2. UNCHANGED <<se.scene, se.history, se.unsent, se.toggles, se.view>>
    BY <1>0, <2>1 DEF Session
  <2> QED
    BY <1>0, <2>1, <2>2 DEF Empty, Frees, ReadResult
<1>5. ASSUME ResizeInput(m, alive) PROVE ReadResult(m)
  <2>1. /\ m.type = "resize" /\ ui' = ui /\ se' = [se EXCEPT !.view = m.gen, !.peer = alive]
        /\ ctl' = ctl /\ fired' = fired
    BY <1>5 DEF ResizeInput
  <2>2. /\ UNCHANGED <<se.scene, se.history, se.unsent, se.toggles, se.press>>
        /\ se'.view = m.gen
    BY <1>0, <2>1 DEF Session
  <2> QED
    BY <1>0, <2>1, <2>2 DEF Empty, Frees, Ends, Captured, ReadResult
<1>6. ASSUME Embedded(m, alive) PROVE ReadResult(m)
  <2>1. /\ m.type = "embedded" /\ m \in CanvasEvent /\ ui' = ui /\ fired' = fired
        /\ UNCHANGED <<se.scene, se.history, se.unsent, se.toggles, se.press, se.view>>
        /\ ctl' = IF EmbeddedAdmits(m) THEN Embodied(m) ELSE ctl
    BY <1>0, <1>6 DEF Embedded, Post, PlainEvent, Notice, Session
  <2>2. m.act \in {"down", "up", "wheel", "release", "keydown", "keyup"}
    BY <2>1 DEF CanvasEvent
  <2>3. /\ Embodied(m).attached = ctl.attached
        /\ m.act = "release" => Embodied(m).buttons = {} /\ ~Embodied(m).key
        /\ ~Holds(m) /\ Empty => Embodied(m).buttons = {} /\ ~Embodied(m).key
    BY <1>0, <2>1, <2>2 DEF Embodied, Believed, Holds, Empty
  <2>4. Frees(m) => EmbeddedAdmits(m)
    BY DEF Frees, EmbeddedAdmits, Releases
  <2> QED
    BY <2>1, <2>3, <2>4 DEF Empty, Frees, Ends, Captured, ReadResult
<1>7. ASSUME Presented(m) PROVE ReadResult(m)
  <2>1. m.type = "presented" /\ ui' = ui /\ fired' = fired /\ ctl' = ctl
    BY <1>7 DEF Presented
  <2>2. UNCHANGED <<se.scene, se.history, se.unsent, se.toggles, se.press, se.view>>
    BY <1>0, <1>7 DEF Presented, Session
  <2> QED
    BY <2>1, <2>2 DEF Empty, Frees, Ends, Captured, ReadResult
<1>8. ASSUME SwitchInput(m) PROVE ReadResult(m)
  <2>1. /\ m.type = "presentation" /\ fired' = fired /\ ctl' = ctl
        /\ \/ ui' = ui /\ se' = se
           \/ ui' = Uncaptured(ui) /\ se' = [se EXCEPT !.view = m.gen]
    BY <1>8 DEF SwitchInput
  <2>2. /\ UNCHANGED <<se.scene, se.history, se.unsent, se.toggles, se.press>>
        /\ se'.view \in {se.view, m.gen}
    BY <1>0, <2>1 DEF Session
  <2> QED
    BY <1>0, <2>1, <2>2 DEF Empty, Frees, Ends, Captured, ReadResult
<1> QED
  BY <1>0, <1>1, <1>2, <1>3, <1>4, <1>5, <1>6, <1>7, <1>8 DEF m


-----------------------------------------------------------------------------
(* Every step keeps the wires and what a capture is of *)

LEMMA WithinGrows ==
  ASSUME NEW s \in Seq(Post), NEW g \in Nat, NEW h \in Nat, g <= h, Within(s, g)
  PROVE  Within(s, h)
<1> SUFFICES ASSUME NEW i \in DOMAIN s, s[i].type # "cancel"
             PROVE  s[i].gen <= h
  BY DEF Within
<1>1. s[i] \in Post
  OBVIOUS
<1>2. s[i].gen \in Nat
  BY <1>1 DEF Post, CanvasEvent, PlainEvent, Notice
<1>3. s[i].gen <= g
  BY DEF Within
<1> QED
  BY <1>2, <1>3

LEMMA PutWithin ==
  ASSUME NEW s \in Seq(Post), NEW m \in Post, NEW c, NEW g \in Nat, Within(s, g),
         m.type # "cancel" => m.gen <= g
  PROVE  Within(Put(s, c, m), g) /\ Put(s, c, m) \in Seq(Post)
  BY Longer, PutType DEF Put

\* What the user's events say.
LEMMA Messages ==
  ASSUME GesturesAssumption, Types, Wires
  PROVE  /\ Gen <= fe.gen /\ (Ready => Gen = fe.gen) /\ fe.gen \in Nat
         /\ Release.gen = Gen /\ Release.type = "embedded"
         /\ Frees(Release) /\ ~Holds(Release) /\ ~Begins(Release) /\ ~Spoils(Release)
         /\ \A act, b : /\ ToCanvas(act, b).gen = Gen /\ ToCanvas(act, b).type = "embedded"
                        /\ Holds(ToCanvas(act, b)) <=> act \in {"down", "keydown"}
                        /\ ~Begins(ToCanvas(act, b)) /\ ~Spoils(ToCanvas(act, b))
         /\ \A act, b, place :
              /\ Event(act, b, place).gen = Gen /\ Event(act, b, place).type # "cancel"
              /\ Holds(Event(act, b, place)) <=> Taken(place) /\ act \in {"down", "keydown"}
              /\ Begins(Event(act, b, place)) <=> ~Taken(place) /\ act = "down" /\ b = 0
              /\ Ends(Event(act, b, place)) <=> ~Taken(place) /\ act = "up" /\ b = 0
              /\ Spoils(Event(act, b, place)) <=> ~Taken(place) /\ act = "up" /\ b # 0
<1>1. Gen <= fe.gen /\ (Ready => Gen = fe.gen) /\ fe.gen \in Nat
  BY Stamped DEF Types, Wires, Client
<1> QED
  BY <1>1 DEF Release, ToCanvas, Event, Frees, Holds, Begins, Ends, Spoils

LEMMA HelloGone ==
  ASSUME NEW s \in Seq({"hello", "toggle"}), s # <<>>,
         \A i \in DOMAIN s : s[i] = "hello" => i = 1
  PROVE  /\ \A i \in DOMAIN Tail(s) : Tail(s)[i] # "hello"
         /\ \A i \in DOMAIN Tail(s) : i + 1 \in DOMAIN s /\ Tail(s)[i] = s[i + 1]
         /\ 1 \in DOMAIN s /\ Head(s) = s[1]
<1>1. /\ Len(s) \in Nat /\ Len(s) > 0 /\ DOMAIN s = 1 .. Len(s)
      /\ DOMAIN Tail(s) = 1 .. Len(s) - 1
      /\ \A i \in 1 .. Len(s) - 1 : Tail(s)[i] = s[i + 1]
  BY HeadTailProperties
<1> QED
  BY <1>1

\* A picture arrives at the frontend.
LEMMA Arriving ==
  ASSUME Types, Arrive
  PROVE  /\ UNCHANGED <<fe.conn, fe.calling, fe.connected, fe.gen, fe.pixels, fe.shown,
                        fe.held, fe.course, fe.focused>>
         /\ (fe.pressed # {} => fe.active) => (fe'.pressed # {} => fe'.active)
         /\ (fe'.refocus => fe.refocus) /\ fe' \in Client
         /\ \/ fe'.active = fe.active /\ fe' = fe
            \/ fe'.last # None /\ fe'.last.gen = fe.gen
               /\ \/ fe'.active = fe.active /\ (~fe.refocus \/ ~fe.focused)
                  \/ fe'.active /\ ~fe'.refocus /\ fe.refocus
                  \/ ~fe'.active /\ fe.refocus
<1> DEFINE f == [fe EXCEPT !.last = slot]
<1>1. fe \in Client /\ slot \in Scenes /\ slot # None
  BY DEF Arrive, Types
<1>2. /\ f \in Client /\ f.last = slot
      /\ f.conn = fe.conn /\ f.calling = fe.calling /\ f.connected = fe.connected
      /\ f.gen = fe.gen /\ f.pixels = fe.pixels /\ f.shown = fe.shown /\ f.held = fe.held
      /\ f.course = fe.course /\ f.focused = fe.focused /\ f.pressed = fe.pressed
      /\ f.active = fe.active /\ f.refocus = fe.refocus
  BY <1>1 DEF Client
<1>3. CASE slot.gen # fe.gen
  <2>1. fe' = fe
    BY <1>3 DEF Arrive
  <2> QED
    BY <1>1, <2>1
<1>4. CASE slot.gen = fe.gen
  <2>1. fe' = Refocused(f)
    BY <1>4 DEF Arrive
  <2> HIDE DEF f
  <2>2. CASE ~f.refocus \/ ~f.focused
    <3>1. fe' = f
      BY <2>1, <2>2 DEF Refocused
    <3> QED
      BY <1>1, <1>2, <1>4, <2>2, <3>1
  <2>3. CASE f.refocus /\ f.focused /\ f.last.canvas
    <3>1. fe' = [f EXCEPT !.active = TRUE, !.refocus = FALSE]
      BY <2>1, <2>3 DEF Refocused
    <3> QED
      BY <1>1, <1>2, <1>4, <2>3, <3>1 DEF Client
  <2>4. CASE f.refocus /\ f.focused /\ ~f.last.canvas
    <3>1. fe' = [f EXCEPT !.active = FALSE, !.pressed = {}]
      BY <2>1, <2>4 DEF Refocused, LetGo
    <3> QED
      BY <1>1, <1>2, <1>4, <2>4, <3>1 DEF Client
  <2> QED
    BY <2>2, <2>3, <2>4
<1> QED
  BY <1>3, <1>4

LEMMA WiresStep ==
  ASSUME GesturesAssumption, Types, Wires, Captured, [Next]_vars
  PROVE  Wires' /\ Captured'
         /\ (fired' = fired \/ fired'.row = fired'.pressed)
<1>0. /\ ui \in Screen /\ ctl \in Believed /\ se \in Session /\ fe \in Client
      /\ up \in Seq(Post) /\ down \in Seq({"hello", "toggle"}) /\ slot \in Scenes
      /\ link \in {"open", "cut"} /\ Uncaptured(ui).capture = None
      /\ Uncaptured(ui).gen = ui.gen /\ fe.gen \in Nat /\ ui.gen \in Nat /\ se.view \in Nat
  BY Uncapturing DEF Types, Screen, Client, Session
<1>1. CASE Work
  <2>1. UNCHANGED <<ctl, se, fe, up, down, slot, link, fired>>
    BY <1>1 DEF Work
  <2>2. /\ ui'.gen = ui.gen
        /\ ui'.capture # None => ui'.capture = ui.capture /\ Row(ui') = Row(ui)
    BY <1>0, <1>1, Working
  <2> QED
    BY <2>1, <2>2 DEF Wires, Captured, Within
<1>2. CASE AskToggle
  <2>1. /\ UNCHANGED <<ui, ctl, fe, up, slot, link, fired>>
        /\ se' = [se EXCEPT !.toggles = @ + 1] /\ down' = Append(down, "toggle")
    BY <1>2 DEF AskToggle
  <2>2. /\ UNCHANGED <<se.scene, se.history, se.unsent, se.view>>
        /\ se'.toggles > 0
    BY SMTT(30), <1>0, <2>1 DEF Session
  <2>3. /\ Len(down) \in Nat /\ DOMAIN down' = 1 .. Len(down) + 1 /\ DOMAIN down = 1 .. Len(down)
        /\ \A i \in 1 .. Len(down) : down'[i] = down[i]
        /\ down'[Len(down) + 1] = "toggle"
    BY SMTT(30), <1>0, <2>1, AppendProperties
  <2>4. \A i \in DOMAIN down' : down'[i] = "hello" => i = 1 /\ ~fe.connected
    BY <2>3 DEF Wires
  <2> QED
    BY <2>1, <2>2, <2>4 DEF Wires, Captured, Within, Row
<1>3. CASE Eof
  <2>1. /\ ui' = Uncaptured(ui) /\ UNCHANGED <<fe, link, fired>> /\ up' = <<>> /\ down' = <<>>
        /\ se' = [se EXCEPT !.peer = FALSE]
    BY <1>3 DEF Eof, Detached, Idle
  <2>2. UNCHANGED <<se.scene, se.history, se.unsent, se.view, se.toggles>>
    BY <1>0, <2>1 DEF Session
  <2> QED
    BY SMTT(30), <1>0, <2>1, <2>2 DEF Wires, Captured, Within
<1>4. CASE Attach
  <2>1. /\ fe.calling /\ fe' = [fe EXCEPT !.calling = FALSE] /\ (ui' = ui \/ ui' = Uncaptured(ui))
        /\ se' = [se EXCEPT !.peer = TRUE, !.view = fe.gen, !.unsent = TRUE]
        /\ up' = <<>> /\ down' = <<"hello">> /\ link' = "open" /\ fired' = fired
    BY <1>4 DEF Attach
  <2>2. /\ UNCHANGED <<se.scene, se.history, se.toggles>> /\ se'.unsent /\ se'.view = fe.gen
    BY <1>0, <2>1 DEF Session
  <2>3. /\ UNCHANGED <<fe.gen, fe.shown, fe.connected, fe.conn, fe.pixels, fe.pressed, fe.active>>
        /\ ~fe'.calling /\ fe.conn /\ ~fe.connected
    BY <1>0, <2>1 DEF Client, Wires
  <2>4. DOMAIN down' = 1 .. 1 /\ down'[1] = "hello" /\ DOMAIN up' = {}
    BY <2>1
  <2>5. Within(up', fe'.gen)
    BY <2>4 DEF Within
  <2> QED
    BY SMTT(30), <1>0, <2>1, <2>2, <2>3, <2>4, <2>5 DEF Wires, Captured
<1>5. CASE Receive
  <2> DEFINE m == Head(up)
  <2>1. /\ UNCHANGED <<fe, down, slot, link>> /\ up # <<>>
        /\ up' = IF se'.peer THEN Tail(up) ELSE <<>>
        /\ ReadResult(m)
    BY <1>5, ReceiveEffect
  <2>2. Within(up, fe.gen) => Within(Tail(up), fe.gen) /\ (m.type # "cancel" => m.gen <= fe.gen)
    BY <1>0, <2>1, Shorter
  <2>3. Within(<<>>, fe.gen)
    BY DEF Within
  <2>4. Within(up', fe'.gen)
    BY <2>1, <2>2, <2>3 DEF Wires
  <2> HIDE DEF m
  <2>5. se'.view <= fe'.gen
    BY <2>1, <2>2 DEF Wires, ReadResult
  <2> QED
    BY <2>1, <2>4, <2>5 DEF Wires, ReadResult, Captured
<1>6. CASE Paint
  <2> DEFINE u == Framed(ui, se.view)
             same == SceneOf(u, se.scene.rev) = se.scene
             scene == IF same THEN se.scene ELSE SceneOf(u, se.scene.rev + 1)
  <2>1. /\ u.gen = se.view
        /\ u.capture # None => u.capture.row = Row(u) /\ u.capture.gen = u.gen
    <3>1. CASE ui.gen = se.view
      BY <3>1 DEF Framed, Captured
    <3>2. CASE ui.gen # se.view
      <4>1. [ui EXCEPT !.gen = se.view] \in Screen /\ [ui EXCEPT !.gen = se.view].gen = se.view
        BY <1>0 DEF Screen
      <4> QED
        BY <3>2, <4>1, Uncapturing DEF Framed
    <3> QED
      BY <3>1, <3>2
  <2>2. scene.gen = u.gen
    BY DEF SceneOf
  <2>3. /\ ui' = u /\ UNCHANGED <<ctl, fe, up, down, link, fired>>
        /\ se' = [se EXCEPT !.scene = scene, !.unsent = FALSE, !.history = @ \cup {scene}]
    BY <1>6 DEF Paint
  <2> HIDE DEF u, scene
  <2>4. /\ se'.scene = scene /\ scene \in se'.history
        /\ UNCHANGED <<se.view, se.toggles>>
    BY <1>0, <2>3 DEF Session
  <2>5. ui'.gen = se'.scene.gen /\ ui'.gen <= fe'.gen /\ se'.view <= fe'.gen
    BY <2>1, <2>2, <2>3, <2>4 DEF Wires
  <2> QED
    BY <2>1, <2>3, <2>4, <2>5 DEF Wires, Captured, Within
<1>7. CASE HandleHello
  <2>1. /\ fe.conn /\ ~fe.calling /\ down # <<>> /\ down' = Tail(down)
        /\ fe' = [fe EXCEPT !.connected = TRUE, !.last = None, !.shown = None,
                           !.course = "none"]
        /\ up' = Sent(<<[type |-> "resize", gen |-> fe.gen]>>)
        /\ UNCHANGED <<ui, ctl, se, fired, slot, link>>
    BY <1>7 DEF HandleHello, FeStep
  <2>2. [type |-> "resize", gen |-> fe.gen] \in Post
    BY <1>0, EventPosts
  <2>3. up' = Put(up, fe.conn /\ link = "open", [type |-> "resize", gen |-> fe.gen])
    BY <1>0, <2>1, <2>2, SentOne
  <2>4. Within(up', fe.gen)
    BY <1>0, <2>2, <2>3, PutWithin DEF Wires
  <2>5. /\ fe'.gen = fe.gen /\ fe'.shown = None /\ fe'.conn /\ ~fe'.calling
        /\ UNCHANGED <<fe.pixels, fe.pressed, fe.active>>
    BY <1>0, <2>1 DEF Client
  <2>6. /\ \A i \in DOMAIN down' : down'[i] # "hello"
        /\ \A i \in DOMAIN down' : i + 1 \in DOMAIN down /\ down'[i] = down[i + 1]
    BY <1>0, <2>1, HelloGone DEF Wires
  <2> QED
    BY <2>1, <2>4, <2>5, <2>6 DEF Wires, Captured
<1>8. CASE HandleToggle
  <2>1. /\ fe.conn /\ ~fe.calling /\ down # <<>> /\ down' = Tail(down) /\ Head(down) = "toggle"
        /\ fe' = [fe EXCEPT !.pixels = ~@, !.gen = @ + 1, !.last = None, !.shown = None,
                           !.course = "none"]
        /\ up' = Sent(<<[type |-> "presentation", gen |-> fe.gen + 1]>>)
        /\ UNCHANGED <<ui, ctl, se, fired, slot, link>>
    BY <1>8 DEF HandleToggle, FeStep
  <2>2. [type |-> "presentation", gen |-> fe.gen + 1] \in Post /\ fe.gen + 1 \in Nat
    BY <1>0, EventPosts
  <2>3. up' = Put(up, fe.conn /\ link = "open", [type |-> "presentation", gen |-> fe.gen + 1])
    BY <1>0, <2>1, <2>2, SentOne
  <2>4. Within(up, fe.gen + 1)
    BY <1>0, <2>2, WithinGrows DEF Wires
  <2>5. Within(up', fe.gen + 1)
    BY <1>0, <2>2, <2>3, <2>4, PutWithin
  <2>6. /\ fe'.gen = fe.gen + 1 /\ fe'.shown = None /\ fe'.conn /\ ~fe'.calling
        /\ UNCHANGED <<fe.connected, fe.pressed, fe.active>>
    BY <1>0, <2>1 DEF Client
  <2>7. /\ \A i \in DOMAIN down' : down'[i] # "hello"
        /\ \A i \in DOMAIN down' : i + 1 \in DOMAIN down /\ down'[i] = down[i + 1]
        /\ 1 \in DOMAIN down /\ down[1] = "toggle"
    BY <1>0, <2>1, HelloGone DEF Wires
  <2>8. se'.toggles > 0
    BY <2>1, <2>7 DEF Wires
  <2>9. ui'.gen <= fe'.gen /\ se'.view <= fe'.gen
    BY SMTT(30), <1>0, <2>1, <2>6 DEF Wires
  <2> QED
    BY <2>1, <2>5, <2>6, <2>7, <2>8, <2>9 DEF Wires, Captured
<1>9. CASE Arrive
  <2>1. UNCHANGED <<ui, ctl, se, fired, up, down, link>>
    BY <1>9 DEF Arrive, FeStep
  <2>2. /\ UNCHANGED <<fe.conn, fe.calling, fe.connected, fe.gen, fe.pixels, fe.shown>>
        /\ fe'.pressed # {} => fe'.active
    BY <1>9, Arriving DEF Types, Wires
  <2> QED
    BY <2>1, <2>2 DEF Wires, Captured
<1>10. CASE Show
  <2>1. /\ UNCHANGED <<ui, ctl, se, fired, down, slot, link>> /\ fe.last # None
        /\ fe' = [fe EXCEPT !.shown = fe.last] /\ fe.last.gen = fe.gen
        /\ up' = IF fe.connected
                   THEN Sent(<<[type |-> "presented", rev |-> fe.last.rev, gen |-> fe.last.gen]>>)
                   ELSE up
    BY <1>10 DEF Show, FeStep
  <2>2. [type |-> "presented", rev |-> fe.last.rev, gen |-> fe.last.gen] \in Post
    <3>1. fe.last \in Scene
      BY <1>0, <2>1 DEF Client, Scenes
    <3> QED
      BY <1>0, <3>1, EventPosts DEF Scene
  <2>3. Within(up', fe.gen)
    BY SMTT(30), <1>0, <2>1, <2>2, SentOne, PutWithin DEF Wires
  <2>4. /\ UNCHANGED <<fe.conn, fe.calling, fe.connected, fe.gen, fe.pixels, fe.pressed, fe.active>>
        /\ fe'.shown.gen = fe.gen
    BY <1>0, <2>1 DEF Client
  <2> QED
    BY SMTT(30), <1>0, <2>1, <2>3, <2>4 DEF Wires, Captured
<1>11. CASE Lose
  <2>1. /\ UNCHANGED <<ui, ctl, se, fired, up, down, slot>> /\ link' = "cut"
        /\ fe' = [fe EXCEPT !.breaks = @ + 1]
    BY <1>11 DEF Lose, FeStep
  <2>2. UNCHANGED <<fe.conn, fe.calling, fe.connected, fe.gen, fe.pixels, fe.shown, fe.pressed,
                    fe.active>>
    BY <1>0, <2>1 DEF Client
  <2> QED
    BY <2>1, <2>2 DEF Wires, Captured
<1>12. CASE Dead
  <2>1. /\ UNCHANGED <<ui, ctl, se, fired, up, down, slot, link>> /\ link = "cut" /\ fe.connected
        /\ fe' = [LetGo(fe) EXCEPT !.conn = FALSE, !.connected = FALSE, !.shown = None,
                                   !.refocus = FALSE]
    BY <1>12 DEF Dead, FeStep
  <2>2. LetGo(fe) \in Client /\ LetGo(fe).pressed = {} /\ LetGo(fe).gen = fe.gen
        /\ LetGo(fe).pixels = fe.pixels /\ LetGo(fe).calling = fe.calling
    BY <1>0, LetGoType DEF Client
  <2>3. /\ UNCHANGED <<fe.calling, fe.gen, fe.pixels>>
        /\ ~fe'.conn /\ ~fe'.connected /\ fe'.shown = None /\ fe'.pressed = {}
    BY <2>1, <2>2 DEF Client
  <2> QED
    BY <2>1, <2>3 DEF Wires, Captured
<1>13. CASE Reconnect
  <2>1. /\ UNCHANGED <<ui, ctl, se, fired, up, down, slot, link>> /\ ~fe.conn
        /\ fe' = [fe EXCEPT !.conn = TRUE, !.calling = TRUE, !.gen = @ + 1,
                           !.course = "none"]
    BY <1>13 DEF Reconnect, FeStep
  <2>2. /\ UNCHANGED <<fe.connected, fe.pixels, fe.shown, fe.pressed, fe.active>>
        /\ fe'.gen = fe.gen + 1 /\ fe'.conn /\ fe'.calling
    BY <1>0, <2>1 DEF Client
  <2>3. Within(up', fe'.gen)
    BY SMTT(30), <1>0, <2>1, <2>2, WithinGrows DEF Wires
  <2>4. ui'.gen <= fe'.gen /\ se'.view <= fe'.gen /\ ~fe.connected
        /\ (fe'.shown # None => fe'.shown.gen <= fe'.gen)
    <3>1. fe.shown # None => fe.shown.gen \in Nat
      BY <1>0 DEF Client, Scenes, Scene
    <3> QED
      BY <1>0, <2>1, <2>2, <3>1 DEF Wires
  <2> QED
    BY <2>1, <2>2, <2>3, <2>4 DEF Wires, Captured
<1>14. ASSUME NEW act \in {"down", "up", "wheel"}, NEW b \in Buttons,
              NEW place \in {"row", "canvas"}, Mouse(act, b, place)
       PROVE  Wires' /\ Captured' /\ fired' = fired
  <2>1. place \in Places /\ Release \in Post
    BY <1>0, EventPosts DEF Places
  <2>2. /\ UNCHANGED <<ui, ctl, se, fired, down, slot, link>>
        /\ UNCHANGED <<fe.conn, fe.calling, fe.connected, fe.gen, fe.pixels, fe.shown>>
        /\ fe'.pressed # {} => fe'.active
        /\ Event(act, b, place) \in Post
        /\ up' = IF fe.conn /\ link = "open"
                   THEN Put(Put(up, Dropped(act, place), Release), Ready, Event(act, b, place))
                   ELSE up
    BY <1>14, <2>1, MouseEffect DEF Wires
  <2>3. Within(up', fe.gen)
    <3>1. Release.gen <= fe.gen /\ Event(act, b, place).gen <= fe.gen
      BY Messages
    <3>2. Within(up, fe.gen)
      BY DEF Wires
    <3>3. /\ Within(Put(up, Dropped(act, place), Release), fe.gen)
          /\ Put(up, Dropped(act, place), Release) \in Seq(Post)
      BY <1>0, <2>1, <3>1, <3>2, PutWithin
    <3>4. Within(Put(Put(up, Dropped(act, place), Release), Ready, Event(act, b, place)), fe.gen)
      BY <1>0, <2>2, <3>1, <3>3, PutWithin
    <3> QED
      BY <2>2, <3>2, <3>4
  <2> QED
    BY <2>2, <2>3 DEF Wires, Captured
<1>15. ASSUME NEW act \in {"keydown", "keyup", "escape"}, Key(act)
       PROVE  Wires' /\ Captured' /\ fired' = fired
  <2> DEFINE m == IF Gone \/ act = "escape" THEN Release ELSE ToCanvas(act, 0)
  <2>1. /\ UNCHANGED <<ui, ctl, se, fired, down, slot, link>>
        /\ UNCHANGED <<fe.conn, fe.calling, fe.connected, fe.gen, fe.pixels, fe.shown>>
        /\ fe'.pressed # {} => fe'.active
        /\ m \in Post
        /\ up' = Put(up, (Ready \/ Gone) /\ fe.conn /\ link = "open", m)
    BY <1>15, KeyEffect DEF Wires, Put
  <2>2. m.gen <= fe.gen
    BY Messages
  <2> HIDE DEF m
  <2>3. Within(up', fe.gen)
    BY <1>0, <2>1, <2>2, PutWithin DEF Wires
  <2> QED
    BY <2>1, <2>3 DEF Wires, Captured
<1>16. CASE LoseFocus
  <2>1. /\ UNCHANGED <<ui, ctl, se, fired, down, slot, link>>
        /\ UNCHANGED <<fe.conn, fe.calling, fe.connected, fe.gen, fe.pixels, fe.shown>>
        /\ fe'.pressed # {} => fe'.active
        /\ Release \in Post /\ [type |-> "cancel"] \in Post
        /\ up' = IF fe.conn /\ link = "open"
                   THEN Put(Put(up, Routed /\ fe.active, Release), Ready, [type |-> "cancel"])
                   ELSE up
    BY <1>16, LoseFocusEffect DEF Wires
  <2>2. Within(up', fe.gen)
    <3>1. Release.gen <= fe.gen /\ Within(up, fe.gen)
      BY Messages DEF Wires
    <3>2. /\ Within(Put(up, Routed /\ fe.active, Release), fe.gen)
          /\ Put(up, Routed /\ fe.active, Release) \in Seq(Post)
      BY <1>0, <2>1, <3>1, PutWithin
    <3>3. Within(Put(Put(up, Routed /\ fe.active, Release), Ready, [type |-> "cancel"]), fe.gen)
      BY <1>0, <2>1, <3>2, PutWithin
    <3> QED
      BY <2>1, <3>1, <3>3
  <2> QED
    BY <2>1, <2>2 DEF Wires, Captured
<1>17. CASE GainFocus
  <2>1. /\ UNCHANGED <<ui, ctl, se, fired, up, down, slot, link>>
        /\ fe' = [fe EXCEPT !.focused = TRUE, !.refocus = FALSE]
    BY <1>17 DEF GainFocus, FeStep
  <2>2. UNCHANGED <<fe.conn, fe.calling, fe.connected, fe.gen, fe.pixels, fe.shown, fe.pressed,
                    fe.active>>
    BY <1>0, <2>1 DEF Client
  <2> QED
    BY <2>1, <2>2 DEF Wires, Captured
<1>18. CASE Resize
  <2> DEFINE m == [type |-> "resize", gen |-> fe.gen + 1]
  <2>1. /\ UNCHANGED <<ui, ctl, se, fired, down, slot, link>>
        /\ UNCHANGED <<fe.conn, fe.calling, fe.connected, fe.pixels>>
        /\ fe'.gen = fe.gen + 1 /\ fe'.shown = None
        /\ fe'.pressed # {} => fe'.active
        /\ Release \in Post /\ m \in Post
        /\ up' = IF fe.conn /\ link = "open"
                   THEN Put(Put(up, Routed /\ fe.active, Release), fe.connected, m) ELSE up
    BY <1>18, ResizeEffect DEF Wires
  <2>2. m.gen = fe.gen + 1 /\ fe.gen + 1 \in Nat
    BY <1>0
  <2> HIDE DEF m
  <2>3. Within(up', fe.gen + 1)
    <3>1. Release.gen <= fe.gen + 1 /\ Within(up, fe.gen + 1)
      <4>1. Release.gen <= fe.gen /\ Release.gen \in Nat
        BY <1>0, Messages, Stamped DEF Types
      <4>2. Within(up, fe.gen + 1)
        BY SMTT(30), <1>0, <2>2, WithinGrows DEF Wires
      <4> QED
        BY <1>0, <4>1, <4>2
    <3>2. /\ Within(Put(up, Routed /\ fe.active, Release), fe.gen + 1)
          /\ Put(up, Routed /\ fe.active, Release) \in Seq(Post)
      BY <1>0, <2>1, <2>2, <3>1, PutWithin
    <3>3. Within(Put(Put(up, Routed /\ fe.active, Release), fe.connected, m), fe.gen + 1)
      BY <1>0, <2>1, <2>2, <3>2, PutWithin
    <3> QED
      BY <2>1, <3>1, <3>3
  <2>4. ui'.gen <= fe'.gen /\ se'.view <= fe'.gen
    BY <1>0, <2>1 DEF Wires
  <2> QED
    BY <2>1, <2>3, <2>4 DEF Wires, Captured
<1>19. CASE UNCHANGED vars
  BY <1>19 DEF vars, Wires, Captured, Within, Row
<1> QED
  BY <1>1, <1>2, <1>3, <1>4, <1>5, <1>6, <1>7, <1>8, <1>9, <1>10, <1>11, <1>12, <1>13, <1>14,
     <1>15, <1>16, <1>17, <1>18, <1>19 DEF Next, User

-----------------------------------------------------------------------------
(* Every step keeps what is believed of the canvas *)

LEMMA StaysSettled ==
  ASSUME NEW s \in Seq(Post), NEW m \in Post, NEW c, ~Holds(m),
         Settled(s) \/ (c /\ Frees(m))
  PROVE  Settled(Put(s, c, m))
<1>1. Freed(s) \/ Frees(m) => Freed(Append(s, m))
  BY Longer
<1>2. Free(s) => Free(Append(s, m))
  BY Longer
<1> QED
  BY <1>1, <1>2 DEF Settled, Put

LEMMA CanvasStep ==
  ASSUME GesturesAssumption, Types, Wires, Captured, CanvasInv, [Next]_vars
  PROVE  CanvasInv'
<1>0. /\ ui \in Screen /\ ctl \in Believed /\ se \in Session /\ fe \in Client
      /\ up \in Seq(Post) /\ down \in Seq({"hello", "toggle"}) /\ slot \in Scenes
      /\ link \in {"open", "cut"} /\ fe.gen \in Nat /\ se.toggles \in Nat
  BY DEF Types, Client, Session
\* Nothing of the canvas's changes, and what is sent does not make it hold anything.
<1>same. ASSUME UNCHANGED <<ctl, se.toggles, se.peer, link, fe.calling>>,
                UNCHANGED <<fe.connected, fe.active, fe.last, fe.refocus, fe.focused>>,
                Settled(up) => Settled(up')
         PROVE  CanvasInv'
  <2>1. UNCHANGED Empty /\ UNCHANGED Released
    BY <1>same DEF Empty, Released
  <2>2. Settled(up') => Settled(up)'
    BY <2>1 DEF Settled
  <2> QED
    BY <1>same, <2>1, <2>2 DEF CanvasInv
<1>1. CASE Work
  BY <1>1, <1>same DEF Work
<1>2. CASE AskToggle
  <2>1. /\ UNCHANGED <<ctl, fe, up, link>> /\ se' = [se EXCEPT !.toggles = @ + 1]
    BY <1>2 DEF AskToggle
  <2>2. se'.toggles > 0 /\ se'.peer = se.peer
    BY SMTT(30), <1>0, <2>1 DEF Session
  <2> QED
    BY <2>1, <2>2 DEF CanvasInv, Empty
<1>3. CASE Eof
  <2>1. /\ UNCHANGED <<fe, link>> /\ se' = [se EXCEPT !.peer = FALSE]
        /\ ctl' = [ctl EXCEPT !.attached = @ - 1, !.buttons = {}, !.key = FALSE]
    BY <1>3 DEF Eof, Detached, Idle
  <2>2. ~se'.peer /\ se'.toggles = se.toggles /\ Empty'
    BY <1>0, <2>1 DEF Session, Believed, Empty
  <2> QED
    BY <2>1, <2>2 DEF CanvasInv
<1>4. CASE Attach
  <2>1. /\ fe' = [fe EXCEPT !.calling = FALSE] /\ up' = <<>>
        /\ se' = [se EXCEPT !.peer = TRUE, !.view = fe.gen, !.unsent = TRUE]
        /\ IF se.peer THEN ctl' = [ctl EXCEPT !.buttons = {}, !.key = FALSE]
                      ELSE ctl' = [ctl EXCEPT !.attached = @ + 1]
    BY <1>4 DEF Attach
  <2>2. se'.peer /\ se'.toggles = se.toggles
        /\ UNCHANGED <<fe.active, fe.last, fe.refocus, fe.focused>>
    BY <1>0, <2>1 DEF Session, Client
  <2>3. Free(up')
    BY <2>1 DEF Free
  <2>4. ctl'.attached = 1 => Empty'
    <3>1. CASE se.peer
      BY <1>0, <2>1, <3>1 DEF Believed, Empty
    <3>2. CASE ~se.peer
      <4>1. ctl' = [ctl EXCEPT !.attached = @ + 1]
        BY <2>1, <3>2
      <4>2. ctl'.attached = ctl.attached + 1 /\ UNCHANGED <<ctl.buttons, ctl.key>>
            /\ ctl.attached \in Nat
        BY <1>0, <4>1 DEF Believed
      <4> QED
        BY <3>2, <4>2 DEF CanvasInv, Empty
    <3> QED
      BY <3>1, <3>2
  <2> QED
    BY <2>2, <2>3, <2>4 DEF CanvasInv, Settled
<1>5. CASE Receive
  <2> DEFINE m == Head(up)
  <2>1. /\ UNCHANGED <<fe, down, slot, link>> /\ up # <<>> /\ se.peer
        /\ up' = IF se'.peer THEN Tail(up) ELSE <<>>
        /\ ReadResult(m)
    BY <1>5, ReceiveEffect
  <2>2. /\ Free(up) => Free(Tail(up)) /\ ~Holds(m)
        /\ Freed(up) => Freed(Tail(up)) \/ (Frees(m) /\ Free(Tail(up)))
    BY <1>0, <2>1, Shorter
  <2> HIDE DEF m
  <2>3. /\ ctl'.attached = ctl.attached /\ se'.toggles = se.toggles
        /\ (Frees(m) => Empty') /\ (Empty /\ ~Holds(m) => Empty')
    BY <2>1 DEF ReadResult
  <2>4. ctl'.attached > 0 /\ ctl.attached \in Nat
    BY <1>0, <2>1, <2>3 DEF Types, Believed
  <2>5. Settled(up) /\ se'.peer => Settled(up)'
    BY <2>1, <2>2, <2>3 DEF Settled
  <2>6. UNCHANGED Released
    BY <2>1 DEF Released
  <2> QED
    BY <2>1, <2>3, <2>4, <2>5, <2>6 DEF CanvasInv
<1>6. CASE Paint
  <2> DEFINE scene == slot'
  <2>1. /\ UNCHANGED <<ctl, fe, up, link>>
        /\ se' = [se EXCEPT !.scene = scene, !.unsent = FALSE, !.history = @ \cup {scene}]
    BY <1>6 DEF Paint
  <2> HIDE DEF scene
  <2>2. UNCHANGED <<se.toggles, se.peer>>
    BY <1>0, <2>1 DEF Session
  <2> QED
    BY <1>same, <2>1, <2>2
<1>7. CASE HandleHello
  <2> DEFINE m == [type |-> "resize", gen |-> fe.gen]
  <2>1. /\ fe.conn /\ ~fe.calling /\ down # <<>> /\ Head(down) = "hello"
        /\ fe' = [fe EXCEPT !.connected = TRUE, !.last = None, !.shown = None,
                           !.course = "none"]
        /\ up' = Sent(<<m>>)
        /\ UNCHANGED <<ctl, se, link>>
    BY <1>7 DEF HandleHello, FeStep
  <2>2. m \in Post /\ ~Holds(m)
    BY <1>0, EventPosts DEF Holds
  <2> HIDE DEF m
  <2>3. up' = Put(up, fe.conn /\ link = "open", m)
    BY <1>0, <2>1, <2>2, SentOne
  <2>4. ~fe.connected
    BY <1>0, <2>1, HelloGone DEF Wires
  <2>5. /\ fe'.calling = fe.calling /\ fe'.last = None
        /\ UNCHANGED <<fe.active, fe.refocus, fe.focused>>
    BY <1>0, <2>1 DEF Client
  <2>6. Settled(up) => Settled(up')
    BY <1>0, <2>2, <2>3, StaysSettled
  <2>7. Settled(up) => Settled(up)'
    BY <2>1, <2>6 DEF Settled, Empty
  <2>8. Empty => Empty'
    BY <2>1 DEF Empty
  <2> QED
    BY <2>1, <2>4, <2>5, <2>7, <2>8 DEF CanvasInv, Released
<1>8. CASE HandleToggle
  <2>1. /\ down # <<>> /\ Head(down) = "toggle" /\ UNCHANGED <<ctl, se>>
        /\ fe' = [fe EXCEPT !.pixels = ~@, !.gen = @ + 1, !.last = None, !.shown = None,
                           !.course = "none"]
    BY <1>8 DEF HandleToggle, FeStep
  <2>2. se.toggles > 0
    BY <1>0, <2>1, HelloGone DEF Wires
  <2>3. UNCHANGED <<fe.active, fe.refocus, fe.focused>>
    BY <1>0, <2>1 DEF Client
  <2> QED
    BY <2>1, <2>2, <2>3 DEF CanvasInv, Empty
<1>9. CASE Arrive
  <2>1. UNCHANGED <<ctl, se, up, link>>
    BY <1>9 DEF Arrive, FeStep
  <2>2. /\ UNCHANGED <<fe.calling, fe.connected, fe.focused>> /\ (fe'.refocus => fe.refocus)
        /\ \/ fe' = fe
           \/ fe'.last # None
              /\ \/ fe'.active = fe.active /\ (~fe.refocus \/ ~fe.focused)
                 \/ fe'.active /\ ~fe'.refocus /\ fe.refocus
                 \/ ~fe'.active /\ fe.refocus
    BY <1>9, Arriving
  <2>3. se.toggles = 0 /\ Released' => Released
    BY <2>2 DEF CanvasInv, Released
  <2>4. Empty' = Empty /\ (Settled(up) => Settled(up)')
    BY <2>1 DEF Empty, Settled
  <2>5. fe'.refocus /\ se.toggles = 0 => ~fe'.active \/ fe'.last = None
    BY <2>2 DEF CanvasInv
  <2> QED
    BY <2>1, <2>2, <2>3, <2>4, <2>5 DEF CanvasInv
<1>10. CASE Show
  <2> DEFINE m == [type |-> "presented", rev |-> fe.last.rev, gen |-> fe.last.gen]
  <2>1. /\ UNCHANGED <<ctl, se, link>> /\ fe.last # None
        /\ fe' = [fe EXCEPT !.shown = fe.last]
        /\ up' = IF fe.connected THEN Sent(<<m>>) ELSE up
    BY <1>10 DEF Show, FeStep
  <2>2. m \in Post /\ ~Holds(m)
    <3>1. fe.last \in Scene
      BY <1>0, <2>1 DEF Client, Scenes
    <3> QED
      BY <1>0, <3>1, EventPosts DEF Scene, Holds
  <2> HIDE DEF m
  <2>3. Settled(up) => Settled(up')
    BY <1>0, <2>1, <2>2, SentOne, StaysSettled
  <2>4. UNCHANGED <<fe.connected, fe.active, fe.last, fe.refocus, fe.focused, fe.calling>>
    BY <1>0, <2>1 DEF Client
  <2> QED
    BY <1>same, <2>1, <2>3, <2>4
<1>11. CASE Lose
  <2>1. UNCHANGED <<ctl, se>> /\ link' = "cut" /\ fe' = [fe EXCEPT !.breaks = @ + 1]
    BY <1>11 DEF Lose, FeStep
  <2>2. UNCHANGED <<fe.active, fe.last, fe.refocus, fe.focused>>
    BY <1>0, <2>1 DEF Client
  <2> QED
    BY <2>1, <2>2 DEF CanvasInv, Empty
<1>12. CASE Dead
  <2>1. /\ UNCHANGED <<ctl, se, link>> /\ link = "cut"
        /\ fe' = [LetGo(fe) EXCEPT !.conn = FALSE, !.connected = FALSE, !.shown = None,
                                   !.refocus = FALSE]
    BY <1>12 DEF Dead, FeStep
  <2>2. LetGo(fe) \in Client
    BY <1>0, LetGoType
  <2>3. ~fe'.refocus
    BY <2>1, <2>2 DEF Client
  <2> QED
    BY <2>1, <2>3 DEF CanvasInv, Empty
<1>13. CASE Reconnect
  <2>1. /\ UNCHANGED <<ctl, se, link>> /\ ~fe.conn
        /\ fe' = [fe EXCEPT !.conn = TRUE, !.calling = TRUE, !.gen = @ + 1,
                           !.course = "none"]
    BY <1>13 DEF Reconnect, FeStep
  <2>2. UNCHANGED <<fe.active, fe.last, fe.refocus, fe.focused>> /\ fe'.calling
    BY <1>0, <2>1 DEF Client
  <2> QED
    BY <2>1, <2>2 DEF CanvasInv, Empty
\* The canvas was the Router's: with no switch, over an open link, its release goes out.
<1>ours. ASSUME se.toggles = 0, link = "open", ~Released
         PROVE  fe.conn /\ Routed /\ fe.active /\ fe.connected
  BY <1>ours DEF Wires, Released, Routed
<1>14. ASSUME NEW act \in {"down", "up", "wheel"}, NEW b \in Buttons,
              NEW place \in {"row", "canvas"}, Mouse(act, b, place)
       PROVE  CanvasInv'
  <2> DEFINE m == Event(act, b, place)
             drop == Dropped(act, place)
             first == Put(up, drop, Release)
  <2>1. place \in Places /\ Release \in Post
    BY <1>0, EventPosts DEF Places
  <2>2. /\ UNCHANGED <<ctl, se, link>>
        /\ UNCHANGED <<fe.conn, fe.calling, fe.connected, fe.last, fe.focused>>
        /\ fe'.active = ((fe.active /\ ~drop) \/ (Taken(place) /\ act = "down"))
        /\ fe'.refocus = (fe.refocus /\ act # "down")
        /\ m \in Post
        /\ up' = IF fe.conn /\ link = "open" THEN Put(first, Ready, m) ELSE up
    BY <1>14, <2>1, MouseEffect
  <2>3. /\ Holds(m) => Taken(place) /\ act = "down"
        /\ Frees(Release) /\ ~Holds(Release) /\ (Taken(place) => fe.last # None)
    BY Messages DEF Taken, Routed
  <2>4. first \in Seq(Post)
    BY <1>0, <2>1, PutType
  <2>5. Settled(up) \/ drop => Settled(first)
    BY <1>0, <2>1, <2>3, StaysSettled
  <2> HIDE DEF m, first, drop
  <2>6. Settled(first) /\ (Ready => ~Holds(m)) => Settled(Put(first, Ready, m))
    <3>1. CASE Ready
      BY <2>2, <2>4, <3>1, StaysSettled
    <3>2. CASE ~Ready
      BY <3>2 DEF Put
    <3> QED
      BY <3>1, <3>2
  <2>7. /\ se.toggles = 0 /\ ctl.attached = 1 /\ se.peer /\ link = "open" /\ ~fe.calling
        /\ Released'
        => Settled(up')
    <3> SUFFICES ASSUME se.toggles = 0, ctl.attached = 1, se.peer, link = "open", ~fe.calling,
                        Released'
                 PROVE  Settled(up')
      OBVIOUS
    <3>1. fe.conn
      BY DEF Wires
    <3>2. Ready => ~Holds(m)
      BY <2>2, <2>3 DEF Released, Ready
    <3>3. Settled(up) \/ drop
      <4>1. CASE Released
        BY <4>1 DEF CanvasInv
      <4>2. CASE ~Released
        BY <1>ours, <2>2, <4>2 DEF Released
      <4> QED
        BY <4>1, <4>2
    <3> QED
      BY <2>2, <2>5, <2>6, <3>1, <3>2, <3>3
  <2>8. Empty' = Empty /\ (Settled(up') => Settled(up)')
    BY <2>2 DEF Empty, Settled
  <2> QED
    BY <2>2, <2>7, <2>8 DEF CanvasInv
<1>15. ASSUME NEW act \in {"keydown", "keyup", "escape"}, Key(act)
       PROVE  CanvasInv'
  <2> DEFINE lets == Gone \/ act = "escape"
             m == IF lets THEN Release ELSE ToCanvas(act, 0)
             c == (Ready \/ Gone) /\ fe.conn /\ link = "open"
  <2>1. /\ Routed /\ fe.active /\ (Ready \/ ~fe.connected) /\ UNCHANGED <<ctl, se, link>>
        /\ UNCHANGED <<fe.conn, fe.calling, fe.connected, fe.last, fe.focused>>
        /\ fe'.active = (fe.active /\ ~lets) /\ ~fe'.refocus
        /\ m \in Post /\ up' = Put(up, c, m)
    BY <1>15, KeyEffect DEF Put
  <2>2. lets => Frees(m) /\ ~Holds(m)
    BY Messages
  <2>3. Gone => lets
    OBVIOUS
  <2>4. Ready => fe.connected
    BY DEF Ready
  <2> HIDE DEF lets, m
  <2>5. /\ se.toggles = 0 /\ ctl.attached = 1 /\ se.peer /\ link = "open" /\ ~fe.calling
        /\ Released'
        => Settled(up')
    <3> SUFFICES ASSUME se.toggles = 0, ctl.attached = 1, se.peer, link = "open", ~fe.calling,
                        Released'
                 PROVE  Settled(up')
      OBVIOUS
    <3>1. fe.conn /\ fe.last # None
      BY <2>1 DEF Wires, Routed
    <3>2. CASE fe.connected
      BY <1>0, <2>1, <2>2, <3>1, <3>2, StaysSettled DEF Released
    <3>3. CASE ~fe.connected
      <4>1. Settled(up)
        BY <3>3 DEF CanvasInv, Released
      <4>2. c => lets
        BY <2>3, <2>4, <3>3
      <4>3. CASE c
        BY <1>0, <2>1, <2>2, <4>1, <4>2, <4>3, StaysSettled
      <4>4. CASE ~c
        BY <2>1, <4>1, <4>4 DEF Put
      <4> QED
        BY <4>3, <4>4
    <3> QED
      BY <3>2, <3>3
  <2>6. Empty' = Empty /\ (Settled(up') => Settled(up)')
    BY <2>1 DEF Empty, Settled
  <2> QED
    BY <2>1, <2>5, <2>6 DEF CanvasInv
\* The Router lets go of what it has, and something else is said.
<1>lets. ASSUME NEW m \in Post, NEW c, ~Holds(m), UNCHANGED <<ctl, se, link, fe.calling>>,
                up' = IF fe.conn /\ link = "open"
                        THEN Put(Put(up, Routed /\ fe.active, Release), c, m) ELSE up,
                fe'.refocus => fe'.focused,
                fe'.refocus /\ se.toggles = 0 => ~fe'.active \/ fe'.last = None
         PROVE  CanvasInv'
  <2> DEFINE first == Put(up, Routed /\ fe.active, Release)
  <2>1. Release \in Post /\ Frees(Release) /\ ~Holds(Release)
    BY <1>0, EventPosts, Messages
  <2>2. first \in Seq(Post)
    BY <1>0, <2>1, PutType
  <2>3. Settled(up) \/ (Routed /\ fe.active) => Settled(first)
    BY <1>0, <2>1, StaysSettled
  <2> HIDE DEF first
  <2>4. Settled(first) => Settled(Put(first, c, m))
    BY <1>lets, <2>2, StaysSettled
  <2>5. /\ se.toggles = 0 /\ ctl.attached = 1 /\ se.peer /\ link = "open" /\ ~fe.calling
        => Settled(up')
    BY <1>ours, <1>lets, <2>3, <2>4 DEF CanvasInv, Wires, first
  <2>6. Empty' = Empty /\ (Settled(up') => Settled(up)')
    BY <1>lets DEF Empty, Settled
  <2> QED
    BY <1>lets, <2>5, <2>6 DEF CanvasInv
<1>16. CASE LoseFocus
  <2> DEFINE m == [type |-> "cancel"]
  <2>1. /\ UNCHANGED <<ctl, se, link, fe.calling>> /\ ~fe'.refocus /\ m \in Post
        /\ up' = IF fe.conn /\ link = "open"
                   THEN Put(Put(up, Routed /\ fe.active, Release), Ready, m) ELSE up
    BY <1>16, LoseFocusEffect
  <2>2. ~Holds(m)
    BY DEF Holds
  <2> HIDE DEF m
  <2> QED
    BY <1>lets, <2>1, <2>2
<1>17. CASE GainFocus
  <2>1. /\ UNCHANGED <<ctl, se, up, link>>
        /\ fe' = [fe EXCEPT !.focused = TRUE, !.refocus = FALSE]
    BY <1>17 DEF GainFocus, FeStep
  <2>2. /\ UNCHANGED <<fe.calling, fe.connected, fe.active, fe.last>>
        /\ fe'.focused /\ ~fe'.refocus
    BY <1>0, <2>1 DEF Client
  <2> QED
    BY <2>1, <2>2 DEF CanvasInv, Empty, Settled, Released
<1>18. CASE Resize
  <2> DEFINE m == [type |-> "resize", gen |-> fe.gen + 1]
  <2>1. /\ UNCHANGED <<ctl, se, link, fe.calling, fe.focused>> /\ fe'.last = None
        /\ (fe'.refocus => fe.refocus \/ fe.focused) /\ m \in Post
        /\ up' = IF fe.conn /\ link = "open"
                   THEN Put(Put(up, Routed /\ fe.active, Release), fe.connected, m) ELSE up
    BY <1>18, ResizeEffect
  <2>2. ~Holds(m)
    BY DEF Holds
  <2> HIDE DEF m
  <2>3. fe'.refocus => fe'.focused
    BY <2>1 DEF CanvasInv
  <2> QED
    BY <1>lets, <2>1, <2>2, <2>3
<1>19. CASE UNCHANGED vars
  BY <1>19 DEF vars, CanvasInv, Empty, Settled, Released, Free, Freed, Holds, Frees
<1> QED
  BY <1>1, <1>2, <1>3, <1>4, <1>5, <1>6, <1>7, <1>8, <1>9, <1>10, <1>11, <1>12, <1>13, <1>14,
     <1>15, <1>16, <1>17, <1>18, <1>19 DEF Next, User


-----------------------------------------------------------------------------
(* Every step keeps the ends of the gestures coming *)

LEMMA Fresh ==
  ASSUME NEW s \in Seq(Post), NEW g \in Nat, Within(s, g)
  PROVE  Without(s, g + 1)
<1> SUFFICES ASSUME NEW i \in DOMAIN s, Begins(s[i])
             PROVE  s[i].gen # g + 1
  BY DEF Without
<1>1. s[i] \in Post /\ s[i].type # "cancel"
  BY DEF Begins
<1>2. s[i].gen \in Nat
  BY <1>1 DEF Post, CanvasEvent, PlainEvent, Notice
<1>3. s[i].gen <= g
  BY <1>1 DEF Within
<1> QED
  BY <1>2, <1>3

LEMMA NothingBegun ==
  ASSUME NEW s, Without(s, fe.gen)
  PROVE  Answered(s)
  BY DEF Without, Answered

\* A message that begins nothing.
LEMMA PutGesture ==
  ASSUME NEW s \in Seq(Post), NEW m \in Post, NEW c, NEW g \in Nat, ~Begins(m), Without(s, g)
  PROVE  Without(Put(s, c, m), g)
  BY Longer DEF Put

LEMMA CaptureStep ==
  ASSUME GesturesAssumption, Types, Wires, Captured, CaptureInv, [Next]_vars
  PROVE  CaptureInv'
<1>0. /\ ui \in Screen /\ ctl \in Believed /\ se \in Session /\ fe \in Client
      /\ up \in Seq(Post) /\ down \in Seq({"hello", "toggle"}) /\ slot \in Scenes
      /\ link \in {"open", "cut"} /\ Uncaptured(ui).capture = None
      /\ Uncaptured(ui).gen = ui.gen /\ fe.gen \in Nat /\ ui.gen \in Nat
  BY Uncapturing DEF Types, Screen, Client
\* The session's steps that read nothing.
<1>ours. ASSUME UNCHANGED <<se.press, fe, up, link>>, se'.peer => se.peer,
                ui'.capture # None => ui'.capture = ui.capture /\ ui'.gen = ui.gen
         PROVE  CaptureInv'
  <2>1. UNCHANGED Making
    BY <1>ours DEF Making, Ready
  <2>2. Answered(up) => Answered(up)'
    BY <1>ours, <2>1 DEF Answered, Pending
  <2>3. Closing(up) => Closing(up)'
    BY <1>ours, <2>1 DEF Closing
  <2> QED
    BY <1>ours, <2>2, <2>3 DEF CaptureInv
\* A new geometry of the frontend, in which nothing has begun.
<1>anew. ASSUME UNCHANGED <<ui, se>>, fe'.gen = fe.gen + 1, Without(up', fe'.gen)
         PROVE  CaptureInv'
  <2>1. ui'.gen # fe'.gen
    BY <1>0, <1>anew DEF Wires
  <2>2. Answered(up)'
    BY <1>anew DEF Without, Answered
  <2> QED
    BY <1>anew, <2>1, <2>2 DEF CaptureInv
\* The frontend sends more and goes on with what it does.
<1>more. ASSUME UNCHANGED <<ui, se, link, fe.conn, fe.connected, fe.gen>>, up' \in Seq(Post),
                Onto(up, up'), fe'.course # "astray" => fe.course # "astray",
                fe.conn /\ ~fe.connected => (Without(up, fe.gen) => Without(up', fe.gen)),
                ASSUME link = "open", fe'.course # "astray", Making, NEW i \in 0 .. Len(up),
                       Tidy(up, i)
                PROVE  Ended(up', i) \/ (Making' /\ Tidy(up', i)),
                ASSUME fe.connected, link = "open", fe'.course # "astray",
                       NEW i \in DOMAIN up', i \notin DOMAIN up, Begins(up'[i])
                PROVE  Making' /\ Tidy(up', i)
         PROVE  CaptureInv'
  <2>1. CASE ~(fe.connected /\ link = "open" /\ fe'.course # "astray")
    BY <1>more, <2>1 DEF CaptureInv
  <2>2. CASE fe.connected /\ link = "open" /\ fe'.course # "astray"
    <3>1. /\ se.peer /\ ui.capture # None /\ ui.gen = fe.gen => Closing(up)
          /\ Answered(up)
      BY <1>more, <2>2 DEF CaptureInv
    <3>2. \A i \in 0 .. Len(up) : /\ Cancelled(up, i) => Cancelled(up', i)
                                  /\ Ended(up, i) => Ended(up', i)
      BY <1>0, <1>more, Behind
    <3>3. \A i \in 0 .. Len(up) : Making /\ Tidy(up, i)
                                    => Ended(up', i) \/ (Making' /\ Tidy(up', i))
      BY <1>more, <2>2
    <3>4. Closing(up) => Closing(up)'
      <4>1. 0 \in 0 .. Len(up)
        BY <1>0
      <4>2. Cancelled(up, 0) => Cancelled(up', 0)
        BY <3>2, <4>1
      <4>3. Ended(up, 0) => Ended(up', 0)
        BY <3>2, <4>1
      <4>4. Making /\ Tidy(up, 0) => Ended(up', 0) \/ (Making' /\ Tidy(up', 0))
        BY <3>3, <4>1
      <4>5. UNCHANGED se.press
        BY <1>more
      <4> QED
        BY <4>2, <4>3, <4>4, <4>5 DEF Closing
    <3>5. Answered(up)'
      <4> SUFFICES ASSUME NEW i \in DOMAIN up', Begins(up'[i]), up'[i].gen = fe.gen
                   PROVE  Cancelled(up', i) \/ Ended(up', i) \/ (Making' /\ Tidy(up', i))
        BY <1>more DEF Answered, Pending
      <4>1. CASE i \notin DOMAIN up
        BY <1>more, <2>2, <4>1
      <4>2. CASE i \in DOMAIN up
        <5>1. i \in 0 .. Len(up) /\ up'[i] = up[i]
          BY <1>0, <1>more, <4>2 DEF Onto
        <5>2. Cancelled(up, i) \/ Ended(up, i) \/ (Making /\ Tidy(up, i))
          BY <3>1, <4>2, <5>1 DEF Answered, Pending
        <5>3. Cancelled(up, i) => Cancelled(up', i)
          BY <3>2, <5>1
        <5>4. Ended(up, i) => Ended(up', i)
          BY <3>2, <5>1
        <5>5. Making /\ Tidy(up, i) => Ended(up', i) \/ (Making' /\ Tidy(up', i))
          BY <3>3, <5>1
        <5> QED
          BY <5>2, <5>3, <5>4, <5>5
      <4> QED
        BY <4>1, <4>2
    <3> QED
      BY <1>more, <2>2, <3>1, <3>4, <3>5 DEF CaptureInv
  <2> QED
    BY <2>1, <2>2
\* Of these, what has to do with no gesture.
<1>goes. ASSUME UNCHANGED <<ui, se, link, fe.conn, fe.connected, fe.gen, fe.course>>,
                Making => Making', up' \in Seq(Post), Quiet(up, up'),
                Without(up, fe.gen) => Without(up', fe.gen)
         PROVE  CaptureInv'
  <2>1. Onto(up, up')
    BY <1>goes DEF Quiet
  <2>2. \A i \in 0 .. Len(up) : Tidy(up, i) => Tidy(up', i)
    BY <1>0, <1>goes, <2>1, Behind
  <2>3. \A i \in DOMAIN up' : i \in DOMAIN up \/ ~Begins(up'[i])
    <3>1. /\ DOMAIN up = 1 .. Len(up) /\ DOMAIN up' = 1 .. Len(up')
          /\ Len(up) \in Nat /\ Len(up') \in Nat
      BY <1>0, <1>goes
    <3> QED
      BY <1>goes, <3>1 DEF Quiet
  <2> QED
    BY <1>more, <1>goes, <2>1, <2>2, <2>3
<1>1. CASE Work
  <2>1. UNCHANGED <<ctl, se, fe, up, link>>
    BY <1>1 DEF Work
  <2>2. ui'.gen = ui.gen /\ (ui'.capture # None => ui'.capture = ui.capture)
    BY <1>0, <1>1, Working
  <2> QED
    BY <1>ours, <2>1, <2>2
<1>2. CASE AskToggle
  <2>1. UNCHANGED <<ui, fe, up, link>> /\ se' = [se EXCEPT !.toggles = @ + 1]
    BY <1>2 DEF AskToggle
  <2>2. UNCHANGED <<se.press, se.peer>>
    BY <1>0, <2>1 DEF Session
  <2> QED
    BY <1>ours, <2>1, <2>2
<1>3. CASE Eof
  <2>1. ui' = Uncaptured(ui) /\ UNCHANGED fe /\ link = "cut" /\ link' = link /\ up' = <<>>
    BY <1>3 DEF Eof, Detached
  <2>2. Without(up', fe'.gen) /\ Answered(up)'
    BY <2>1 DEF Without, Answered
  <2> QED
    BY <1>0, <2>1, <2>2 DEF CaptureInv
<1>4. CASE Attach
  <2>1. /\ fe.calling /\ fe' = [fe EXCEPT !.calling = FALSE] /\ up' = <<>>
        /\ ui' = Uncaptured(ui) \/ ui' = ui
        /\ se' = [se EXCEPT !.peer = TRUE, !.view = fe.gen, !.unsent = TRUE]
    BY <1>4 DEF Attach
  <2>2. /\ UNCHANGED <<fe.conn, fe.connected, fe.gen, se.press>>
        /\ fe.conn /\ ~fe.connected
    BY <1>0, <2>1 DEF Client, Session, Wires
  <2>3. Without(up', fe'.gen)
    BY <2>1 DEF Without
  <2> QED
    BY <1>0, <2>1, <2>2, <2>3 DEF CaptureInv
<1>5. CASE Receive
  <2> DEFINE m == Head(up)
  <2>1. /\ m \in Post /\ up # <<>> /\ UNCHANGED <<fe, link>>
        /\ up' = IF se'.peer THEN Tail(up) ELSE <<>>
        /\ ReadResult(m) /\ se.peer
    BY <1>5, ReceiveEffect
  <2>2. Without(up, fe.gen) => Without(Tail(up), fe.gen) /\ (Begins(m) => m.gen # fe.gen)
    BY <1>0, <2>1, Shorter
  <2>3. Without(<<>>, fe.gen)
    BY DEF Without
  <2>4. /\ DOMAIN up = 1 .. Len(up) /\ Len(up) \in Nat /\ 1 \in DOMAIN up /\ m = up[1]
        /\ DOMAIN Tail(up) = 1 .. Len(up) - 1
        /\ \A i \in DOMAIN Tail(up) : Tail(up)[i] = up[i + 1] /\ i + 1 \in DOMAIN up /\ i \in Nat
    <3>1. /\ Len(up) \in Nat /\ Len(up) > 0 /\ Len(Tail(up)) = Len(up) - 1 /\ m = up[1]
          /\ DOMAIN up = 1 .. Len(up) /\ DOMAIN Tail(up) = 1 .. Len(up) - 1
          /\ \A i \in 1 .. Len(up) - 1 : Tail(up)[i] = up[i + 1]
      BY <1>0, <2>1, HeadTailProperties
    <3> QED
      BY <3>1
  <2> HIDE DEF m
  <2>5. /\ m.type = "pointer" => m.gen # None
        /\ Ends(m) => (se.press # None => Admits(m))
        /\ m.type # "cancel" <=> ~Cancels(m)
    <3>1. m.type = "pointer" => m \in PlainEvent
      BY <2>1 DEF Post, CanvasEvent, Notice
    <3> QED
      BY <3>1 DEF PlainEvent, Begins, Ends, Cancels, Admits, GesturesAssumption
  <2>6. ui'.gen = ui.gen /\ UNCHANGED Making
    BY <2>1 DEF ReadResult, Making, Ready
  <2>7. CASE ~se'.peer
    <3>1. up' = <<>>
      BY <2>1, <2>7
    <3>2. Answered(up)'
      BY <3>1 DEF Answered
    <3>3. ui'.capture # None /\ fe.conn /\ ~fe.connected => ui.gen # fe.gen
      BY <2>1, <2>2, <2>5 DEF ReadResult, CaptureInv, Begins
    <3> QED
      BY <2>1, <2>3, <2>6, <2>7, <3>1, <3>2, <3>3 DEF CaptureInv
  <2>8. CASE se'.peer
    <3>1. up' = Tail(up)
      BY <2>1, <2>8
    <3>2. ui'.capture # None /\ fe.conn /\ ~fe.connected => ui.gen # fe.gen
      BY <2>1, <2>2, <2>5 DEF ReadResult, CaptureInv, Begins
    <3>3. Answered(up) => Answered(up)'
      <4> SUFFICES ASSUME Answered(up), NEW i \in DOMAIN Tail(up), Begins(Tail(up)[i]),
                          Tail(up)[i].gen = fe.gen
                   PROVE  \/ Cancelled(Tail(up), i) \/ Ended(Tail(up), i)
                          \/ Making /\ Tidy(Tail(up), i)
        BY <2>1, <2>6, <3>1 DEF Answered, Pending
      <4>1. i \in Nat /\ i + 1 \in DOMAIN up /\ Tail(up)[i] = up[i + 1]
        BY <2>4
      <4>2. \/ Cancelled(up, i + 1) \/ Ended(up, i + 1)
            \/ Making /\ Tidy(up, i + 1)
        BY <4>1 DEF Answered, Pending
      <4> QED
        BY <1>0, <2>1, <4>1, <4>2, Ahead
    <3>4. ASSUME Answered(up), ui'.capture # None, ui.gen = fe.gen,
                 ui.capture # None => Closing(up)
          PROVE  Closing(up)'
      <4>1. /\ Cancelled(up, 1) => Cancelled(Tail(up), 0)
            /\ Ended(up, 1) => Ended(Tail(up), 0)
            /\ Tidy(up, 1) => Tidy(Tail(up), 0)
            /\ Cancelled(up, 0) => Cancels(m) \/ Cancelled(Tail(up), 0)
            /\ Ended(up, 0) => ~Spoils(m) /\ (Ends(m) \/ Ended(Tail(up), 0))
            /\ Tidy(up, 0) => ~Spoils(m) /\ Tidy(Tail(up), 0)
        <5>1. 0 + 1 = 1 /\ 0 \in Nat
          OBVIOUS
        <5> QED
          BY <1>0, <2>1, <5>1, Ahead DEF m
      <4>2. CASE Begins(m) /\ m.gen = ui.gen /\ se'.press = m.gen
        <5>1. Cancelled(up, 1) \/ Ended(up, 1) \/ (Making /\ Tidy(up, 1))
          BY <2>4, <3>4, <4>2 DEF Answered, Pending
        <5> QED
          BY <2>5, <2>6, <3>1, <4>1, <4>2, <5>1 DEF Closing, Begins
      <4>3. CASE ui.capture # None /\ ~Cancels(m) /\ Spoils(m)
        BY <3>1, <3>4, <4>1, <4>3 DEF Closing
      <4>4. CASE /\ ui.capture # None /\ ~Cancels(m) /\ Ends(m) /\ ~Admits(m)
        BY <2>5, <3>1, <3>4, <4>1, <4>4 DEF Closing
      <4>5. CASE /\ ui.capture # None /\ ~Cancels(m) /\ ~Ends(m)
                 /\ (se'.press = se.press \/ se'.press # None)
        BY <2>6, <3>1, <3>4, <4>1, <4>5 DEF Closing
      <4> QED
        BY <2>1, <2>5, <3>4, <4>2, <4>3, <4>4, <4>5 DEF ReadResult
    <3> QED
      BY <2>1, <2>2, <2>6, <2>8, <3>1, <3>2, <3>3, <3>4 DEF CaptureInv
  <2> QED
    BY <2>7, <2>8
<1>6. CASE Paint
  <2> DEFINE scene == slot'
  <2>1. /\ UNCHANGED <<fe, up, link>> /\ ui' = Framed(ui, se.view)
        /\ se' = [se EXCEPT !.scene = scene, !.unsent = FALSE, !.history = @ \cup {scene}]
    BY <1>6 DEF Paint
  <2> HIDE DEF scene
  <2>2. UNCHANGED <<se.press, se.peer>>
    BY <1>0, <2>1 DEF Session
  <2>3. ui' = ui \/ ui'.capture = None
    <3>1. [ui EXCEPT !.gen = se.view] \in Screen
      BY <1>0 DEF Session, Screen
    <3> QED
      BY <2>1, <3>1, Uncapturing DEF Framed
  <2> QED
    BY <1>ours, <2>1, <2>2, <2>3
<1>7. CASE HandleHello
  <2> DEFINE m == [type |-> "resize", gen |-> fe.gen]
  <2>1. /\ fe.conn /\ ~fe.calling /\ down # <<>> /\ Head(down) = "hello"
        /\ fe' = [fe EXCEPT !.connected = TRUE, !.last = None, !.shown = None,
                           !.course = "none"]
        /\ up' = Sent(<<m>>)
        /\ UNCHANGED <<ui, se, link>>
    BY <1>7 DEF HandleHello, FeStep
  <2>2. m \in Post /\ ~Begins(m)
    BY <1>0, EventPosts DEF Begins
  <2> HIDE DEF m
  <2>3. up' = Put(up, fe.conn /\ link = "open", m)
    BY <1>0, <2>1, <2>2, SentOne
  <2>4. ~fe.connected
    BY <1>0, <2>1, HelloGone DEF Wires
  <2>5. fe'.gen = fe.gen /\ fe'.connected
    BY <1>0, <2>1 DEF Client
  <2>6. Without(up', fe'.gen)
    BY <1>0, <2>1, <2>2, <2>3, <2>4, <2>5, PutGesture DEF CaptureInv
  <2>7. Answered(up)'
    BY <2>6 DEF Without, Answered
  <2> QED
    BY <2>1, <2>4, <2>5, <2>6, <2>7 DEF CaptureInv
<1>8. CASE HandleToggle
  <2> DEFINE m == [type |-> "presentation", gen |-> fe.gen + 1]
  <2>1. /\ fe' = [fe EXCEPT !.pixels = ~@, !.gen = @ + 1, !.last = None, !.shown = None,
                           !.course = "none"]
        /\ up' = Sent(<<m>>) /\ UNCHANGED <<ui, se>>
    BY <1>8 DEF HandleToggle, FeStep
  <2>2. m \in Post /\ ~Begins(m) /\ fe.gen + 1 \in Nat
    BY <1>0, EventPosts DEF Begins
  <2> HIDE DEF m
  <2>3. fe'.gen = fe.gen + 1
    BY <1>0, <2>1 DEF Client
  <2>4. Without(up, fe.gen + 1)
    BY <1>0, Fresh DEF Wires
  <2>5. Without(up', fe.gen + 1)
    BY <1>0, <2>1, <2>2, <2>4, SentOne, PutGesture
  <2> QED
    BY <1>anew, <2>1, <2>3, <2>5
<1>9. CASE Arrive
  <2>1. UNCHANGED <<ui, se, up, link>>
    BY <1>9 DEF Arrive, FeStep
  <2>2. /\ UNCHANGED <<fe.conn, fe.connected, fe.gen, fe.shown, fe.held, fe.course>>
        /\ fe' = fe \/ fe'.last # None
    BY <1>9, Arriving
  <2>3. Making => Making'
    BY <2>2 DEF Making, Ready
  <2>4. Quiet(up, up') /\ up' \in Seq(Post)
    BY <1>0, <2>1 DEF Quiet, Onto
  <2> QED
    BY <1>goes, <2>1, <2>2, <2>3, <2>4
<1>10. CASE Show
  <2> DEFINE m == [type |-> "presented", rev |-> fe.last.rev, gen |-> fe.last.gen]
  <2>1. /\ UNCHANGED <<ui, se, link>> /\ fe.last # None /\ fe.last.gen = fe.gen
        /\ fe' = [fe EXCEPT !.shown = fe.last]
        /\ up' = IF fe.connected THEN Sent(<<m>>) ELSE up
    BY <1>10 DEF Show, FeStep
  <2>2. m \in Post /\ ~Begins(m) /\ ~Spoils(m)
    <3>1. fe.last \in Scene
      BY <1>0, <2>1 DEF Client, Scenes
    <3> QED
      BY <1>0, <3>1, EventPosts DEF Scene, Begins, Spoils
  <2> HIDE DEF m
  <2>3. /\ UNCHANGED <<fe.conn, fe.connected, fe.gen, fe.last, fe.held, fe.course>>
        /\ fe'.shown = fe.last
    BY <1>0, <2>1 DEF Client
  <2>4. Making => Making'
    BY <2>1, <2>3 DEF Making, Ready
  <2>5. /\ Without(up, fe.gen) => Without(up', fe.gen)
        /\ Quiet(up, up') /\ up' \in Seq(Post)
    <3>1. CASE fe.connected
      <4>1. up' = Put(up, fe.conn /\ link = "open", m) /\ (fe.conn /\ link = "open") \in BOOLEAN
        BY <1>0, <2>1, <2>2, <3>1, SentOne DEF Client
      <4> QED
        BY <1>0, <2>2, <4>1, Putting, PutGesture
    <3>2. CASE ~fe.connected
      BY <1>0, <2>1, <3>2 DEF Quiet, Onto
    <3> QED
      BY <3>1, <3>2
  <2> QED
    BY <1>goes, <2>1, <2>3, <2>4, <2>5
<1>11. CASE Lose
  <2>1. UNCHANGED <<ui, se, up>> /\ link' = "cut" /\ fe' = [fe EXCEPT !.breaks = @ + 1]
    BY <1>11 DEF Lose, FeStep
  <2>2. UNCHANGED <<fe.conn, fe.connected, fe.gen>>
    BY <1>0, <2>1 DEF Client
  <2> QED
    BY <2>1, <2>2 DEF CaptureInv
<1>12. CASE Dead
  <2>1. /\ UNCHANGED <<ui, se>>
        /\ fe' = [LetGo(fe) EXCEPT !.conn = FALSE, !.connected = FALSE, !.shown = None,
                                   !.refocus = FALSE]
    BY <1>12 DEF Dead, FeStep
  <2>2. ~fe'.conn /\ ~fe'.connected
    BY <1>0, <2>1, LetGoType DEF Client
  <2> QED
    BY <2>1, <2>2 DEF CaptureInv
<1>13. CASE Reconnect
  <2>1. UNCHANGED <<ui, se, up>> /\ fe' = [fe EXCEPT !.conn = TRUE, !.calling = TRUE, !.gen = @ + 1,
                           !.course = "none"]
    BY <1>13 DEF Reconnect, FeStep
  <2>2. fe'.gen = fe.gen + 1
    BY <1>0, <2>1 DEF Client
  <2>3. Without(up, fe.gen + 1)
    BY <1>0, Fresh DEF Wires
  <2> QED
    BY <1>anew, <2>1, <2>2, <2>3
<1>14. ASSUME NEW act \in {"down", "up", "wheel"}, NEW b \in Buttons,
              NEW place \in {"row", "canvas"}, Mouse(act, b, place)
       PROVE  CaptureInv'
  <2> DEFINE m == Event(act, b, place)
             first == Put(up, Dropped(act, place), Release)
             then == Put(first, Ready, m)
  <2>1. place \in Places /\ Release \in Post /\ ~Begins(Release) /\ ~Spoils(Release)
    BY <1>0, EventPosts, Messages DEF Places
  <2>2. /\ UNCHANGED <<ui, se, link>>
        /\ UNCHANGED <<fe.conn, fe.connected, fe.gen, fe.last, fe.shown>>
        /\ act = "down" => b \notin fe.held
        /\ act = "up" => b \in fe.held
        /\ fe'.course = Course(act, b, Taken(place))
        /\ fe'.held = (IF act = "down" THEN fe.held \cup {b}
                       ELSE IF act = "up" THEN fe.held \ {b} ELSE fe.held)
        /\ m \in Post
        /\ up' = IF fe.conn /\ link = "open" THEN then ELSE up
    BY <1>14, <2>1, MouseEffect
  <2>3. /\ Begins(m) <=> ~Taken(place) /\ act = "down" /\ b = 0
        /\ Ends(m) <=> ~Taken(place) /\ act = "up" /\ b = 0
        /\ Spoils(m) <=> ~Taken(place) /\ act = "up" /\ b # 0
    BY Messages
  <2>4. Dropped(act, place) \in BOOLEAN /\ Ready \in BOOLEAN /\ UNCHANGED Ready
    BY <1>0, <2>2 DEF Dropped, Gone, Routed, Ready, Client
  <2> HIDE DEF m
  <2>5. first \in Seq(Post) /\ Quiet(up, first) /\ Onto(up, first)
    BY <1>0, <2>1, <2>4, Putting
  <2>6. Without(up, fe.gen) => Without(first, fe.gen)
    BY <1>0, <2>1, PutGesture
  <2> HIDE DEF first
  <2>7. /\ then \in Seq(Post) /\ Onto(first, then)
        /\ ~Begins(m) /\ ~Spoils(m) => Quiet(first, then)
        /\ \A i \in 0 .. Len(first) : Ready /\ Ends(m) /\ Tidy(first, i) => Ended(then, i)
        /\ \A i \in DOMAIN then :
             i \in DOMAIN first \/ (Ready /\ then[i] = m /\ Tidy(then, i))
    BY <2>2, <2>4, <2>5, Putting
  <2>8. /\ ~Ready => then = first
        /\ ~Begins(m) /\ Without(first, fe.gen) => Without(then, fe.gen)
    BY <1>0, <2>2, <2>5, PutGesture DEF Put
  <2> HIDE DEF then
  <2>9. \A i \in DOMAIN first : i \in DOMAIN up \/ ~Begins(first[i])
    <3>1. /\ DOMAIN up = 1 .. Len(up) /\ DOMAIN first = 1 .. Len(first)
          /\ Len(up) \in Nat /\ Len(first) \in Nat
      BY <1>0, <2>5
    <3> QED
      BY <2>5, <3>1 DEF Quiet
  <2>10. Onto(up, then) /\ Len(up) <= Len(first) /\ Len(first) \in Nat /\ Len(up) \in Nat
    BY <1>0, <2>5, <2>7 DEF Onto
  <2>11. Onto(up, up') /\ up' \in Seq(Post)
    <3>1. Onto(up, up)
      BY <1>0 DEF Onto
    <3> QED
      BY <1>0, <2>2, <2>7, <2>10, <3>1
  <2>12. ASSUME fe'.course # "astray"
         PROVE  fe.course # "astray"
    BY <2>2, <2>12 DEF Course
  <2>13. Ready => fe.connected
    BY DEF Ready
  <2>14. fe.connected => fe.conn
    BY DEF Wires
  <2>15. fe.conn /\ ~fe.connected => (Without(up, fe.gen) => Without(up', fe.gen))
    BY <2>2, <2>6, <2>8, <2>13
  <2>16. ASSUME link = "open", fe'.course # "astray", Making, NEW i \in 0 .. Len(up),
                Tidy(up, i)
         PROVE  Ended(up', i) \/ (Making' /\ Tidy(up', i))
    <3>1. Ready /\ 0 \in fe.held /\ fe.course = "plain" /\ up' = then
      BY <2>2, <2>13, <2>14, <2>16 DEF Making
    <3>2. i \in 0 .. Len(first) /\ Tidy(first, i)
      BY <1>0, <2>5, <2>10, <2>16, Behind
    <3>3. ~Spoils(m) /\ ~Begins(m) /\ fe'.course = "plain"
      BY <2>2, <2>3, <2>16, <3>1 DEF Course
    <3>4. CASE Ends(m)
      BY <2>7, <3>1, <3>2, <3>4
    <3>5. CASE ~Ends(m)
      <4>1. 0 \in fe'.held
        BY <2>2, <2>3, <2>16, <3>1, <3>5 DEF Course
      <4>2. Tidy(then, i)
        BY <2>5, <2>7, <3>2, <3>3, Behind
      <4> QED
        BY <2>4, <3>1, <3>3, <4>1, <4>2 DEF Making
    <3> QED
      BY <3>4, <3>5
  <2>17. ASSUME fe.connected, link = "open", fe'.course # "astray",
                NEW i \in DOMAIN up', i \notin DOMAIN up, Begins(up'[i])
         PROVE  Making' /\ Tidy(up', i)
    <3>1. up' = then
      BY <2>2, <2>14, <2>17
    <3>2. i \notin DOMAIN first
      <4>1. \A k \in DOMAIN first : then[k] = first[k]
        BY <2>5, <2>7 DEF Onto
      <4> QED
        BY <2>9, <2>17, <3>1, <4>1
    <3>3. Ready /\ then[i] = m /\ Tidy(then, i)
      BY <2>7, <2>17, <3>1, <3>2
    <3>4. act = "down" /\ b = 0 /\ ~Taken(place)
      BY <2>3, <2>17, <3>1, <3>3
    <3>5. fe'.course = "plain" /\ 0 \in fe'.held
      BY <2>2, <2>12, <2>17, <3>4 DEF Course
    <3> QED
      BY <2>4, <3>1, <3>3, <3>5 DEF Making
  <2> QED
    BY <1>more, <2>2, <2>11, <2>12, <2>15, <2>16, <2>17
<1>15. ASSUME NEW act \in {"keydown", "keyup", "escape"}, Key(act)
       PROVE  CaptureInv'
  <2> DEFINE m == IF Gone \/ act = "escape" THEN Release ELSE ToCanvas(act, 0)
  <2>1. /\ UNCHANGED <<ui, se, link>>
        /\ UNCHANGED <<fe.conn, fe.connected, fe.gen, fe.last, fe.shown, fe.course, fe.held>>
        /\ m \in Post /\ up' = Put(up, (Ready \/ Gone) /\ fe.conn /\ link = "open", m)
    BY <1>15, KeyEffect DEF Put
  <2>2. ~Begins(m) /\ ~Spoils(m)
    BY Messages
  <2> HIDE DEF m
  <2>3. ((Ready \/ Gone) /\ fe.conn /\ link = "open") \in BOOLEAN
    BY <1>0 DEF Client, Ready, Gone
  <2>4. /\ Without(up, fe.gen) => Without(up', fe.gen)
        /\ Quiet(up, up') /\ up' \in Seq(Post)
    BY <1>0, <2>1, <2>2, <2>3, Putting, PutGesture
  <2>5. Making => Making'
    BY <2>1 DEF Making, Ready
  <2> QED
    BY <1>goes, <2>1, <2>4, <2>5
<1>16. CASE LoseFocus
  <2> DEFINE m == [type |-> "cancel"]
             first == Put(up, Routed /\ fe.active, Release)
  <2>1. /\ UNCHANGED <<ui, se, link>> /\ UNCHANGED <<fe.conn, fe.connected, fe.gen>>
        /\ m \in Post /\ Release \in Post
        /\ fe'.course = (IF Ready THEN "none" ELSE fe.course)
        /\ fe'.last = fe.last /\ fe'.shown = fe.shown
        /\ up' = IF fe.conn /\ link = "open" THEN Put(first, Ready, m) ELSE up
    BY <1>16, LoseFocusEffect
  <2>2. /\ Cancels(m) /\ ~Begins(m) /\ ~Spoils(m) /\ ~Begins(Release) /\ ~Spoils(Release)
        /\ Ready \in BOOLEAN /\ (Routed /\ fe.active) \in BOOLEAN
    BY <1>0, Messages DEF Cancels, Begins, Spoils, Ready, Routed, Client
  <2> HIDE DEF m
  <2>3. first \in Seq(Post) /\ Quiet(up, first) /\ Onto(up, first)
    BY <1>0, <2>1, <2>2, Putting
  <2>4. Without(up, fe.gen) => Without(first, fe.gen)
    BY <1>0, <2>1, <2>2, PutGesture
  <2> HIDE DEF first
  <2> DEFINE then == Put(first, Ready, m)
  <2>5. /\ then \in Seq(Post) /\ Quiet(first, then) /\ Onto(first, then)
        /\ \A i \in 0 .. Len(first) : Ready => Cancelled(then, i)
        /\ Without(first, fe.gen) => Without(then, fe.gen)
    BY <1>0, <2>1, <2>2, <2>3, Putting, PutGesture
  <2>6. ~Ready => then = first
    BY DEF Put
  <2> HIDE DEF then
  <2>7. /\ DOMAIN up = 1 .. Len(up) /\ DOMAIN first = 1 .. Len(first)
        /\ DOMAIN then = 1 .. Len(then)
        /\ Len(up) \in Nat /\ Len(first) \in Nat /\ Len(then) \in Nat
    BY <1>0, <2>3, <2>5
  <2>8. \A i \in DOMAIN then : i \in DOMAIN up \/ ~Begins(then[i])
    BY <2>3, <2>5, <2>7 DEF Quiet, Onto
  <2>9. fe.connected => fe.conn
    BY DEF Wires
  <2>10. CASE Ready
    <3>1. fe.connected /\ fe.conn
      BY <2>9, <2>10 DEF Ready
    <3>2. CASE link = "open"
      <4>1. up' = then
        BY <2>1, <3>1, <3>2 DEF then
      <4>2. \A i \in 0 .. Len(up) : Cancelled(then, i)
        BY <2>3, <2>5, <2>7, <2>10 DEF Onto
      <4>3. Closing(up)'
        BY <2>7, <4>1, <4>2 DEF Closing
      <4>4. Answered(up)'
        BY <2>7, <2>8, <4>1, <4>2 DEF Answered, Pending
      <4> QED
        BY <2>1, <3>1, <4>3, <4>4 DEF CaptureInv
    <3>3. CASE link # "open"
      BY <2>1, <3>1, <3>3 DEF CaptureInv
    <3> QED
      BY <3>2, <3>3
  <2>11. CASE ~Ready
    <3>1. /\ UNCHANGED fe.course /\ up' \in Seq(Post) /\ Quiet(up, up')
          /\ Without(up, fe.gen) => Without(up', fe.gen)
      <4>1. Quiet(up, up)
        BY <1>0 DEF Quiet, Onto
      <4> QED
        BY <1>0, <2>1, <2>3, <2>4, <2>6, <2>11, <4>1 DEF then
    <3>2. ~Making
      BY <2>11 DEF Making
    <3> QED
      BY <1>goes, <2>1, <3>1, <3>2
  <2> QED
    BY <2>10, <2>11
<1>17. CASE GainFocus
  <2>1. /\ UNCHANGED <<ui, se, up, link>>
        /\ fe' = [fe EXCEPT !.focused = TRUE, !.refocus = FALSE]
    BY <1>17 DEF GainFocus, FeStep
  <2>2. UNCHANGED <<fe.conn, fe.connected, fe.gen, fe.last, fe.shown, fe.held, fe.course>>
    BY <1>0, <2>1 DEF Client
  <2>3. UNCHANGED Making
    BY <2>2 DEF Making, Ready
  <2>4. Quiet(up, up') /\ up' \in Seq(Post)
    BY <1>0, <2>1 DEF Quiet, Onto
  <2> QED
    BY <1>goes, <2>1, <2>2, <2>3, <2>4
<1>18. CASE Resize
  <2> DEFINE m == [type |-> "resize", gen |-> fe.gen + 1]
             first == Put(up, Routed /\ fe.active, Release)
  <2>1. /\ UNCHANGED <<ui, se>> /\ fe'.gen = fe.gen + 1 /\ m \in Post /\ Release \in Post
        /\ up' = IF fe.conn /\ link = "open" THEN Put(first, fe.connected, m) ELSE up
    BY <1>18, ResizeEffect
  <2>2. ~Begins(m) /\ ~Begins(Release) /\ fe.gen + 1 \in Nat
    BY <1>0, Messages DEF Begins
  <2>3. Without(up, fe.gen + 1)
    BY <1>0, Fresh DEF Wires
  <2>4. first \in Seq(Post) /\ Without(first, fe.gen + 1)
    BY <1>0, <2>1, <2>2, <2>3, PutType, PutGesture
  <2> HIDE DEF m, first
  <2>5. Without(up', fe.gen + 1)
    BY <1>0, <2>1, <2>2, <2>3, <2>4, PutGesture
  <2> QED
    BY <1>anew, <2>1, <2>5
<1>19. CASE UNCHANGED vars
  <2>1. UNCHANGED <<ui, se, fe, up, link>>
    BY <1>19 DEF vars
  <2> QED
    BY <1>ours, <2>1
<1> QED
  BY <1>1, <1>2, <1>3, <1>4, <1>5, <1>6, <1>7, <1>8, <1>9, <1>10, <1>11, <1>12, <1>13, <1>14,
     <1>15, <1>16, <1>17, <1>18, <1>19 DEF Next, User

-----------------------------------------------------------------------------
(* Theorems *)

LEMMA Kept == Spec => [](Types /\ Wires /\ Captured /\ CanvasInv)
<1> DEFINE I == Types /\ Wires /\ Captured /\ CanvasInv
<1>1. Init => I
  BY GesturesAssumption, GestureInitially
<1>2. I /\ [Next]_vars => I'
  BY GesturesAssumption, TypesStep, WiresStep, CanvasStep
<1> QED
  BY <1>1, <1>2, PTL DEF Spec

\* The Runtime, the session and the frontend only take values they may have, and a capture
\* is always of the geometry of the retained frame (application.rs, Host::scene; runtime.rs,
\* pointer_down), however often the terminal is resized, the presentation switched and the
\* attachment lost.
THEOREM TypeAlwaysOK == Spec => []TypeOK
<1>1. Types /\ Wires /\ Captured => TypeOK
  BY DEF Types, Wires, Captured, TypeOK, Screen, Believed, Session, Client
<1> QED
  BY <1>1, Kept, PTL

\* A release activates the row that its press hit, as the user saw it (runtime.rs, update and
\* pointer_up), and when the Router (embedded_input.rs) has let go of the canvas and all it
\* sent has been read, the application holds none of the canvas's buttons and keys, in a
\* session that never switched the presentation and was told of every detachment.
THEOREM GesturesAlwaysMatch == Spec => []GesturesMatch
<1> DEFINE matched == fired = None \/ fired.row = fired.pressed
<1>1. Init => matched
  BY DEF Init
<1>2. /\ Types /\ Wires /\ Captured /\ matched /\ [Next]_vars => matched'
  BY GesturesAssumption, WiresStep
<1>3. CanvasInv /\ Wires /\ Types => CanvasInStep
  <2> SUFFICES ASSUME CanvasInv, Wires, Heard, ~fe.active, se.toggles = 0, ctl.attached = 1
               PROVE  Empty
    BY DEF CanvasInStep, Empty
  <2>1. Settled(up) /\ up = <<>>
    BY DEF CanvasInv, Wires, Released, Heard
  <2> QED
    BY <2>1 DEF Settled, Freed
<1>4. CanvasInv /\ Wires /\ Types /\ matched => GesturesMatch
  BY <1>3 DEF GesturesMatch, ReleaseMatchesPress
<1> HIDE DEF matched
<1>5. Spec => []matched
  BY <1>1, <1>2, Kept, PTL DEF Spec
<1> QED
  BY <1>4, <1>5, Kept, PTL

\* When the user has let the left button go and the session (session.rs) has read all the
\* frontend (client.rs) said in the present geometry, no control is captured (protocol.rs,
\* "Always balance a captured release"), whatever other buttons did and however often the
\* terminal was resized, the presentation switched and the attachment lost: unless, since
\* the last of these and the last loss of focus, a release of the left button was given to a
\* canvas (embedded_input.rs) that did not get its press, or another button was let go over a
\* control while the left one was held (protocol.rs, admit, forgets the press).  Section 3 of
\* the README has what happens then.
THEOREM GesturesAlwaysEnd == Spec => []GestureEnds
<1>1. Init => CaptureInv
  BY GesturesAssumption, GestureInitially
<1>2. Types /\ Wires /\ Captured /\ CaptureInv /\ [Next]_vars => CaptureInv'
  BY GesturesAssumption, CaptureStep
<1>3. CaptureInv => GestureEnds
  <2> SUFFICES ASSUME CaptureInv, Heard, 0 \notin fe.held, fe.course # "astray"
               PROVE  ui.capture = None
    BY DEF GestureEnds
  <2>1. Len(up) = 0
    BY DEF Heard
  <2> QED
    BY <2>1 DEF CaptureInv, Heard, Making, Closing, Cancelled, Ended
<1> QED
  BY <1>1, <1>2, <1>3, Kept, PTL DEF Spec

=============================================================================
