--------------------------- MODULE LateAnswers_proofs ---------------------------
(***************************************************************************)
(* What the main loop asks for and learns later, when it may have gone on  *)
(* to something else: the places a tab is to show (SlotLocation) and the   *)
(* thumbnails a thread makes (Thumbnails).                                 *)
(*                                                                         *)
(* Whatever places and distances there are: who is asked expects the       *)
(* answer, only the place that is shown is watched, as long as the history *)
(* is not forgotten, an entry of the Back or Forward list is still there   *)
(* when the change to it arrives, and, one step at a time, the two lists   *)
(* are a history.                                                          *)
(*                                                                         *)
(* Whatever files there are and however long the delay: one thread at most *)
(* that keeps its entry, no stranded request, no dropped request,          *)
(* thumbnails that are as new as they claim and images that are as new as  *)
(* what is known of their file.                                            *)
(***************************************************************************)
EXTENDS SlotLocation, Thumbnails, SequenceTheorems, TLAPS

-----------------------------------------------------------------------------
(***************************************************************************)
(* The location changes of a tab.                                          *)
(***************************************************************************)
ViewRecords ==
  [dir : Places, step : {"none", "same", "asked", "underway", "seen"}, loading : BOOLEAN]

ChangeTypes == {"standard", "back", "forward", "reload"}

Slots ==
  [open : BOOLEAN, location : Places, pending : Places, type : ChangeTypes,
   distance : Nat, triedMount : BOOLEAN, determine : Places, ready : SUBSET Locations,
   mounting : Places, content : ViewRecords, nascent : ViewRecords, allowStop : BOOLEAN,
   watched : Places, back : Seq(Locations), forward : Seq(Locations),
   current : Places, last : Places]

(***************************************************************************)
(* The invariant, as a property of a slot.                                 *)
(***************************************************************************)
\* The bookmarks are of the place that is shown and of the one before.
Marked(s) ==
  /\ s.current = s.location
  /\ s.back # << >> \/ s.forward # << >> => s.location # NoLocation /\ s.last # NoLocation

\* One question at a time, about the pending place.
Expected(s) ==
  /\ s.ready = {s.determine} \ {NoLocation}
  /\ s.determine # NoLocation =>
       s.determine = s.pending /\ s.open /\ s.mounting = NoLocation
  /\ s.mounting # NoLocation => s.mounting = s.pending /\ s.open

Watches(s) ==
  s.watched = NoLocation \/ (s.watched = s.location /\ s.pending = NoLocation)

Entry(s) ==
  "forget" \notin Uses /\ s.pending # NoLocation =>
    /\ s.type = "back" =>
         s.distance < Len(s.back) /\ s.back[s.distance + 1] = s.pending
    /\ s.type = "forward" =>
         s.distance < Len(s.forward) /\ s.forward[s.distance + 1] = s.pending

SlotInv(s) == s \in Slots /\ Marked(s) /\ Expected(s) /\ Watches(s) /\ Entry(s)

Inv == SlotInv(slot)

(***************************************************************************)
(* The end and the beginning of a change.                                  *)
(***************************************************************************)
LEMMA ViewTypes ==
  /\ NoView \in ViewRecords
  /\ Same \in ViewRecords
  /\ \A l \in Locations : Loading(l) \in ViewRecords
  /\ \A v \in ViewRecords : Stopped(v) \in ViewRecords
BY DEF NoView, Same, Loading, Stopped, ViewRecords, Places

\* What a change leaves when it is freed: the lists, the bookmarks, the place.
Rest(s) == << s.open, s.location, s.watched, s.back, s.forward, s.current, s.last >>

LEMMA Freed ==
  ASSUME NEW s \in Slots
  PROVE  LET f == FreeLocationChange(s) IN
         /\ f \in Slots
         /\ Rest(f) = Rest(s)
         /\ f.pending = NoLocation /\ f.mounting = NoLocation /\ f.determine = NoLocation
         /\ f.ready = s.ready \ {s.determine}
BY ViewTypes, ZenonT(60) DEF FreeLocationChange, Slots, Rest, Places

LEMMA Ended ==
  ASSUME NEW s \in Slots
  PROVE  LET e == EndLocationChange(s) IN
         /\ e \in Slots
         /\ Rest(e) = Rest(s)
         /\ e.pending = NoLocation /\ e.mounting = NoLocation /\ e.determine = NoLocation
         /\ e.ready = s.ready \ {s.determine}
<1> DEFINE t == [s EXCEPT !.allowStop = FALSE]
<1>1. t \in Slots /\ Rest(t) = Rest(s) /\ t.ready = s.ready /\ t.determine = s.determine
  BY DEF Slots, Rest
<1> HIDE DEF t
<1>2. QED
  BY <1>1, Freed DEF EndLocationChange, t

LEMMA EndKeeps ==
  ASSUME NEW s, SlotInv(s)
  PROVE  SlotInv(EndLocationChange(s)) /\ EndLocationChange(s).ready = {}
<1> DEFINE e == EndLocationChange(s)
<1>1. /\ e \in Slots /\ Rest(e) = Rest(s)
      /\ e.pending = NoLocation /\ e.mounting = NoLocation /\ e.determine = NoLocation
      /\ e.ready = s.ready \ {s.determine}
  BY Ended DEF SlotInv
<1> HIDE DEF e
<1>2. e.ready = {}
  BY <1>1 DEF SlotInv, Expected
<1>3. Marked(e) /\ Watches(e) /\ Entry(e)
  BY <1>1 DEF SlotInv, Marked, Watches, Entry, Rest
<1>4. Expected(e)
  BY <1>1, <1>2 DEF Expected
<1>5. QED
  BY <1>1, <1>2, <1>3, <1>4 DEF SlotInv, e

\* What decides about the invariant besides the views.
Core(s) ==
  << s.open, s.location, s.pending, s.type, s.distance, s.determine, s.ready, s.mounting,
     s.watched, s.back, s.forward, s.current, s.last >>

LEMMA CoreDecides ==
  ASSUME NEW s, NEW t \in Slots, SlotInv(s), Core(t) = Core(s)
  PROVE  SlotInv(t)
BY DEF SlotInv, Core, Marked, Expected, Watches, Entry

LEMMA CancelKeeps ==
  ASSUME NEW s, SlotInv(s)
  PROVE  SlotInv(CancelLocationChange(s))
<1>1. CASE s.pending # NoLocation /\ s.location # NoLocation /\ s.content # NoView
  <2> DEFINE t == [s EXCEPT !.content = Loading(s.location)]
  <2>1. t \in Slots /\ Core(t) = Core(s)
    BY <1>1, ViewTypes DEF SlotInv, Slots, Core, Places
  <2> HIDE DEF t
  <2>2. SlotInv(t)
    BY <2>1, CoreDecides
  <2>3. SlotInv(EndLocationChange(t))
    BY <2>2, EndKeeps
  <2>4. QED
    BY <1>1, <2>3 DEF CancelLocationChange, t
<1>2. CASE ~(s.pending # NoLocation /\ s.location # NoLocation /\ s.content # NoView)
  BY <1>2, EndKeeps DEF CancelLocationChange
<1>3. QED
  BY <1>1, <1>2

LEMMA BeginKeeps ==
  ASSUME NEW s, SlotInv(s), s.open, NEW l \in Locations, NEW type \in ChangeTypes,
         NEW distance \in Nat,
         type = "back" => distance < Len(s.back) /\ s.back[distance + 1] = l,
         type = "forward" => distance < Len(s.forward) /\ s.forward[distance + 1] = l
  PROVE  SlotInv(BeginLocationChange(s, l, type, distance))
<1> DEFINE e == EndLocationChange(s)
           b == BeginLocationChange(s, l, type, distance)
<1>1. e \in Slots /\ Rest(e) = Rest(s) /\ e.ready = {} /\ SlotInv(e) /\ e.mounting = NoLocation
  BY Ended, EndKeeps DEF SlotInv
<1>2. b = [e EXCEPT !.allowStop = TRUE, !.pending = l, !.type = type, !.distance = distance,
                    !.triedMount = FALSE, !.determine = l, !.ready = @ \cup {l},
                    !.watched = NoLocation]
  BY DEF BeginLocationChange
<1> HIDE DEF e
<1>3. b \in Slots
  <2>1. l \in Places /\ NoLocation \in Places /\ e.ready \cup {l} \in SUBSET Locations
    BY <1>1 DEF Places, Slots
  <2> DEFINE c == [e EXCEPT !.allowStop = TRUE, !.pending = l, !.type = type,
                            !.distance = distance]
  <2>2. c \in Slots /\ c.ready = e.ready
    BY <1>1, <2>1 DEF Slots
  <2>3. b = [c EXCEPT !.triedMount = FALSE, !.determine = l, !.ready = @ \cup {l},
                      !.watched = NoLocation]
    BY <1>2
  <2> HIDE DEF c, b
  <2>4. QED
    BY <2>1, <2>2, <2>3 DEF Slots
<1>4. /\ b.pending = l /\ b.type = type /\ b.distance = distance /\ b.determine = l
      /\ b.ready = e.ready \cup {l} /\ b.watched = NoLocation /\ b.mounting = e.mounting
      /\ b.open = e.open /\ b.location = e.location /\ b.back = e.back
      /\ b.forward = e.forward /\ b.current = e.current /\ b.last = e.last
  BY <1>1, <1>2 DEF Slots
<1> HIDE DEF b
<1>5. /\ b.ready = {l} /\ b.mounting = NoLocation /\ b.open = s.open
      /\ b.location = s.location /\ b.back = s.back /\ b.forward = s.forward
      /\ b.current = s.current /\ b.last = s.last
  BY <1>1, <1>4 DEF Rest
<1>6. Marked(b) /\ Watches(b) /\ Entry(b)
  BY <1>4, <1>5 DEF SlotInv, Marked, Watches, Entry
<1>7. Expected(b)
  BY <1>4, <1>5, LocationAssumption DEF Expected
<1>8. QED
  BY <1>3, <1>6, <1>7 DEF SlotInv, b

(***************************************************************************)
(* A place arrives.                                                        *)
(***************************************************************************)
LEMMA ReverseType ==
  ASSUME NEW S, NEW q \in Seq(S)
  PROVE  Reverse(q) \in Seq(S) /\ Len(Reverse(q)) = Len(q)
BY DEF Reverse

\* The bookmark of the place that was shown becomes the last one.
LEMMA Displayed ==
  ASSUME NEW s, SlotInv(s), NEW l \in Locations
  PROVE  LET d == SetDisplayedLocation(s, l) IN
         /\ d \in Slots
         /\ d.current = l
         /\ d.last = IF s.location = l THEN s.last ELSE s.location
         /\ << d.open, d.location, d.pending, d.type, d.distance, d.determine, d.ready,
              d.watched, d.back, d.forward >>
            = << s.open, s.location, s.pending, s.type, s.distance, s.determine, s.ready,
                 s.watched, s.back, s.forward >>
BY ZenonT(60) DEF SlotInv, Marked, SetDisplayedLocation, Slots, Places

WithLists(s, forward, back) == [s EXCEPT !.forward = forward, !.back = back]

LEMMA Listed ==
  ASSUME NEW s \in Slots, NEW back \in Seq(Locations), NEW forward \in Seq(Locations)
  PROVE  LET h == WithLists(s, forward, back) IN
         /\ h \in Slots
         /\ h.back = back /\ h.forward = forward
         /\ h.current = s.current /\ h.last = s.last
         /\ h.determine = s.determine /\ h.ready = s.ready
BY DEF Slots, WithLists

\* What the history is told of a place that arrives keeps the lists and the
\* rest of the slot well formed.
LEMMA Updated ==
  ASSUME NEW s, SlotInv(s), s.pending # NoLocation, EntryIsThere(s)
  PROVE  LET u == UpdateForNewLocation(s) IN
         /\ u \in Slots
         /\ Marked(u) /\ Watches(u)
         /\ u.pending = NoLocation
         /\ u.determine = s.determine /\ u.ready = s.ready
<1> DEFINE l == s.pending
           d == SetDisplayedLocation(s, l)
           h == UpdateHistory(d, l)
           u == UpdateForNewLocation(s)
<1>1. l \in Locations /\ s \in Slots
  BY DEF SlotInv, Slots, Places
<1>2. /\ d \in Slots
      /\ d.current = l
      /\ d.last = IF s.location = l THEN s.last ELSE s.location
      /\ d.location = s.location /\ d.pending = l /\ d.type = s.type
      /\ d.distance = s.distance /\ d.determine = s.determine /\ d.ready = s.ready
      /\ d.back = s.back /\ d.forward = s.forward
  BY <1>1, Displayed
<1> HIDE DEF d
<1>3. /\ d.back # << >> \/ d.forward # << >> => d.last \in Locations
      /\ d.location \notin {NoLocation, l} => d.last \in Locations
  BY <1>1, <1>2 DEF SlotInv, Marked, Slots, Places
<1>4. /\ d.type = "back" => d.distance < Len(d.back)
      /\ d.type = "forward" => d.distance < Len(d.forward)
  BY <1>1, <1>2 DEF EntryIsThere
<1>5. /\ h \in Slots
      /\ h.current = l /\ h.last = d.last /\ h.determine = s.determine /\ h.ready = s.ready
      /\ h.back # << >> \/ h.forward # << >> => h.last # NoLocation
  <2>1. CASE d.type = "standard"
    <3>1. h = HandleGoElsewhere(d, l)
      BY <2>1 DEF UpdateHistory
    <3> DEFINE back == IF d.location \in {NoLocation, l} THEN d.back
                       ELSE << d.last >> \o d.back
    <3>2. d.back \in Seq(Locations) /\ << >> \in Seq(Locations)
      BY <1>2 DEF Slots
    <3>3. back \in Seq(Locations)
      BY <1>3, <3>2
    <3>4. h = WithLists(d, << >>, back)
      BY <3>1 DEF WithLists, HandleGoElsewhere
    <3>5. back # << >> => d.last # NoLocation
      BY <1>3, LocationAssumption
    <3> HIDE DEF back, h
    <3>6. QED
      BY <1>2, <3>2, <3>3, <3>4, <3>5, Listed, ZenonT(60)
  <2>2. CASE d.type = "back"
    <3> DEFINE before == Reverse(SubSeq(d.back, 1, d.distance))
               ahead == before \o << d.last >> \o d.forward
               behind == SubSeq(d.back, d.distance + 2, Len(d.back))
    <3>1. d.distance \in Nat /\ d.back \in Seq(Locations) /\ d.forward \in Seq(Locations)
      BY <1>2 DEF Slots
    <3>2. d.back # << >>
      BY <1>4, <2>2, <3>1
    <3>3. SubSeq(d.back, 1, d.distance) \in Seq(Locations)
      BY <1>4, <2>2, <3>1
    <3>4. before \in Seq(Locations)
      BY <3>3, ReverseType
    <3> HIDE DEF before
    <3>5. ahead \in Seq(Locations)
      BY <1>3, <3>1, <3>2, <3>4
    <3>6. behind \in Seq(Locations)
      BY <1>4, <2>2, <3>1
    <3>7. h = WithLists(d, ahead, behind)
      BY <2>2 DEF WithLists, UpdateHistory, HandleGoBack, before
    <3> HIDE DEF ahead, behind, h
    <3>8. QED
      BY <1>2, <1>3, <3>2, <3>5, <3>6, <3>7, Listed, LocationAssumption
  <2>3. CASE d.type = "forward"
    <3>1. d.distance \in Nat /\ d.back \in Seq(Locations) /\ d.forward \in Seq(Locations)
      BY <1>2 DEF Slots
    <3>2. d.forward # << >> /\ d.forward[1] \in Locations /\ Tail(d.forward) \in Seq(Locations)
      BY <1>4, <2>3, <3>1
    <3>3. d.last \in Locations
      BY <1>3, <3>2
    <3>4. << d.last >> \o d.back \in Seq(Locations)
          /\ << d.forward[1] >> \o d.back \in Seq(Locations)
      BY <3>1, <3>2, <3>3
    <3>5. h = HandleGoForward(d)
      BY <2>3 DEF UpdateHistory
    <3> HIDE DEF h
    <3>6. CASE d.distance = 0
      <4>1. h = WithLists(d, Tail(d.forward), << d.last >> \o d.back)
        BY <3>5, <3>6, <1>2 DEF WithLists, HandleGoForward, Slots
      <4>2. QED
        BY <1>2, <3>2, <3>3, <3>4, <4>1, Listed, LocationAssumption, ZenonT(60)
    <3>7. CASE d.distance # 0
      <4> DEFINE forward == d.back
                 back == << d.forward[1] >> \o d.back
      <4>1. h = WithLists(d, forward, back)
        BY <3>5, <3>7, <1>2 DEF HandleGoForward, Slots, WithLists
      <4>2. forward \in Seq(Locations) /\ back \in Seq(Locations)
        BY <3>1, <3>4
      <4> HIDE DEF forward, back
      <4>3. QED
        BY <1>2, <3>3, <4>1, <4>2, Listed, LocationAssumption
    <3>8. QED
      BY <3>6, <3>7
  <2>4. CASE d.type = "reload"
    <3>1. h = d
      BY <2>4 DEF UpdateHistory
    <3>2. QED
      BY <1>2, <1>3, <3>1, LocationAssumption
  <2>5. QED
    BY <1>2, <2>1, <2>2, <2>3, <2>4 DEF Slots, ChangeTypes
<1>6. u = [h EXCEPT !.pending = NoLocation, !.location = l, !.watched = l]
  BY DEF UpdateForNewLocation, d
<1> HIDE DEF h
<1>7. u \in Slots
  BY <1>1, <1>5, <1>6 DEF Slots, Places
<1>8. /\ u.pending = NoLocation /\ u.location = l /\ u.watched = l /\ u.current = l
      /\ u.last = h.last /\ u.back = h.back /\ u.forward = h.forward
      /\ u.determine = s.determine /\ u.ready = s.ready
  BY <1>5, <1>6 DEF Slots
<1>9. Marked(u) /\ Watches(u)
  BY <1>5, <1>8 DEF Marked, Watches
<1>10. QED
  BY <1>7, <1>8, <1>9

LEMMA ClosedKeeps ==
  ASSUME NEW s, SlotInv(s)
  PROVE  SlotInv(Closed(s))
<1> DEFINE f == FreeLocationChange(s)
           c == Closed(s)
<1>1. /\ f \in Slots /\ Rest(f) = Rest(s)
      /\ f.pending = NoLocation /\ f.mounting = NoLocation /\ f.determine = NoLocation
      /\ f.ready = {}
  BY Freed DEF SlotInv, Expected
<1>2. c = [f EXCEPT !.watched = NoLocation, !.open = FALSE]
  BY DEF Closed
<1> HIDE DEF f, c
<1>3. /\ c \in Slots /\ c.watched = NoLocation /\ c.pending = NoLocation
      /\ c.mounting = NoLocation /\ c.determine = NoLocation /\ c.ready = {}
      /\ c.location = s.location /\ c.current = s.current
      /\ c.last = s.last /\ c.back = s.back /\ c.forward = s.forward
  BY <1>1, <1>2 DEF Slots, Rest, Places
<1>4. SlotInv(c)
  BY <1>3 DEF SlotInv, Marked, Expected, Watches, Entry
<1>5. QED
  BY <1>4 DEF c

LEMMA ReallyChangedKeeps ==
  ASSUME NEW s, SlotInv(s)
  PROVE  SlotInv(LocationHasReallyChanged(s))
<1> DEFINE shown == [s EXCEPT !.content = IF s.nascent = Same THEN s.content ELSE s.nascent,
                              !.nascent = NoView]
           u == IF s.pending # NoLocation THEN UpdateForNewLocation(shown) ELSE shown
           f == FreeLocationChange(u)
<1>1. shown \in Slots /\ Core(shown) = Core(s)
  BY ViewTypes DEF SlotInv, Slots, Core
<1>2. SlotInv(shown)
  BY <1>1, CoreDecides
<1>3. CASE s.pending # NoLocation /\ ~EntryIsThere(s)
  <2>1. LocationHasReallyChanged(s) = Closed(shown)
    BY <1>3 DEF LocationHasReallyChanged
  <2> HIDE DEF shown
  <2>2. QED
    BY <1>2, <2>1, ClosedKeeps
<1>4. CASE s.pending = NoLocation \/ EntryIsThere(s)
  <2>1. LocationHasReallyChanged(s) = f
    BY <1>4 DEF LocationHasReallyChanged
  <2>2. s.pending # NoLocation => shown.pending # NoLocation /\ EntryIsThere(shown)
    BY <1>1, <1>4 DEF Core, EntryIsThere
  <2>3. s.pending = NoLocation => shown.pending = NoLocation
    BY <1>1 DEF Core
  <2> HIDE DEF shown
  <2>4. /\ u \in Slots /\ Marked(u) /\ Watches(u) /\ u.pending = NoLocation
        /\ u.determine = shown.determine /\ u.ready = shown.ready
    BY <1>2, <2>2, <2>3, Updated DEF SlotInv
  <2>5. u.ready \ {u.determine} = {}
    BY <1>2, <2>4 DEF SlotInv, Expected
  <2> HIDE DEF u
  <2>6. /\ f \in Slots /\ Rest(f) = Rest(u)
        /\ f.pending = NoLocation /\ f.mounting = NoLocation /\ f.determine = NoLocation
        /\ f.ready = {}
    BY <2>4, <2>5, Freed
  <2> HIDE DEF f
  <2>7. Marked(f) /\ Watches(f) /\ Entry(f)
    BY <2>4, <2>6 DEF Marked, Watches, Entry, Rest
  <2>8. Expected(f)
    BY <2>6 DEF Expected
  <2>9. QED
    BY <2>1, <2>6, <2>7, <2>8 DEF SlotInv
<1>5. QED
  BY <1>3, <1>4

(***************************************************************************)
(* The answers.                                                            *)
(***************************************************************************)
LEMMA CreateKeeps ==
  ASSUME NEW s, SlotInv(s), NEW l \in Locations, NEW reuse \in BOOLEAN
  PROVE  SlotInv(CreateContentView(s, l, reuse))
<1>1. /\ CreateContentView(s, l, reuse) \in Slots
      /\ Core(CreateContentView(s, l, reuse)) = Core(s)
  BY ViewTypes DEF SlotInv, CreateContentView, Slots, Core
<1>2. QED
  BY <1>1, CoreDecides

LEMMA GiveUpKeeps ==
  ASSUME NEW s, SlotInv(s)
  PROVE  SlotInv(GiveUp(s))
<1> DEFINE e == EndLocationChange(s)
<1>1. /\ e \in Slots /\ Rest(e) = Rest(s) /\ SlotInv(e) /\ e.ready = {}
      /\ e.pending = NoLocation /\ e.mounting = NoLocation /\ e.determine = NoLocation
  BY Ended, EndKeeps DEF SlotInv
<1>2. GiveUp(s) = IF s.location = NoLocation THEN [e EXCEPT !.open = FALSE]
                                             ELSE [e EXCEPT !.watched = s.location]
  BY DEF GiveUp
<1> HIDE DEF e
<1>3. s.location \in Places /\ e.location = s.location
  BY <1>1 DEF SlotInv, Slots, Rest
<1>4. CASE s.location = NoLocation
  <2> DEFINE g == [e EXCEPT !.open = FALSE]
  <2>1. /\ g \in Slots
        /\ g.pending = NoLocation /\ g.mounting = NoLocation /\ g.determine = NoLocation
        /\ g.ready = {} /\ g.location = e.location /\ g.current = e.current
        /\ g.last = e.last /\ g.back = e.back /\ g.forward = e.forward
        /\ g.watched = e.watched
    BY <1>1 DEF Slots
  <2> HIDE DEF g
  <2>2. SlotInv(g)
    BY <1>1, <2>1 DEF SlotInv, Marked, Expected, Watches, Entry
  <2>3. QED
    BY <1>2, <1>4, <2>2 DEF g
<1>5. CASE s.location # NoLocation
  <2> DEFINE g == [e EXCEPT !.watched = s.location]
  <2>1. /\ g \in Slots
        /\ g.pending = NoLocation /\ g.mounting = NoLocation /\ g.determine = NoLocation
        /\ g.ready = {} /\ g.location = e.location /\ g.current = e.current
        /\ g.last = e.last /\ g.back = e.back /\ g.forward = e.forward
        /\ g.watched = s.location
    BY <1>1, <1>3 DEF Slots
  <2> HIDE DEF g
  <2>2. SlotInv(g)
    BY <1>1, <1>3, <2>1 DEF SlotInv, Marked, Expected, Watches, Entry
  <2>3. QED
    BY <1>2, <1>5, <2>2 DEF g
<1>6. QED
  BY <1>4, <1>5

\* The slot has got its answer about the pending place.
LEMMA GotKeeps ==
  ASSUME NEW s, SlotInv([s EXCEPT !.determine = NoLocation]), s \in Slots,
         s.pending \in Locations, s.open, s.mounting = NoLocation, s.ready = {},
         NEW answer, NEW reuse \in BOOLEAN
  PROVE  SlotInv(GotFileInfo(s, answer, reuse))
<1> DEFINE asked == [s EXCEPT !.determine = NoLocation]
<1>1. /\ asked \in Slots /\ SlotInv(asked)
      /\ asked.pending = s.pending /\ asked.open /\ asked.mounting = NoLocation
      /\ asked.determine = NoLocation /\ asked.ready = {}
  BY DEF SlotInv, Slots
<1>2. CASE answer = "ok"
  <2>1. GotFileInfo(s, answer, reuse) = CreateContentView(asked, s.pending, reuse)
    BY <1>2 DEF GotFileInfo
  <2> HIDE DEF asked
  <2>2. QED
    BY <1>1, <2>1, CreateKeeps
<1>3. CASE answer = "not_mounted" /\ ~s.triedMount
  <2> DEFINE m == [asked EXCEPT !.triedMount = TRUE, !.mounting = s.pending]
  <2>1. GotFileInfo(s, answer, reuse) = m
    BY <1>3 DEF GotFileInfo
  <2> HIDE DEF asked
  <2>2. /\ m \in Slots /\ m.mounting = m.pending /\ m.open /\ m.determine = NoLocation
        /\ m.ready = {} /\ m.pending = asked.pending /\ m.type = asked.type
        /\ m.distance = asked.distance /\ m.watched = asked.watched
        /\ m.location = asked.location /\ m.current = asked.current
        /\ m.last = asked.last /\ m.back = asked.back /\ m.forward = asked.forward
    BY <1>1, ZenonT(60) DEF Slots, Places
  <2> HIDE DEF m
  <2>3. SlotInv(m)
    BY <1>1, <2>2 DEF SlotInv, Marked, Expected, Watches, Entry
  <2>4. QED
    BY <2>1, <2>3
<1>4. CASE answer # "ok" /\ ~(answer = "not_mounted" /\ ~s.triedMount)
  <2>1. GotFileInfo(s, answer, reuse) = GiveUp(asked)
    BY <1>4 DEF GotFileInfo
  <2> HIDE DEF asked
  <2>2. QED
    BY <1>1, <2>1, GiveUpKeeps
<1>5. QED
  BY <1>2, <1>3, <1>4

LEMMA MountKeeps ==
  ASSUME NEW s, SlotInv(s), s.mounting # NoLocation, NEW mounted \in BOOLEAN
  PROVE  SlotInv(MountAnswered(s, mounted))
<1> DEFINE done == [s EXCEPT !.mounting = NoLocation, !.determine = s.pending]
<1>1. /\ s.mounting = s.pending /\ s.pending \in Locations /\ s.open
      /\ s.determine = NoLocation /\ s.ready = {} /\ s \in Slots
  BY DEF SlotInv, Expected, Slots, Places
<1>2. /\ done \in Slots /\ done.open /\ done.pending = s.pending
      /\ done.mounting = NoLocation /\ done.determine = s.pending /\ done.ready = {}
  BY <1>1, ZenonT(60) DEF Slots, Places
<1>3. CASE mounted
  <2> DEFINE m == [done EXCEPT !.ready = {s.pending}]
  <2>1. MountAnswered(s, mounted) = m
    BY <1>2, <1>3 DEF MountAnswered
  <2>2. /\ m \in Slots /\ m.open /\ m.pending = s.pending /\ m.mounting = NoLocation
        /\ m.determine = s.pending /\ m.ready = {s.pending} /\ m.type = s.type
        /\ m.distance = s.distance /\ m.watched = s.watched
        /\ m.location = s.location /\ m.current = s.current
        /\ m.last = s.last /\ m.back = s.back /\ m.forward = s.forward
    BY <1>1, <1>2 DEF Slots
  <2> HIDE DEF m
  <2>3. SlotInv(m)
    BY <1>1, <2>2, LocationAssumption DEF SlotInv, Marked, Expected, Watches, Entry
  <2>4. QED
    BY <2>1, <2>3
<1>4. CASE ~mounted
  <2> DEFINE asked == [done EXCEPT !.determine = NoLocation]
  <2>1. asked = [s EXCEPT !.mounting = NoLocation, !.determine = NoLocation]
    BY <1>1 DEF Slots
  <2>2. /\ asked \in Slots /\ asked.open = s.open /\ asked.pending = s.pending
        /\ asked.mounting = NoLocation /\ asked.determine = NoLocation
        /\ asked.ready = s.ready /\ asked.type = s.type
        /\ asked.distance = s.distance /\ asked.watched = s.watched
        /\ asked.location = s.location /\ asked.current = s.current
        /\ asked.last = s.last /\ asked.back = s.back /\ asked.forward = s.forward
    <3> HIDE DEF asked
    <3>1. QED
      BY <1>1, <2>1, ZenonT(60) DEF Slots, Places
  <2>3. SlotInv(asked)
    <3> HIDE DEF asked
    <3>1. QED
      BY <1>1, <2>2 DEF SlotInv, Marked, Expected, Watches, Entry
  <2>4. MountAnswered(s, mounted) = GotFileInfo(done, "error", FALSE)
    BY <1>4 DEF MountAnswered
  <2> HIDE DEF done
  <2>5. QED
    BY <1>1, <1>2, <2>3, <2>4, GotKeeps
<1>5. QED
  BY <1>3, <1>4

(***************************************************************************)
(* The steps.                                                              *)
(***************************************************************************)
LEMMA InitInv == Init => Inv
BY ViewTypes DEF Init, Inv, SlotInv, Slots, Places, ChangeTypes, Marked, Expected, Watches,
                 Entry

LEMMA OpenStep ==
  ASSUME Inv, NEW l \in Locations, OpenLocation(l)
  PROVE  Inv'
BY BeginKeeps DEF Inv, OpenLocation, Acts, ChangeTypes

LEMMA GoBackStep ==
  ASSUME Inv, NEW d \in BackDistances, GoBack(d)
  PROVE  Inv'
<1> DEFINE distance == IF d < Len(slot.back) THEN d ELSE Len(slot.back) - 1
<1>1. slot.back \in Seq(Locations) /\ slot.back # << >> /\ slot.open
  BY DEF Inv, SlotInv, Slots, GoBack, Acts
<1>2. distance \in Nat /\ distance < Len(slot.back)
  BY <1>1, DistanceAssumption
<1>3. slot' = BeginLocationChange(slot, slot.back[distance + 1], "back", distance)
  BY DEF GoBack
<1> HIDE DEF distance
<1>4. slot.back[distance + 1] \in Locations
  BY <1>1, <1>2
<1>5. QED
  BY <1>1, <1>2, <1>3, <1>4, BeginKeeps DEF Inv, ChangeTypes

LEMMA GoForwardStep ==
  ASSUME Inv, NEW d \in ForwardDistances, GoForward(d)
  PROVE  Inv'
<1> DEFINE distance == IF d < Len(slot.forward) THEN d ELSE Len(slot.forward) - 1
<1>1. slot.forward \in Seq(Locations) /\ slot.forward # << >> /\ slot.open
  BY DEF Inv, SlotInv, Slots, GoForward, Acts
<1>2. distance \in Nat /\ distance < Len(slot.forward)
  BY <1>1, DistanceAssumption
<1>3. slot' = BeginLocationChange(slot, slot.forward[distance + 1], "forward", distance)
  BY DEF GoForward
<1> HIDE DEF distance
<1>4. slot.forward[distance + 1] \in Locations
  BY <1>1, <1>2
<1>5. QED
  BY <1>1, <1>2, <1>3, <1>4, BeginKeeps DEF Inv, ChangeTypes

LEMMA ReloadStep ==
  ASSUME Inv, Reload
  PROVE  Inv'
<1>1. slot.location \in Locations
  BY DEF Inv, SlotInv, Slots, Reload, Places
<1>2. QED
  BY <1>1, BeginKeeps DEF Inv, Reload, Acts, ChangeTypes

LEMMA StopStep ==
  ASSUME Inv, StopLoading
  PROVE  Inv'
<1> DEFINE s == IF slot.content = NoView THEN slot ELSE [slot EXCEPT !.content = Stopped(@)]
<1>1. s \in Slots /\ Core(s) = Core(slot)
  BY ViewTypes DEF Inv, SlotInv, Slots, Core
<1>2. slot' = CancelLocationChange(s)
  BY DEF StopLoading
<1> HIDE DEF s
<1>3. SlotInv(s)
  BY <1>1, CoreDecides DEF Inv
<1>4. QED
  BY <1>2, <1>3, CancelKeeps DEF Inv

LEMMA SwitchStep ==
  ASSUME Inv, SetContentView
  PROVE  Inv'
<1> DEFINE e == EndLocationChange(slot)
           t == [e EXCEPT !.allowStop = TRUE, !.type = "reload"]
<1>1. SlotInv(e) /\ e \in Slots /\ e.pending = NoLocation
  BY EndKeeps, Ended DEF Inv, SlotInv
<1>2. slot.location \in Locations
  BY DEF Inv, SlotInv, Slots, Places, SetContentView
<1>3. slot' = CreateContentView(t, slot.location, FALSE)
  BY DEF SetContentView
<1> HIDE DEF e
<1>4. SlotInv(t)
  BY <1>1 DEF SlotInv, Slots, ChangeTypes, Marked, Expected, Watches, Entry
<1> HIDE DEF t
<1>5. QED
  BY <1>2, <1>3, <1>4, CreateKeeps DEF Inv

LEMMA DeleteStep ==
  ASSUME Inv, NEW l \in Locations, DeleteFolder(l)
  PROVE  Inv'
<1>1. CASE UNCHANGED slot
  BY <1>1 DEF Inv
<1>2. ASSUME NEW other \in Locations,
             slot' = BeginLocationChange(EndLocationChange(slot), other, "standard", 0)
      PROVE  Inv'
  <2> DEFINE e == EndLocationChange(slot)
  <2>1. SlotInv(e) /\ e.open
    BY EndKeeps, Ended DEF Inv, SlotInv, DeleteFolder, Acts, Rest
  <2> HIDE DEF e
  <2>2. SlotInv(BeginLocationChange(e, other, "standard", 0))
    BY <2>1, BeginKeeps DEF ChangeTypes
  <2>3. QED
    BY <1>2, <2>2 DEF Inv, e
<1>3. QED
  BY <1>1, <1>2 DEF DeleteFolder

LEMMA CloseStep ==
  ASSUME Inv, CloseSlot
  PROVE  Inv'
BY ClosedKeeps DEF Inv, CloseSlot

LEMMA ForgetStep ==
  ASSUME Inv, ForgetHistory
  PROVE  Inv'
<1> DEFINE h == WithLists(slot, << >>, << >>)
<1>1. slot \in Slots /\ << >> \in Seq(Locations)
  BY DEF Inv, SlotInv
<1>2. slot' = h
  BY DEF ForgetHistory, WithLists
<1>3. /\ h \in Slots
      /\ h.back = << >> /\ h.forward = << >>
      /\ h.current = slot.current /\ h.last = slot.last
      /\ h.determine = slot.determine /\ h.ready = slot.ready
  BY <1>1, Listed
<1>4. /\ h.open = slot.open /\ h.location = slot.location /\ h.pending = slot.pending
      /\ h.mounting = slot.mounting /\ h.watched = slot.watched
  BY <1>1 DEF WithLists, Slots
<1>5. "forget" \in Uses
  BY DEF ForgetHistory
<1> HIDE DEF h
<1>6. SlotInv(h)
  BY <1>3, <1>4, <1>5 DEF Inv, SlotInv, Marked, Expected, Watches, Entry
<1>7. QED
  BY <1>2, <1>6 DEF Inv

LEMMA FileInfoStep ==
  ASSUME Inv, NEW l \in Locations, FileInfoReady(l)
  PROVE  Inv'
<1>1. PICK answer \in Answers(l), reuse \in BOOLEAN :
        slot' = GotFileInfo([slot EXCEPT !.ready = @ \ {l}], answer, reuse)
  BY DEF FileInfoReady
<1>2. /\ slot.open /\ slot \in Slots /\ slot.determine = l /\ slot.pending = l
      /\ slot.ready = {l} /\ slot.mounting = NoLocation
  BY LocationAssumption DEF FileInfoReady, Inv, SlotInv, Expected
<1> DEFINE s == [slot EXCEPT !.ready = @ \ {l}]
           asked == [s EXCEPT !.determine = NoLocation]
<1>3. /\ s \in Slots /\ s.pending = l /\ s.open /\ s.mounting = NoLocation /\ s.ready = {}
  BY <1>2 DEF Slots
<1>4. /\ asked \in Slots /\ asked.open = slot.open /\ asked.pending = slot.pending
      /\ asked.mounting = NoLocation /\ asked.determine = NoLocation
      /\ asked.ready = {} /\ asked.type = slot.type
      /\ asked.distance = slot.distance /\ asked.watched = slot.watched
      /\ asked.location = slot.location /\ asked.current = slot.current
      /\ asked.last = slot.last /\ asked.back = slot.back /\ asked.forward = slot.forward
  BY <1>2, ZenonT(60) DEF Slots, Places
<1>5. SlotInv(asked)
  <2> HIDE DEF asked
  <2>1. QED
    BY <1>2, <1>4 DEF Inv, SlotInv, Marked, Expected, Watches, Entry
<1>6. SlotInv(GotFileInfo(s, answer, reuse))
  <2> HIDE DEF s
  <2>1. QED
    BY <1>3, <1>5, GotKeeps
<1>7. QED
  BY <1>1, <1>6 DEF Inv

LEMMA MountStep ==
  ASSUME Inv, MountDone
  PROVE  Inv'
BY MountKeeps DEF Inv, MountDone

\* What a view reports changes it and nothing that the invariant is about.
LEMMA ViewStepKeeps ==
  ASSUME NEW s, SlotInv(s), NEW t,
         \/ t = [s EXCEPT !.content.step = "underway"]
         \/ t = [s EXCEPT !.content.step = "underway", !.allowStop = TRUE]
         \/ t = [s EXCEPT !.nascent.step = "underway"]
         \/ t = [s EXCEPT !.content.step = "seen", !.content.loading = FALSE]
  PROVE  SlotInv(t)
<1>1. \A v \in ViewRecords :
        /\ [v EXCEPT !.step = "underway"] \in ViewRecords
        /\ [v EXCEPT !.step = "seen", !.loading = FALSE] \in ViewRecords
  BY DEF ViewRecords
<1>2. s.content \in ViewRecords /\ s.nascent \in ViewRecords /\ s \in Slots
  BY DEF SlotInv, Slots
<1>3. t \in Slots /\ Core(t) = Core(s)
  BY <1>1, <1>2, ZenonT(60) DEF Slots, Core
<1>4. QED
  BY <1>3, CoreDecides

LEMMA ViewsStep ==
  ASSUME Inv, ContentUnderway \/ NascentUnderway \/ ContentComplete \/ ContentLoadError
  PROVE  Inv'
<1>1. CASE ContentUnderway
  <2> DEFINE started == [slot EXCEPT !.content.step = "underway"]
  <2>1. SlotInv(started)
    BY ViewStepKeeps DEF Inv
  <2>2. SlotInv(LocationHasReallyChanged(started))
    <3> HIDE DEF started
    <3>1. QED
      BY <2>1, ReallyChangedKeeps
  <2>3. SlotInv([slot EXCEPT !.content.step = "underway", !.allowStop = TRUE])
    BY ViewStepKeeps DEF Inv
  <2>4. QED
    BY <1>1, <2>2, <2>3 DEF ContentUnderway, Inv
<1>2. CASE NascentUnderway
  <2> DEFINE started == [slot EXCEPT !.nascent.step = "underway"]
  <2>1. SlotInv(started)
    BY ViewStepKeeps, ZenonT(60) DEF Inv
  <2>2. SlotInv(LocationHasReallyChanged(started))
    <3> HIDE DEF started
    <3>1. QED
      BY <2>1, ReallyChangedKeeps
  <2>3. QED
    BY <1>2, <2>2, SMTT(30) DEF NascentUnderway, Inv
<1> DEFINE seen == [slot EXCEPT !.content.step = "seen", !.content.loading = FALSE]
<1>3. SlotInv(seen)
  BY ViewStepKeeps DEF Inv
<1>4. CASE ContentComplete
  <2>1. SlotInv(EndLocationChange(seen))
    <3> HIDE DEF seen
    <3>1. QED
      BY <1>3, EndKeeps
  <2>2. QED
    BY <1>3, <1>4, <2>1 DEF ContentComplete, Inv
<1>5. CASE ContentLoadError
  BY <1>3, <1>5 DEF ContentLoadError, Inv
<1>6. QED
  BY <1>1, <1>2, <1>4, <1>5

(***************************************************************************)
(* The theorems.                                                           *)
(***************************************************************************)
LEMMA InvKept ==
  Inv /\ [Next]_vars => Inv'
<1> SUFFICES ASSUME Inv, [Next]_vars
             PROVE  Inv'
  OBVIOUS
<1>1. CASE UNCHANGED vars
  BY <1>1 DEF vars, Inv
<1>2. CASE Next
  BY <1>2, OpenStep, DeleteStep, FileInfoStep, GoBackStep, GoForwardStep, ReloadStep, StopStep,
     SwitchStep, ForgetStep, CloseStep, MountStep, ViewsStep DEF Next
<1>3. QED
  BY <1>1, <1>2

\* A callback of a location change only ever comes for the pending place of an
\* open tab, and there is exactly one question at a time.
THEOREM AnswersExpected == Spec => []AnswersAreExpected
<1>1. Inv => AnswersAreExpected
  BY DEF Inv, SlotInv, Expected, AnswersAreExpected
<1>2. QED
  BY <1>1, InitInv, InvKept, PTL DEF Spec

\* A tab watches nothing but the place it shows, and only while it stays there.
THEOREM WatchesShown == Spec => []WatchesOnlyWhatItShows
<1>1. Inv => WatchesOnlyWhatItShows
  BY DEF Inv, SlotInv, Watches, WatchesOnlyWhatItShows
<1>2. QED
  BY <1>1, InitInv, InvKept, PTL DEF Spec

\* As long as the history is not forgotten, the entry of the Back or Forward list
\* that the user picked is still at its place when the change to it arrives: the
\* asserts of handle_go_back and handle_go_forward hold.
THEOREM EntryStillThere ==
  ASSUME "forget" \notin Uses
  PROVE  Spec => []EntryIsStillThere
<1>1. Inv => EntryIsStillThere
  BY DEF Inv, SlotInv, Entry, EntryIsStillThere
<1>2. QED
  BY <1>1, InitInv, InvKept, PTL DEF Spec

(***************************************************************************)
(* The history.                                                            *)
(***************************************************************************)
\* What is behind, what is shown and what is ahead, as one walk.
Trail(b, l, f) == Reverse(b) \o << l >> \o f

IsTrail(t, b, l, f) ==
  /\ t \in Seq(Locations)
  /\ Len(t) = Len(b) + 1 + Len(f)
  /\ \A n \in 1 .. Len(b) : t[n] = b[Len(b) - n + 1]
  /\ t[Len(b) + 1] = l
  /\ \A n \in 1 .. Len(f) : t[Len(b) + 1 + n] = f[n]

LEMMA TrailIs ==
  ASSUME NEW b \in Seq(Locations), NEW l \in Locations, NEW f \in Seq(Locations)
  PROVE  IsTrail(Trail(b, l, f), b, l, f)
<1> DEFINE r == Reverse(b)
           q == r \o << l >>
<1>1. /\ r \in Seq(Locations) /\ Len(r) = Len(b) /\ Len(b) \in Nat /\ Len(f) \in Nat
      /\ << l >> \in Seq(Locations) /\ Len(<< l >>) = 1 /\ << l >>[1] = l
  BY ReverseType
<1>2. \A n \in 1 .. Len(b) : r[n] = b[Len(b) - n + 1]
  BY DEF Reverse
<1> HIDE DEF r
<1>3. /\ q \in Seq(Locations) /\ Len(q) = Len(b) + 1
      /\ \A n \in 1 .. Len(b) : q[n] = r[n]
      /\ q[Len(b) + 1] = l
  BY <1>1
<1>4. Trail(b, l, f) = q \o f
  BY DEF Trail, r
<1> HIDE DEF q
<1>5. /\ q \o f \in Seq(Locations) /\ Len(q \o f) = Len(b) + 1 + Len(f)
      /\ \A n \in 1 .. Len(b) + 1 : (q \o f)[n] = q[n]
      /\ \A n \in 1 .. Len(f) : (q \o f)[Len(b) + 1 + n] = f[n]
  <2>1. /\ q \o f \in Seq(Locations) /\ Len(q \o f) = Len(q) + Len(f)
        /\ \A n \in 1 .. Len(q) + Len(f) :
             (q \o f)[n] = IF n <= Len(q) THEN q[n] ELSE f[n - Len(q)]
    BY <1>3, ConcatProperties
  <2>2. /\ \A n \in 1 .. Len(b) + 1 : n \in 1 .. Len(q) + Len(f) /\ n <= Len(q)
        /\ \A n \in 1 .. Len(f) : /\ Len(b) + 1 + n \in 1 .. Len(q) + Len(f)
                                /\ ~(Len(b) + 1 + n <= Len(q))
                                /\ Len(b) + 1 + n - Len(q) = n
    BY <1>1, <1>3
  <2> QED BY <1>3, <2>1, <2>2
<1> QED BY <1>1, <1>2, <1>3, <1>4, <1>5 DEF IsTrail

\* One entry forward.
LEMMA TrailForward ==
  ASSUME NEW b \in Seq(Locations), NEW l \in Locations, NEW f \in Seq(Locations), f # << >>
  PROVE  Trail(<< l >> \o b, f[1], Tail(f)) = Trail(b, l, f)
<1> DEFINE c == << l >> \o b
           g == Tail(f)
           t == Trail(b, l, f)
           u == Trail(c, f[1], g)
<1>1. /\ c \in Seq(Locations) /\ Len(c) = Len(b) + 1 /\ c[1] = l
      /\ \A n \in 1 .. Len(b) : c[n + 1] = b[n]
      /\ Len(b) \in Nat /\ Len(f) \in Nat /\ Len(f) >= 1 /\ f[1] \in Locations
      /\ g \in Seq(Locations) /\ Len(g) = Len(f) - 1
      /\ \A n \in 1 .. Len(f) - 1 : g[n] = f[n + 1]
  OBVIOUS
<1>2. IsTrail(t, b, l, f)
  BY TrailIs
<1> HIDE DEF t, c, g
<1>3. IsTrail(u, c, f[1], g)
  BY <1>1, TrailIs
<1> HIDE DEF u
<1>4. Len(u) = Len(t)
  BY <1>1, <1>2, <1>3 DEF IsTrail
<1>5. ASSUME NEW n \in 1 .. Len(u) PROVE u[n] = t[n]
  <2>1. CASE n \in 1 .. Len(b)
    <3>1. n \in 1 .. Len(c) /\ Len(c) - n + 1 = (Len(b) - n + 1) + 1
          /\ Len(b) - n + 1 \in 1 .. Len(b)
      BY <1>1, <2>1
    <3>2. u[n] = c[(Len(b) - n + 1) + 1]
      BY <1>3, <3>1 DEF IsTrail
    <3> QED BY <1>1, <1>2, <2>1, <3>1, <3>2 DEF IsTrail
  <2>2. CASE n = Len(b) + 1
    <3>1. n \in 1 .. Len(c) /\ Len(c) - n + 1 = 1
      BY <1>1, <2>2
    <3>2. u[n] = c[1]
      BY <1>3, <3>1 DEF IsTrail
    <3> QED BY <1>1, <1>2, <2>2, <3>2 DEF IsTrail
  <2>3. CASE n = Len(b) + 2
    <3>1. n = Len(c) + 1 /\ n = Len(b) + 1 + 1 /\ 1 \in 1 .. Len(f)
      BY <1>1, <2>3
    <3>2. t[Len(b) + 1 + 1] = f[1]
      BY <1>2, <3>1 DEF IsTrail
    <3> QED BY <1>3, <3>1, <3>2 DEF IsTrail
  <2>4. CASE n > Len(b) + 2
    <3> DEFINE m == n - Len(b) - 2
    <3>1. m \in 1 .. Len(g) /\ m + 1 \in 1 .. Len(f) /\ n = Len(c) + 1 + m /\ n = Len(b) + 1 + (m + 1)
          /\ m \in 1 .. Len(f) - 1
      BY <1>1, <1>3, <2>4 DEF IsTrail
    <3> HIDE DEF m
    <3>2. u[Len(c) + 1 + m] = g[m]
      BY <1>3, <3>1 DEF IsTrail
    <3>3. t[Len(b) + 1 + (m + 1)] = f[m + 1]
      BY <1>2, <3>1 DEF IsTrail
    <3>4. g[m] = f[m + 1]
      BY <1>1, <3>1
    <3> QED BY <3>1, <3>2, <3>3, <3>4
  <2> QED BY <1>1, <2>1, <2>2, <2>3, <2>4
<1>6. u = t
  BY <1>2, <1>3, <1>4, <1>5, SeqEqual DEF IsTrail
<1> QED BY <1>6 DEF u, c, g, t

\* One entry back.
LEMMA TrailBack ==
  ASSUME NEW b \in Seq(Locations), NEW l \in Locations, NEW f \in Seq(Locations), b # << >>
  PROVE  Trail(Tail(b), b[1], << l >> \o f) = Trail(b, l, f)
<1> DEFINE g == << l >> \o f
           c == Tail(b)
<1>1. /\ c \in Seq(Locations) /\ b[1] \in Locations
      /\ g \in Seq(Locations) /\ g # << >> /\ g[1] = l
  OBVIOUS
<1>2. Tail(g) = f
  <2>1. /\ Len(g) = Len(f) + 1 /\ Len(f) \in Nat /\ \A n \in 1 .. Len(f) : g[n + 1] = f[n]
    OBVIOUS
  <2> HIDE DEF g
  <2>2. /\ Tail(g) \in Seq(Locations) /\ Len(Tail(g)) = Len(f)
        /\ \A n \in 1 .. Len(f) : Tail(g)[n] = g[n + 1]
    BY <1>1, <2>1
  <2> QED BY <2>1, <2>2, SeqEqual
<1>3. << b[1] >> \o c = b
  <2>1. /\ Len(c) = Len(b) - 1 /\ Len(b) \in Nat /\ Len(b) >= 1
        /\ \A n \in 1 .. Len(b) - 1 : c[n] = b[n + 1]
    OBVIOUS
  <2> DEFINE d == << b[1] >> \o c
  <2> HIDE DEF c
  <2>2. d \in Seq(Locations) /\ Len(d) = 1 + Len(c) /\ d[1] = b[1]
        /\ \A n \in 1 .. Len(c) : d[n + 1] = c[n]
    BY <1>1
  <2> HIDE DEF d
  <2>3. ASSUME NEW n \in 1 .. Len(b) PROVE d[n] = b[n]
    <3>1. CASE n = 1
      BY <2>2, <3>1
    <3>2. CASE n # 1
      <4>1. n - 1 \in 1 .. Len(c) /\ (n - 1) + 1 = n
        BY <2>1, <3>2
      <4> QED BY <2>1, <2>2, <4>1
    <3> QED BY <3>1, <3>2
  <2>4. d = b
    BY <2>1, <2>2, <2>3, SeqEqual
  <2> QED BY <2>4 DEF d
<1> HIDE DEF c, g
<1>4. Trail(<< b[1] >> \o c, g[1], Tail(g)) = Trail(c, b[1], g)
  BY <1>1, TrailForward
<1>5. Trail(b, l, f) = Trail(c, b[1], g)
  BY <1>1, <1>2, <1>3, <1>4
<1> QED BY <1>5 DEF c, g

\* What is ahead is dropped, and a place is added.
LEMMA TrailElsewhere ==
  ASSUME NEW b \in Seq(Locations), NEW l \in Locations, NEW f \in Seq(Locations),
         NEW m \in Locations
  PROVE  /\ Trail(b, l, << >>) = SubSeq(Trail(b, l, f), 1, Len(b) + 1)
         /\ Trail(<< l >> \o b, m, << >>) = Append(SubSeq(Trail(b, l, f), 1, Len(b) + 1), m)
<1> DEFINE t == Trail(b, l, f)
           e == Trail(b, l, << >>)
           h == SubSeq(t, 1, Len(b) + 1)
           c == << l >> \o b
           u == Trail(c, m, << >>)
           a == Append(e, m)
<1>0. << >> \in Seq(Locations) /\ Len(<< >>) = 0
  OBVIOUS
<1>1. /\ t \in Seq(Locations) /\ Len(t) = Len(b) + 1 + Len(f) /\ Len(b) \in Nat /\ Len(f) \in Nat
      /\ \A n \in 1 .. Len(b) : t[n] = b[Len(b) - n + 1]
      /\ t[Len(b) + 1] = l
  <2>1. IsTrail(t, b, l, f)
    BY TrailIs
  <2> HIDE DEF t
  <2> QED BY <2>1 DEF IsTrail
<1>2. /\ e \in Seq(Locations) /\ Len(e) = Len(b) + 1
      /\ \A n \in 1 .. Len(b) : e[n] = b[Len(b) - n + 1]
      /\ e[Len(b) + 1] = l
  <2>1. IsTrail(e, b, l, << >>)
    BY <1>0, TrailIs
  <2> HIDE DEF e
  <2> QED BY <1>0, <1>1, <2>1 DEF IsTrail
<1>3. /\ c \in Seq(Locations) /\ Len(c) = Len(b) + 1 /\ c[1] = l
      /\ \A n \in 1 .. Len(b) : c[n + 1] = b[n]
  OBVIOUS
<1> HIDE DEF t, e, c
<1>4. /\ u \in Seq(Locations) /\ Len(u) = Len(c) + 1
      /\ \A n \in 1 .. Len(c) : u[n] = c[Len(c) - n + 1]
      /\ u[Len(c) + 1] = m
  <2>1. IsTrail(u, c, m, << >>)
    BY <1>0, <1>3, TrailIs
  <2> HIDE DEF u
  <2> QED BY <1>0, <1>1, <1>3, <2>1 DEF IsTrail
<1>5. h \in Seq(Locations) /\ Len(h) = Len(b) + 1 /\ \A n \in 1 .. Len(b) + 1 : h[n] = t[n]
  BY <1>1
<1>6. a \in Seq(Locations) /\ Len(a) = Len(b) + 2 /\ a[Len(b) + 2] = m
      /\ \A n \in 1 .. Len(b) + 1 : a[n] = e[n]
  BY <1>1, <1>2
<1> HIDE DEF u, h, a
<1>7. e = h
  <2>1. ASSUME NEW n \in 1 .. Len(e) PROVE e[n] = h[n]
    BY <1>1, <1>2, <1>5
  <2> QED BY <1>2, <1>5, <2>1, SeqEqual
<1>8. u = a
  <2>1. ASSUME NEW n \in 1 .. Len(u) PROVE u[n] = a[n]
    <3>1. CASE n \in 1 .. Len(b)
      <4>1. n \in 1 .. Len(c) /\ Len(c) - n + 1 = (Len(b) - n + 1) + 1
          /\ Len(b) - n + 1 \in 1 .. Len(b)
            /\ n \in 1 .. Len(b) + 1
        BY <1>1, <1>3, <3>1
      <4>2. u[n] = c[(Len(b) - n + 1) + 1]
        BY <1>4, <4>1
      <4>3. a[n] = b[Len(b) - n + 1]
        BY <1>2, <1>6, <3>1, <4>1
      <4> QED BY <1>3, <4>1, <4>2, <4>3
    <3>2. CASE n = Len(b) + 1
      <4>1. n \in 1 .. Len(c) /\ Len(c) - n + 1 = 1 /\ n \in 1 .. Len(b) + 1
        BY <1>1, <1>3, <3>2
      <4>2. u[n] = c[1]
        BY <1>4, <4>1
      <4> QED BY <1>2, <1>3, <1>6, <3>2, <4>1, <4>2
    <3>3. CASE n = Len(b) + 2
      <4>1. n = Len(c) + 1
        BY <1>1, <1>3, <3>3
      <4> QED BY <1>4, <1>6, <3>3, <4>1
    <3> QED BY <1>1, <1>3, <1>4, <3>1, <3>2, <3>3
  <2>2. Len(u) = Len(a)
    BY <1>1, <1>3, <1>4, <1>6
  <2> QED BY <1>4, <1>6, <2>1, <2>2, SeqEqual
<1> QED BY <1>7, <1>8 DEF t, e, h, c, u, a

\* Going one step at a time, no two entries side by side are of one place, and
\* the pending place is the next entry, unless the history was forgotten.
Apart(q, l) ==
  /\ q # << >> => q[1] # l
  /\ \A n \in 1 .. Len(q) - 1 : q[n] # q[n + 1]

Aimed(s) ==
  s.pending # NoLocation =>
    /\ s.type = "back" => s.distance = 0 /\ (s.back = << >> \/ s.back[1] = s.pending)
    /\ s.type = "forward" =>
         s.distance = 0 /\ (s.forward = << >> \/ s.forward[1] = s.pending)
    /\ s.type = "reload" => s.pending = s.location

WalkInv(s) == Apart(s.back, s.location) /\ Apart(s.forward, s.location) /\ Aimed(s)

Entries(s) ==
  IF s.location = NoLocation THEN << >> ELSE Trail(s.back, s.location, s.forward)

Position(s) == IF s.location = NoLocation THEN 0 ELSE Len(s.back) + 1

\* What the steps of the abstract history do to the one of a slot.
Moves(s, t) ==
  \/ \E l \in Locations : /\ Entries(t) = Append(SubSeq(Entries(s), 1, Position(s)), l)
                          /\ Position(t) = Position(s) + 1
  \/ /\ Entries(t) = SubSeq(Entries(s), 1, Position(s))
     /\ Position(t) = Position(s)
  \/ /\ Position(t) \in 1 .. Len(Entries(s))
     /\ Entries(t) = Entries(s)
  \/ /\ Position(s) > 0
     /\ Entries(t) = << Entries(s)[Position(s)] >>
     /\ Position(t) = 1
  \/ Entries(t) = Entries(s) /\ Position(t) = Position(s)

\* The walk of a slot stays and its change goes on or ends.
Stays(s, t) ==
  /\ t.location = s.location /\ t.back = s.back /\ t.forward = s.forward
  /\ \/ t.pending = NoLocation
     \/ t.pending = s.pending /\ t.type = s.type /\ t.distance = s.distance

LEMMA StaysKeeps ==
  ASSUME NEW s, NEW t, WalkInv(s), Stays(s, t)
  PROVE  WalkInv(t) /\ Moves(s, t)
BY DEF WalkInv, Aimed, Stays, Moves, Entries, Position

LEMMA StaysOn ==
  ASSUME NEW s, NEW t, NEW u, Stays(s, t), Stays(t, u)
  PROVE  Stays(s, u)
BY DEF Stays

\* What is added and what is taken off leaves the neighbours apart.
LEMMA ApartAdded ==
  ASSUME NEW q \in Seq(Locations), NEW l \in Locations, NEW m \in Locations, l # m,
         Apart(q, l)
  PROVE  Apart(<< l >> \o q, m)
<1> DEFINE t == << l >> \o q
<1>1. /\ t[1] = l /\ Len(t) = Len(q) + 1 /\ Len(q) \in Nat
      /\ \A n \in 1 .. Len(q) : t[n + 1] = q[n]
  OBVIOUS
<1> HIDE DEF t
<1>2. ASSUME NEW n \in 1 .. Len(t) - 1
      PROVE  t[n] # t[n + 1]
  <2>1. CASE n = 1
    <3>1. q # << >> /\ t[2] = q[1]
      BY <1>1, <2>1
    <3> QED BY <1>1, <2>1, <3>1 DEF Apart
  <2>2. CASE n # 1
    <3>1. n - 1 \in 1 .. Len(q) - 1 /\ n - 1 \in 1 .. Len(q) /\ n \in 1 .. Len(q) /\ (n - 1) + 1 = n
      BY <1>1, <2>2
    <3>2. t[n] = q[n - 1] /\ t[n + 1] = q[n]
      BY <1>1, <3>1
    <3>3. q[n - 1] # q[(n - 1) + 1]
      BY <3>1 DEF Apart
    <3> QED BY <3>1, <3>2, <3>3
  <2> QED BY <2>1, <2>2
<1>3. Apart(t, m)
  BY <1>1, <1>2 DEF Apart
<1> QED BY <1>3 DEF t

LEMMA ApartTail ==
  ASSUME NEW q \in Seq(Locations), q # << >>, NEW l, Apart(q, l)
  PROVE  Apart(Tail(q), q[1])
<1> DEFINE t == Tail(q)
<1>1. /\ t \in Seq(Locations) /\ Len(t) = Len(q) - 1 /\ Len(q) \in Nat /\ Len(q) >= 1
      /\ \A n \in 1 .. Len(q) - 1 : t[n] = q[n + 1]
  OBVIOUS
<1> HIDE DEF t
<1>2. t # << >> => t[1] # q[1]
  <2>1. t # << >> => 1 \in 1 .. Len(q) - 1 /\ t[1] = q[1 + 1]
    BY <1>1
  <2> QED BY <2>1 DEF Apart
<1>3. ASSUME NEW n \in 1 .. Len(t) - 1
      PROVE  t[n] # t[n + 1]
  <2>1. n \in 1 .. Len(q) - 1 /\ n + 1 \in 1 .. Len(q) - 1
    BY <1>1
  <2>2. t[n] = q[n + 1] /\ t[n + 1] = q[(n + 1) + 1] /\ q[n + 1] # q[(n + 1) + 1]
    BY <1>1, <2>1 DEF Apart
  <2> QED BY <2>2
<1>4. Apart(t, q[1])
  BY <1>2, <1>3 DEF Apart
<1> QED BY <1>4 DEF t

\* The lists after a place has arrived.
LEMMA ArrivedLists ==
  ASSUME NEW s, SlotInv(s), WalkInv(s), s.pending # NoLocation, EntryIsThere(s)
  PROVE  LET u == UpdateForNewLocation(s) IN
         /\ u.location = s.pending /\ s.pending \in Locations
         /\ s.type = "standard" =>
              /\ u.forward = << >>
              /\ u.back = IF s.location \in {NoLocation, s.pending} THEN s.back
                          ELSE << s.location >> \o s.back
         /\ s.type = "back" =>
              /\ s.back # << >> /\ s.pending = s.back[1] /\ s.location \in Locations
              /\ u.back = Tail(s.back) /\ u.forward = << s.location >> \o s.forward
         /\ s.type = "forward" =>
              /\ s.forward # << >> /\ s.pending = s.forward[1] /\ s.location \in Locations
              /\ u.forward = Tail(s.forward) /\ u.back = << s.location >> \o s.back
         /\ s.type = "reload" =>
              s.pending = s.location /\ u.back = s.back /\ u.forward = s.forward
<1> DEFINE l == s.pending
           d == SetDisplayedLocation(s, l)
           h == UpdateHistory(d, l)
           u == UpdateForNewLocation(s)
<1>1. /\ l \in Locations /\ s \in Slots /\ s.back \in Seq(Locations)
      /\ s.forward \in Seq(Locations) /\ s.location \in Places
  BY DEF SlotInv, Slots, Places
<1>2. /\ d \in Slots
      /\ d.last = IF s.location = l THEN s.last ELSE s.location
      /\ d.location = s.location /\ d.type = s.type /\ d.distance = s.distance
      /\ d.back = s.back /\ d.forward = s.forward
  BY <1>1, Displayed
<1>3. u = [h EXCEPT !.pending = NoLocation, !.location = l, !.watched = l]
  BY DEF UpdateForNewLocation
<1>4. s.back # << >> \/ s.forward # << >> => s.location \in Locations
  BY <1>1 DEF SlotInv, Marked, Places
<1> HIDE DEF d
<1>5. ASSUME NEW f, NEW b, h = WithLists(d, f, b)
      PROVE  u.location = l /\ u.back = b /\ u.forward = f
  <2> HIDE DEF h, u
  <2> QED BY <1>2, <1>3, <1>5 DEF WithLists, Slots
<1> HIDE DEF h, u
<1>6. CASE s.type = "standard"
  <2>1. h = WithLists(d, << >>, IF s.location \in {NoLocation, l} THEN s.back
                                ELSE << d.last >> \o s.back)
    BY <1>2, <1>6 DEF h, UpdateHistory, HandleGoElsewhere, WithLists
  <2>2. << d.last >> \o s.back = << s.location >> \o s.back \/ s.location = l
    BY <1>2
  <2> QED BY <1>1, <1>5, <1>6, <2>1, <2>2 DEF u
<1>7. CASE s.type = "back"
  <2>1. s.distance = 0 /\ s.distance < Len(s.back)
    BY <1>7 DEF WalkInv, Aimed, EntryIsThere
  <2>2. s.back # << >> /\ s.location \in Locations /\ l = s.back[1]
    BY <1>1, <1>4, <1>7, <2>1 DEF WalkInv, Aimed
  <2>3. d.last = s.location
    BY <1>2, <2>2 DEF WalkInv, Apart
  <2>4. /\ SubSeq(s.back, 1, 0) = << >> /\ SubSeq(s.back, 0 + 2, Len(s.back)) = Tail(s.back)
        /\ Reverse(<< >>) = << >> /\ << >> \o << s.location >> = << s.location >>
    <3>1. SubSeq(s.back, 1, 0) = << >>
      BY <1>1
    <3>2. << >> \o << s.location >> = << s.location >>
      BY <2>2
    <3>3. Reverse(<< >>) = << >>
      BY DEF Reverse
    <3>4. SubSeq(s.back, 2, Len(s.back)) = Tail(s.back)
      BY <1>1, <2>2
    <3> QED BY <3>1, <3>2, <3>3, <3>4
  <2>5. h = HandleGoBack(d)
    BY <1>2, <1>7 DEF h, UpdateHistory
  <2>6. HandleGoBack(d) = WithLists(d, << s.location >> \o s.forward, Tail(s.back))
    <3>1. HandleGoBack(d) =
            WithLists(d, Reverse(SubSeq(s.back, 1, 0)) \o << s.location >> \o s.forward,
                      SubSeq(s.back, 0 + 2, Len(s.back)))
      BY <1>2, <2>1, <2>3, Zenon DEF HandleGoBack, WithLists
    <3> QED BY <2>4, <3>1
  <2>7. u.location = l /\ u.back = Tail(s.back) /\ u.forward = << s.location >> \o s.forward
    BY <1>5, <2>5, <2>6
  <2> QED BY <1>1, <1>7, <2>2, <2>7 DEF u
<1>8. CASE s.type = "forward"
  <2>1. s.distance = 0 /\ s.distance < Len(s.forward)
    BY <1>8 DEF WalkInv, Aimed, EntryIsThere
  <2>2. s.forward # << >> /\ s.location \in Locations /\ l = s.forward[1]
    BY <1>1, <1>4, <1>8, <2>1 DEF WalkInv, Aimed
  <2>3. d.last = s.location
    BY <1>2, <2>2 DEF WalkInv, Apart
  <2>4. h = HandleGoForward(d)
    BY <1>2, <1>8 DEF h, UpdateHistory
  <2>5. HandleGoForward(d) = WithLists(d, Tail(s.forward), << s.location >> \o s.back)
    BY <1>2, <2>1, <2>3 DEF HandleGoForward, WithLists, Slots
  <2>6. u.location = l /\ u.forward = Tail(s.forward) /\ u.back = << s.location >> \o s.back
    BY <1>5, <2>4, <2>5
  <2> QED BY <1>1, <1>8, <2>2, <2>6 DEF u
<1>9. CASE s.type = "reload"
  <2>1. h = d
    BY <1>2, <1>9 DEF h, UpdateHistory
  <2>2. l = s.location
    BY <1>9 DEF WalkInv, Aimed
  <2>3. u.location = l /\ u.back = s.back /\ u.forward = s.forward
    BY <1>2, <1>3, <2>1 DEF Slots
  <2> QED BY <1>1, <1>9, <2>2, <2>3 DEF u
<1> QED BY <1>1, <1>6, <1>7, <1>8, <1>9 DEF Slots, ChangeTypes

\* A place that arrives is a visit or a step in the history.
LEMMA ArrivedMoves ==
  ASSUME NEW s, SlotInv(s), WalkInv(s), s.pending # NoLocation, EntryIsThere(s)
  PROVE  LET u == UpdateForNewLocation(s) IN
         Apart(u.back, u.location) /\ Apart(u.forward, u.location) /\ Moves(s, u)
<1> DEFINE l == s.pending
           b == s.back
           f == s.forward
           p == s.location
           u == UpdateForNewLocation(s)
<1> SUFFICES Apart(u.back, u.location) /\ Apart(u.forward, u.location) /\ Moves(s, u)
  OBVIOUS
<1>1. /\ b \in Seq(Locations) /\ f \in Seq(Locations) /\ p \in Places
      /\ Len(b) \in Nat /\ Len(f) \in Nat
      /\ s.type \in ChangeTypes
      /\ p = NoLocation => b = << >> /\ f = << >>
      /\ Apart(b, p) /\ Apart(f, p)
      /\ << >> \in Seq(Locations) /\ NoLocation \notin Locations
  BY LocationAssumption DEF SlotInv, Slots, Marked, WalkInv
<1>2. /\ u.location = l /\ l \in Locations
      /\ s.type = "standard" =>
           u.forward = << >> /\ u.back = IF p \in {NoLocation, l} THEN b ELSE << p >> \o b
      /\ s.type = "back" =>
           /\ b # << >> /\ l = b[1] /\ p \in Locations
           /\ u.back = Tail(b) /\ u.forward = << p >> \o f
      /\ s.type = "forward" =>
           /\ f # << >> /\ l = f[1] /\ p \in Locations
           /\ u.forward = Tail(f) /\ u.back = << p >> \o b
      /\ s.type = "reload" => l = p /\ u.back = b /\ u.forward = f
  BY ArrivedLists
<1>3. /\ Entries(s) = IF p = NoLocation THEN << >> ELSE Trail(b, p, f)
      /\ Position(s) = IF p = NoLocation THEN 0 ELSE Len(b) + 1
      /\ Entries(u) = Trail(u.back, l, u.forward) /\ Position(u) = Len(u.back) + 1
  BY <1>1, <1>2 DEF Entries, Position
<1> HIDE DEF l, b, f, p, u
<1>4. \A m : Apart(<< >>, m)
  BY DEF Apart
<1>5. CASE s.type = "standard" /\ p = NoLocation
  <2>1. b = << >> /\ u.back = << >> /\ u.forward = << >>
    BY <1>1, <1>2, <1>5
  <2>2. Trail(<< >>, l, << >>) = Append(SubSeq(<< >>, 1, 0), l)
    <3>1. Reverse(<< >>) = << >>
      BY DEF Reverse
    <3>2. << >> \o << l >> \o << >> = << l >> /\ SubSeq(<< >>, 1, 0) = << >> /\ Append(<< >>, l) = << l >>
      BY <1>2
    <3> QED BY <3>1, <3>2 DEF Trail
  <2>3. Position(u) = Position(s) + 1
    BY <1>3, <1>5, <2>1
  <2>4. Entries(u) = Append(SubSeq(Entries(s), 1, Position(s)), l)
    BY <1>3, <1>5, <2>1, <2>2
  <2> QED BY <1>2, <1>4, <2>1, <2>3, <2>4 DEF Moves
<1>6. CASE s.type = "standard" /\ p = l
  <2>1. u.back = b /\ u.forward = << >>
    BY <1>2, <1>6
  <2>2. Trail(b, p, << >>) = SubSeq(Trail(b, p, f), 1, Len(b) + 1)
    BY <1>1, <1>2, <1>6, TrailElsewhere
  <2>3. Entries(u) = SubSeq(Entries(s), 1, Position(s)) /\ Position(u) = Position(s)
    BY <1>1, <1>2, <1>3, <1>6, <2>1, <2>2
  <2> QED BY <1>1, <1>2, <1>4, <1>6, <2>1, <2>3 DEF Moves
<1>7. CASE s.type = "standard" /\ p \notin {NoLocation, l}
  <2>1. u.back = << p >> \o b /\ u.forward = << >> /\ p \in Locations
    BY <1>1, <1>2, <1>7 DEF Places
  <2>2. Trail(<< p >> \o b, l, << >>) = Append(SubSeq(Trail(b, p, f), 1, Len(b) + 1), l)
    <3>1. b \in Seq(Locations) /\ p \in Locations /\ f \in Seq(Locations) /\ l \in Locations
      BY <1>1, <1>2, <2>1
    <3> QED BY <3>1, TrailElsewhere
  <2>3. Len(<< p >> \o b) = Len(b) + 1
    BY <1>1, <2>1
  <2>4. /\ Entries(u) = Append(SubSeq(Entries(s), 1, Position(s)), l)
        /\ Position(u) = Position(s) + 1
    BY <1>1, <1>3, <1>7, <2>1, <2>2, <2>3
  <2>5. Apart(u.back, l)
    BY <1>1, <1>2, <1>7, <2>1, ApartAdded
  <2> QED BY <1>2, <1>4, <2>1, <2>4, <2>5 DEF Moves
<1>8. CASE s.type = "back"
  <2>1. /\ b # << >> /\ l = b[1] /\ p \in Locations
        /\ u.back = Tail(b) /\ u.forward = << p >> \o f
    BY <1>2, <1>8
  <2>2. Trail(Tail(b), b[1], << p >> \o f) = Trail(b, p, f)
    BY <1>1, <2>1, TrailBack
  <2>3. Entries(u) = Entries(s)
    BY <1>1, <1>3, <2>1, <2>2
  <2>4. Position(u) \in 1 .. Len(Entries(s))
    <3>1. IsTrail(Trail(b, p, f), b, p, f)
      BY <1>1, <2>1, TrailIs
    <3>2. Len(Trail(b, p, f)) = Len(b) + 1 + Len(f)
      BY <3>1 DEF IsTrail
    <3>3. Len(Tail(b)) = Len(b) - 1 /\ Len(b) >= 1
      BY <1>1, <2>1
    <3> QED BY <1>1, <1>3, <2>1, <3>2, <3>3
  <2>5. Apart(u.back, l)
    BY <1>1, <2>1, ApartTail
  <2>6. p # l /\ Apart(u.forward, l)
    <3>1. p # l
      BY <1>1, <2>1 DEF Apart
    <3> QED BY <1>1, <1>2, <2>1, <3>1, ApartAdded
  <2> QED BY <1>2, <2>3, <2>4, <2>5, <2>6 DEF Moves
<1>9. CASE s.type = "forward"
  <2>1. /\ f # << >> /\ l = f[1] /\ p \in Locations
        /\ u.forward = Tail(f) /\ u.back = << p >> \o b
    BY <1>2, <1>9
  <2>2. Trail(<< p >> \o b, f[1], Tail(f)) = Trail(b, p, f)
    BY <1>1, <2>1, TrailForward
  <2>3. Entries(u) = Entries(s)
    BY <1>1, <1>3, <2>1, <2>2
  <2>4. Position(u) \in 1 .. Len(Entries(s))
    <3>1. IsTrail(Trail(b, p, f), b, p, f)
      BY <1>1, <2>1, TrailIs
    <3>2. Len(Trail(b, p, f)) = Len(b) + 1 + Len(f)
      BY <3>1 DEF IsTrail
    <3>3. Len(<< p >> \o b) = Len(b) + 1 /\ Len(f) >= 1
      BY <1>1, <2>1
    <3> QED BY <1>1, <1>3, <2>1, <3>2, <3>3
  <2>5. Apart(u.forward, l)
    BY <1>1, <2>1, ApartTail
  <2>6. p # l /\ Apart(u.back, l)
    <3>1. p # l
      BY <1>1, <2>1 DEF Apart
    <3> QED BY <1>1, <1>2, <2>1, <3>1, ApartAdded
  <2> QED BY <1>2, <2>3, <2>4, <2>5, <2>6 DEF Moves
<1>10. CASE s.type = "reload"
  <2>1. l = p /\ u.back = b /\ u.forward = f
    BY <1>2, <1>10
  <2>2. Entries(u) = Entries(s) /\ Position(u) = Position(s)
    BY <1>1, <1>2, <1>3, <2>1
  <2> QED BY <1>1, <1>2, <2>1, <2>2 DEF Moves
<1> QED BY <1>1, <1>5, <1>6, <1>7, <1>8, <1>9, <1>10 DEF ChangeTypes

(***************************************************************************)
(* What every function does to the walk.                                   *)
(***************************************************************************)
LEMMA CoreStays ==
  ASSUME NEW s, NEW t, Core(t) = Core(s)
  PROVE  Stays(s, t)
BY DEF Core, Stays

LEMMA FreeStays ==
  ASSUME NEW s \in Slots
  PROVE  Stays(s, FreeLocationChange(s)) /\ Stays(s, EndLocationChange(s))
<1> DEFINE f == FreeLocationChange(s)
           e == EndLocationChange(s)
<1>1. Rest(f) = Rest(s) /\ f.pending = NoLocation
  BY Freed
<1>2. Rest(e) = Rest(s) /\ e.pending = NoLocation
  BY Ended
<1> HIDE DEF f, e
<1>3. Stays(s, f)
  BY <1>1 DEF Rest, Stays
<1>4. Stays(s, e)
  BY <1>2 DEF Rest, Stays
<1> QED BY <1>3, <1>4 DEF f, e

LEMMA CancelStays ==
  ASSUME NEW s \in Slots
  PROVE  Stays(s, CancelLocationChange(s))
<1>1. CASE s.pending # NoLocation /\ s.location # NoLocation /\ s.content # NoView
  <2> DEFINE t == [s EXCEPT !.content = Loading(s.location)]
  <2>1. t \in Slots /\ Core(t) = Core(s)
    BY <1>1, ViewTypes DEF Slots, Core, Places
  <2>2. CancelLocationChange(s) = EndLocationChange(t)
    BY <1>1 DEF CancelLocationChange
  <2> HIDE DEF t
  <2>3. Stays(s, t) /\ Stays(t, EndLocationChange(t))
    BY <2>1, CoreStays, FreeStays
  <2> QED BY <2>2, <2>3, StaysOn
<1>2. CASE ~(s.pending # NoLocation /\ s.location # NoLocation /\ s.content # NoView)
  BY <1>2, FreeStays DEF CancelLocationChange
<1> QED BY <1>1, <1>2

LEMMA ClosedStays ==
  ASSUME NEW s \in Slots
  PROVE  Stays(s, Closed(s))
<1> DEFINE f == FreeLocationChange(s)
<1>1. f \in Slots /\ Stays(s, f)
  BY Freed, FreeStays
<1>2. Closed(s) = [f EXCEPT !.watched = NoLocation, !.open = FALSE]
  BY DEF Closed
<1> HIDE DEF f
<1>3. Stays(f, Closed(s))
  BY <1>1, <1>2 DEF Slots, Stays
<1> QED BY <1>1, <1>3, StaysOn

LEMMA BeginWalk ==
  ASSUME NEW s \in Slots, WalkInv(s), NEW l \in Locations, NEW type \in ChangeTypes,
         NEW distance \in Nat,
         type = "back" => distance = 0 /\ s.back[1] = l,
         type = "forward" => distance = 0 /\ s.forward[1] = l,
         type = "reload" => l = s.location
  PROVE  LET b == BeginLocationChange(s, l, type, distance) IN WalkInv(b) /\ Moves(s, b)
<1> DEFINE e == EndLocationChange(s)
           b == BeginLocationChange(s, l, type, distance)
<1>1. e \in Slots /\ Stays(s, e)
  BY Ended, FreeStays
<1>2. b = [e EXCEPT !.allowStop = TRUE, !.pending = l, !.type = type, !.distance = distance,
                    !.triedMount = FALSE, !.determine = l, !.ready = @ \cup {l},
                    !.watched = NoLocation]
  BY DEF BeginLocationChange
<1> SUFFICES WalkInv(b) /\ Moves(s, b)
  OBVIOUS
<1> HIDE DEF e, b
<1>3. /\ b.pending = l /\ b.type = type /\ b.distance = distance
      /\ b.location = e.location /\ b.back = e.back /\ b.forward = e.forward
  BY <1>1, <1>2 DEF Slots
<1>4. b.location = s.location /\ b.back = s.back /\ b.forward = s.forward
  BY <1>1, <1>3 DEF Stays
<1>5. Entries(b) = Entries(s) /\ Position(b) = Position(s)
  BY <1>4 DEF Entries, Position
<1> QED BY <1>3, <1>4, <1>5 DEF WalkInv, Aimed, Moves

LEMMA GiveUpStays ==
  ASSUME NEW s \in Slots
  PROVE  Stays(s, GiveUp(s))
<1> DEFINE e == EndLocationChange(s)
<1>1. e \in Slots /\ Stays(s, e)
  BY Ended, FreeStays
<1>2. GiveUp(s) = IF s.location = NoLocation THEN [e EXCEPT !.open = FALSE]
                                             ELSE [e EXCEPT !.watched = s.location]
  BY DEF GiveUp
<1> HIDE DEF e
<1>3. Stays(e, [e EXCEPT !.open = FALSE]) /\ Stays(e, [e EXCEPT !.watched = s.location])
  BY <1>1 DEF Slots, Stays
<1> QED BY <1>1, <1>2, <1>3, StaysOn

LEMMA CreateStays ==
  ASSUME NEW s \in Slots, NEW l \in Locations, NEW reuse \in BOOLEAN
  PROVE  Stays(s, CreateContentView(s, l, reuse))
BY DEF CreateContentView, Slots, Stays

LEMMA GotStays ==
  ASSUME NEW s \in Slots, s.pending \in Locations, NEW answer, NEW reuse \in BOOLEAN
  PROVE  Stays(s, GotFileInfo(s, answer, reuse))
<1> DEFINE asked == [s EXCEPT !.determine = NoLocation]
<1>1. asked \in Slots /\ Stays(s, asked) /\ asked.pending = s.pending
  BY DEF Slots, Stays, Places
<1>2. GotFileInfo(s, answer, reuse) \in
        { CreateContentView(asked, s.pending, reuse),
          [asked EXCEPT !.triedMount = TRUE, !.mounting = s.pending],
          GiveUp(asked) }
  BY DEF GotFileInfo
<1> HIDE DEF asked
<1>3. /\ Stays(asked, CreateContentView(asked, s.pending, reuse))
      /\ Stays(asked, GiveUp(asked))
  BY <1>1, CreateStays, GiveUpStays
<1>4. Stays(asked, [asked EXCEPT !.triedMount = TRUE, !.mounting = s.pending])
  BY <1>1 DEF Slots, Stays
<1> QED BY <1>1, <1>2, <1>3, <1>4, StaysOn

LEMMA MountStays ==
  ASSUME NEW s \in Slots, s.pending \in Locations, NEW mounted \in BOOLEAN
  PROVE  Stays(s, MountAnswered(s, mounted))
<1> DEFINE done == [s EXCEPT !.mounting = NoLocation, !.determine = s.pending]
<1>1. done \in Slots /\ Stays(s, done) /\ done.pending = s.pending
  BY DEF Slots, Stays, Places
<1>2. MountAnswered(s, mounted) = IF mounted THEN [done EXCEPT !.ready = @ \cup {s.pending}]
                                  ELSE GotFileInfo(done, "error", FALSE)
  BY DEF MountAnswered
<1> HIDE DEF done
<1>3. Stays(done, GotFileInfo(done, "error", FALSE))
  BY <1>1, GotStays
<1>4. Stays(done, [done EXCEPT !.ready = @ \cup {s.pending}])
  BY <1>1 DEF Slots, Stays
<1> QED BY <1>1, <1>2, <1>3, <1>4, StaysOn

LEMMA MovesOn ==
  ASSUME NEW s, NEW t, NEW u, NEW v, Stays(s, t), Moves(t, u), Stays(u, v)
  PROVE  Moves(s, v)
<1>1. /\ Entries(t) = Entries(s) /\ Position(t) = Position(s)
      /\ Entries(v) = Entries(u) /\ Position(v) = Position(u)
  BY DEF Stays, Entries, Position
<1> QED BY <1>1 DEF Moves

LEMMA ReallyChangedWalk ==
  ASSUME NEW s, SlotInv(s), WalkInv(s)
  PROVE  LET c == LocationHasReallyChanged(s) IN WalkInv(c) /\ Moves(s, c)
<1> DEFINE shown == [s EXCEPT !.content = IF s.nascent = Same THEN s.content ELSE s.nascent,
                              !.nascent = NoView]
           u == UpdateForNewLocation(shown)
           c == LocationHasReallyChanged(s)
<1> SUFFICES WalkInv(c) /\ Moves(s, c)
  OBVIOUS
<1>1. shown \in Slots /\ Core(shown) = Core(s)
  BY ViewTypes DEF SlotInv, Slots, Core
<1>2. c = CASE s.pending = NoLocation -> FreeLocationChange(shown)
            [] s.pending # NoLocation /\ EntryIsThere(s) -> FreeLocationChange(u)
            [] s.pending # NoLocation /\ ~EntryIsThere(s) -> Closed(shown)
  BY DEF LocationHasReallyChanged, EntryIsThere
<1> HIDE DEF shown, c
<1>3. SlotInv(shown) /\ Stays(s, shown) /\ WalkInv(shown)
  BY <1>1, CoreDecides, CoreStays, StaysKeeps
<1>4. CASE s.pending = NoLocation
  <2>1. Stays(shown, FreeLocationChange(shown)) /\ c = FreeLocationChange(shown)
    BY <1>1, <1>2, <1>4, FreeStays
  <2> QED BY <1>3, <2>1, StaysOn, StaysKeeps
<1>5. CASE s.pending # NoLocation /\ ~EntryIsThere(s)
  <2>1. Stays(shown, Closed(shown)) /\ c = Closed(shown)
    BY <1>1, <1>2, <1>5, ClosedStays
  <2> QED BY <1>3, <2>1, StaysOn, StaysKeeps
<1>6. CASE s.pending # NoLocation /\ EntryIsThere(s)
  <2>1. shown.pending # NoLocation /\ EntryIsThere(shown)
    BY <1>1, <1>6 DEF Core, EntryIsThere
  <2>2. Apart(u.back, u.location) /\ Apart(u.forward, u.location) /\ Moves(shown, u)
    BY <1>3, <2>1, ArrivedMoves
  <2>3. u \in Slots /\ u.pending = NoLocation
    BY <1>3, <2>1, Updated
  <2>4. c = FreeLocationChange(u)
    BY <1>2, <1>6
  <2> HIDE DEF u
  <2>5. Stays(u, c) /\ WalkInv(u)
    BY <2>2, <2>3, <2>4, FreeStays DEF WalkInv, Aimed
  <2> QED BY <1>3, <2>2, <2>5, MovesOn, StaysKeeps
<1> QED BY <1>4, <1>5, <1>6

(***************************************************************************)
(* The steps, as steps of the history.                                     *)
(***************************************************************************)
Walks(s, t) == WalkInv(t) /\ Moves(s, t)

\* Back and Forward go to the next entry.
OneStepAtATime == BackDistances = {0} /\ ForwardDistances = {0}

LEMMA InputStep ==
  ASSUME Inv, WalkInv(slot), OneStepAtATime,
         \/ \E l \in Locations : OpenLocation(l)
         \/ \E d \in BackDistances : GoBack(d)
         \/ \E d \in ForwardDistances : GoForward(d)
         \/ Reload
  PROVE  Walks(slot, slot')
<1>1. /\ slot \in Slots /\ slot.back \in Seq(Locations) /\ slot.forward \in Seq(Locations)
      /\ slot.location \in Places
  BY DEF Inv, SlotInv, Slots
<1>2. ASSUME NEW l \in Locations, OpenLocation(l)
      PROVE  Walks(slot, slot')
  BY <1>1, <1>2, BeginWalk DEF OpenLocation, Walks, ChangeTypes
<1>3. ASSUME GoBack(0)
      PROVE  Walks(slot, slot')
  <2>1. slot.back # << >> /\ 0 < Len(slot.back) /\ slot.back[0 + 1] \in Locations
    BY <1>1, <1>3 DEF GoBack
  <2>2. slot' = BeginLocationChange(slot, slot.back[0 + 1], "back", 0)
    BY <1>3, <2>1 DEF GoBack
  <2> QED BY <1>1, <2>1, <2>2, BeginWalk DEF Walks, ChangeTypes
<1>4. ASSUME GoForward(0)
      PROVE  Walks(slot, slot')
  <2>1. slot.forward # << >> /\ 0 < Len(slot.forward) /\ slot.forward[0 + 1] \in Locations
    BY <1>1, <1>4 DEF GoForward
  <2>2. slot' = BeginLocationChange(slot, slot.forward[0 + 1], "forward", 0)
    BY <1>4, <2>1 DEF GoForward
  <2> QED BY <1>1, <2>1, <2>2, BeginWalk DEF Walks, ChangeTypes
<1>5. ASSUME Reload
      PROVE  Walks(slot, slot')
  <2>1. slot.location \in Locations
    BY <1>1, <1>5 DEF Reload, Places
  <2> QED BY <1>1, <1>5, <2>1, BeginWalk DEF Reload, Walks, ChangeTypes
<1> QED BY <1>2, <1>3, <1>4, <1>5 DEF OneStepAtATime

LEMMA StopWalks ==
  ASSUME Inv, WalkInv(slot), StopLoading \/ SetContentView \/ CloseSlot
  PROVE  Walks(slot, slot')
<1>1. slot \in Slots
  BY DEF Inv, SlotInv
<1>2. CASE StopLoading
  <2> DEFINE s == IF slot.content = NoView THEN slot
                  ELSE [slot EXCEPT !.content = Stopped(@)]
  <2>1. s \in Slots /\ Core(s) = Core(slot)
    BY <1>1, ViewTypes DEF Slots, Core
  <2>2. slot' = CancelLocationChange(s)
    BY <1>2 DEF StopLoading
  <2> HIDE DEF s
  <2>3. Stays(slot, s) /\ Stays(s, slot')
    BY <2>1, <2>2, CoreStays, CancelStays
  <2> QED BY <2>3, StaysOn, StaysKeeps DEF Walks
<1>3. CASE SetContentView
  <2> DEFINE e == EndLocationChange(slot)
             t == [e EXCEPT !.allowStop = TRUE, !.type = "reload"]
  <2>1. e \in Slots /\ Stays(slot, e) /\ e.pending = NoLocation
    BY <1>1, Ended, FreeStays
  <2>2. slot.location \in Locations
    BY <1>1, <1>3 DEF Slots, Places, SetContentView
  <2>3. slot' = CreateContentView(t, slot.location, FALSE)
    BY <1>3 DEF SetContentView
  <2> HIDE DEF e
  <2>4. t \in Slots /\ Stays(e, t)
    <3>1. t \in Slots
      BY <2>1 DEF Slots, ChangeTypes
    <3>2. /\ t.location = e.location /\ t.back = e.back /\ t.forward = e.forward
          /\ t.pending = NoLocation
      BY <2>1 DEF Slots
    <3> HIDE DEF t
    <3> QED BY <3>1, <3>2 DEF Stays
  <2> HIDE DEF t
  <2>5. Stays(t, slot')
    BY <2>2, <2>3, <2>4, CreateStays
  <2> QED BY <2>1, <2>4, <2>5, StaysOn, StaysKeeps DEF Walks
<1>4. CASE CloseSlot
  <2>1. Stays(slot, slot')
    BY <1>1, <1>4, ClosedStays DEF CloseSlot
  <2> QED BY <2>1, StaysKeeps DEF Walks
<1> QED BY <1>2, <1>3, <1>4

LEMMA ForgetWalks ==
  ASSUME Inv, WalkInv(slot), ForgetHistory
  PROVE  Walks(slot, slot')
<1> DEFINE b == slot.back
           f == slot.forward
           p == slot.location
<1>1. /\ slot \in Slots /\ p \in Places /\ b \in Seq(Locations) /\ f \in Seq(Locations)
      /\ << >> \in Seq(Locations) /\ p = NoLocation => b = << >> /\ f = << >>
      /\ Len(b) \in Nat
  BY DEF Inv, SlotInv, Slots, Marked
<1>2. /\ slot'.back = << >> /\ slot'.forward = << >> /\ slot'.location = p
      /\ slot'.pending = slot.pending /\ slot'.type = slot.type
      /\ slot'.distance = slot.distance
  BY <1>1 DEF ForgetHistory, Slots
<1>3. WalkInv(slot')
  BY <1>2 DEF WalkInv, Apart, Aimed
<1>4. CASE p = NoLocation
  <2>1. Stays(slot, slot')
    BY <1>1, <1>2, <1>4 DEF Stays
  <2> QED BY <2>1, StaysKeeps DEF Walks
<1>5. CASE p # NoLocation
  <2>1. p \in Locations
    BY <1>1, <1>5 DEF Places
  <2>2. /\ Entries(slot) = Trail(b, p, f) /\ Position(slot) = Len(b) + 1
        /\ Entries(slot') = Trail(<< >>, p, << >>) /\ Position(slot') = 1
    BY <1>2, <1>5 DEF Entries, Position
  <2>3. Trail(b, p, f)[Len(b) + 1] = p
    <3>1. IsTrail(Trail(b, p, f), b, p, f)
      BY <1>1, <2>1, TrailIs
    <3> QED BY <3>1 DEF IsTrail
  <2>4. Trail(<< >>, p, << >>) = << p >>
    <3>1. Reverse(<< >>) = << >>
      BY DEF Reverse
    <3>2. << >> \o << p >> \o << >> = << p >>
      BY <2>1
    <3> QED BY <3>1, <3>2 DEF Trail
  <2>5. /\ Position(slot) > 0 /\ Position(slot') = 1
        /\ Entries(slot') = << Entries(slot)[Position(slot)] >>
    BY <1>1, <2>2, <2>3, <2>4
  <2> QED BY <1>3, <2>5 DEF Walks, Moves
<1> QED BY <1>4, <1>5

LEMMA DeleteWalks ==
  ASSUME Inv, WalkInv(slot), NEW l \in Locations, DeleteFolder(l)
  PROVE  Walks(slot, slot')
<1>1. slot \in Slots
  BY DEF Inv, SlotInv
<1>2. CASE UNCHANGED slot
  BY <1>2, StaysKeeps DEF Stays, Walks
<1>3. ASSUME NEW other \in Locations,
             slot' = BeginLocationChange(EndLocationChange(slot), other, "standard", 0)
      PROVE  Walks(slot, slot')
  <2> DEFINE e == EndLocationChange(slot)
  <2>1. e \in Slots /\ Stays(slot, e) /\ slot' = BeginLocationChange(e, other, "standard", 0)
    BY <1>1, <1>3, Ended, FreeStays
  <2> HIDE DEF e
  <2>2. WalkInv(e)
    BY <2>1, StaysKeeps
  <2>3. WalkInv(slot') /\ Moves(e, slot')
    BY <2>1, <2>2, BeginWalk DEF ChangeTypes
  <2>4. Stays(slot', slot')
    BY DEF Stays
  <2> QED BY <2>1, <2>3, <2>4, MovesOn DEF Walks
<1> QED BY <1>2, <1>3 DEF DeleteFolder

LEMMA AnswerWalks ==
  ASSUME Inv, WalkInv(slot), MountDone \/ \E l \in Locations : FileInfoReady(l)
  PROVE  Walks(slot, slot')
<1>1. slot \in Slots
  BY DEF Inv, SlotInv
<1>2. ASSUME NEW l \in Locations, FileInfoReady(l)
      PROVE  Walks(slot, slot')
  <2> DEFINE s == [slot EXCEPT !.ready = @ \ {l}]
  <2>1. PICK answer \in Answers(l), reuse \in BOOLEAN : slot' = GotFileInfo(s, answer, reuse)
    BY <1>2 DEF FileInfoReady
  <2>2. slot.pending \in Locations
    BY <1>2, LocationAssumption DEF FileInfoReady, Inv, SlotInv, Expected
  <2>3. s \in Slots /\ Stays(slot, s) /\ s.pending \in Locations
    BY <1>1, <2>2 DEF Slots, Stays
  <2> HIDE DEF s
  <2>4. Stays(s, slot')
    BY <2>1, <2>3, GotStays
  <2> QED BY <2>3, <2>4, StaysOn, StaysKeeps DEF Walks
<1>3. ASSUME MountDone
      PROVE  Walks(slot, slot')
  <2>1. PICK mounted \in BOOLEAN : slot' = MountAnswered(slot, mounted)
    BY <1>3 DEF MountDone
  <2>2. slot.pending \in Locations
    BY <1>3 DEF MountDone, Inv, SlotInv, Expected, Slots, Places
  <2>3. Stays(slot, slot')
    BY <1>1, <2>1, <2>2, MountStays
  <2> QED BY <2>3, StaysKeeps DEF Walks
<1> QED BY <1>2, <1>3

LEMMA ReportWalks ==
  ASSUME Inv, WalkInv(slot),
         ContentUnderway \/ NascentUnderway \/ ContentComplete \/ ContentLoadError
  PROVE  Walks(slot, slot')
<1>1. slot \in Slots /\ SlotInv(slot)
  BY DEF Inv, SlotInv
<1> DEFINE started == [slot EXCEPT !.content.step = "underway"]
           allowed == [slot EXCEPT !.content.step = "underway", !.allowStop = TRUE]
           nascent == [slot EXCEPT !.nascent.step = "underway"]
           seen == [slot EXCEPT !.content.step = "seen", !.content.loading = FALSE]
<1>2. SlotInv(started) /\ SlotInv(nascent) /\ SlotInv(seen)
  BY <1>1, ViewStepKeeps, ZenonT(60)
<1>3. Stays(slot, started) /\ Stays(slot, allowed) /\ Stays(slot, nascent) /\ Stays(slot, seen)
  BY <1>1, ZenonT(60) DEF Slots, Stays
<1>4. /\ ContentUnderway => slot' = LocationHasReallyChanged(started) \/ slot' = allowed
      /\ NascentUnderway => slot' = LocationHasReallyChanged(nascent)
      /\ ContentComplete => slot' = EndLocationChange(seen) \/ slot' = seen
      /\ ContentLoadError => slot' = seen
  BY DEF ContentUnderway, NascentUnderway, ContentComplete, ContentLoadError
<1> HIDE DEF started, allowed, nascent, seen
<1>5. ASSUME NEW s, SlotInv(s), Stays(slot, s), slot' = LocationHasReallyChanged(s)
      PROVE  Walks(slot, slot')
  <2>1. WalkInv(slot') /\ Moves(s, slot')
    BY <1>5, StaysKeeps, ReallyChangedWalk
  <2>2. Stays(slot', slot')
    BY DEF Stays
  <2> QED BY <1>5, <2>1, <2>2, MovesOn DEF Walks
<1>6. Stays(slot, EndLocationChange(seen))
  BY <1>2, <1>3, FreeStays, StaysOn DEF SlotInv
<1> QED BY <1>2, <1>3, <1>4, <1>5, <1>6, StaysKeeps DEF Walks

HistoryInv == Inv /\ WalkInv(slot)

LEMMA HistoryStep ==
  ASSUME Inv, WalkInv(slot), OneStepAtATime, [Next]_vars
  PROVE  Walks(slot, slot')
<1>1. CASE UNCHANGED vars
  BY <1>1, StaysKeeps DEF vars, Stays, Walks
<1>2. CASE Next
  BY <1>2, InputStep, StopWalks, ForgetWalks, DeleteWalks, AnswerWalks, ReportWalks DEF Next
<1> QED BY <1>1, <1>2

LEMMA MovesOfHistory ==
  ASSUME Moves(slot, slot')
  PROVE  [History!Next]_History!vars
BY DEF History!vars, Moves, Entries, Position, Trail, History!Next, History!Visit, History!Revisit,
       History!Go, History!Forget

\* Back and Forward are a walk through the places that were shown, for any places:
\* where one goes one step at a time, every change of a tab is a visit, a step to
\* another entry or the end of what was ahead, or changes nothing of the history
\* (update_history, handle_go_back, handle_go_forward and handle_go_elsewhere).
THEOREM HistoryImplemented ==
  ASSUME BackDistances = {0}, ForwardDistances = {0}
  PROVE  Spec => ImplementsHistory
<1>1. Init => HistoryInv
  BY InitInv DEF HistoryInv, Init, WalkInv, Apart, Aimed
<1>2. HistoryInv /\ [Next]_vars => HistoryInv'
  BY InvKept, HistoryStep DEF HistoryInv, OneStepAtATime, Walks
<1>3. HistoryInv /\ [Next]_vars => [History!Next]_History!vars
  BY HistoryStep, MovesOfHistory DEF HistoryInv, OneStepAtATime, Walks
<1>4. Init => History!Init
  BY DEF Init, History!Init
<1> QED BY <1>1, <1>2, <1>3, <1>4, PTL DEF Spec, ImplementsHistory, History!Spec

-----------------------------------------------------------------------------
(***************************************************************************)
(* The thumbnail factory.                                                  *)
(***************************************************************************)
(***************************************************************************)
(* Operators on the queue.                                                 *)
(***************************************************************************)

LEMMA Concatenated ==
  ASSUME NEW S, NEW a \in Seq(S), NEW b \in Seq(S)
  PROVE  /\ a \o b \in Seq(S) /\ Len(a \o b) = Len(a) + Len(b)
         /\ \A j \in 1 .. Len(a) : (a \o b)[j] = a[j]
         /\ \A j \in Len(a) + 1 .. Len(a) + Len(b) : (a \o b)[j] = b[j - Len(a)]
OBVIOUS

\* Where the one link that g_queue_delete_link takes off the queue is.
LEMMA IndexOfMember ==
  ASSUME NEW s \in Seq(Files), IsInjective(s), NEW i \in 1 .. Len(s)
  PROVE  SelectInSeq(s, LAMBDA v : v = s[i]) = i
<1> DEFINE I == {j \in 1 .. Len(s) : s[j] = s[i]}
<1>1. I = {i}
  BY DEF IsInjective
<1>2. Min(I) = i
  BY <1>1 DEF Min
<1> QED
  BY <1>1, <1>2 DEF SelectInSeq

LEMMA RemoveAbsent ==
  ASSUME NEW s \in Seq(Files), NEW e, ~Contains(s, e)
  PROVE  RemoveFirst(s, e) = s
BY DEF RemoveFirst, Contains

\* Taking a file off the queue leaves every other file on it, and no second
\* entry of it.
LEMMA RemoveMember ==
  ASSUME NEW s \in Seq(Files), IsInjective(s), NEW i \in 1 .. Len(s)
  PROVE  LET r == RemoveFirst(s, s[i])
         IN  /\ r \in Seq(Files)
             /\ Len(r) = Len(s) - 1
             /\ \A j \in 1 .. Len(r) : r[j] = IF j < i THEN s[j] ELSE s[j + 1]
<1> DEFINE a == SubSeq(s, 1, i - 1)
           b == SubSeq(s, i + 1, Len(s))
<1>1. RemoveFirst(s, s[i]) = a \o b
  BY IndexOfMember DEF RemoveFirst, RemoveAt
<1>2. a \in Seq(Files) /\ Len(a) = i - 1 /\ \A j \in 1 .. i - 1 : a[j] = s[j]
  OBVIOUS
<1>3. b \in Seq(Files) /\ Len(b) = Len(s) - i /\ \A j \in 1 .. Len(s) - i : b[j] = s[i + j]
  OBVIOUS
<1> HIDE DEF a, b
<1> DEFINE c == a \o b
<1>4. /\ c \in Seq(Files) /\ Len(c) = Len(a) + Len(b)
      /\ \A j \in 1 .. Len(a) : c[j] = a[j]
      /\ \A j \in Len(a) + 1 .. Len(a) + Len(b) : c[j] = b[j - Len(a)]
  BY <1>2, <1>3, Concatenated
<1> HIDE DEF c
<1>5. Len(s) \in Nat /\ i \in 1 .. Len(s)
  OBVIOUS
<1>6. Len(c) = Len(s) - 1
  BY <1>2, <1>3, <1>4, <1>5
<1>7. ASSUME NEW j \in 1 .. Len(c)
      PROVE  c[j] = IF j < i THEN s[j] ELSE s[j + 1]
  <2>1. CASE j < i
    BY <2>1, <1>2, <1>4, <1>5, <1>6
  <2>2. CASE ~(j < i)
    <3>1. c[j] = b[j - (i - 1)]
      BY <2>2, <1>2, <1>3, <1>4, <1>5, <1>6
    <3>2. b[j - (i - 1)] = s[i + (j - (i - 1))] /\ i + (j - (i - 1)) = j + 1
      BY <2>2, <1>3, <1>5, <1>6
    <3> QED
      BY <2>2, <3>1, <3>2
  <2> QED
    BY <2>1, <2>2
<1> QED
  BY <1>1, <1>4, <1>6, <1>7 DEF c

\* Taking a file off the queue leaves every other file on it, and no second
\* entry of any file.
LEMMA RemoveKeeps ==
  ASSUME NEW s \in Seq(Files), IsInjective(s), NEW e \in Files
  PROVE  LET r == RemoveFirst(s, e)
         IN  /\ r \in Seq(Files) /\ IsInjective(r)
             /\ r # << >> => s # << >>
             /\ \A g \in Files : Contains(r, g) <=> g # e /\ Contains(s, g)
<1> DEFINE r == RemoveFirst(s, e)
<1>1. CASE ~Contains(s, e)
  BY <1>1, RemoveAbsent
<1>2. CASE Contains(s, e)
  <2>1. PICK i \in 1 .. Len(s) : s[i] = e
    BY <1>2 DEF Contains
  <2>2. /\ r \in Seq(Files) /\ Len(r) = Len(s) - 1
        /\ \A j \in 1 .. Len(r) : r[j] = IF j < i THEN s[j] ELSE s[j + 1]
    BY <2>1, RemoveMember
  <2> HIDE DEF r
  <2>3. IsInjective(r)
    <3> SUFFICES ASSUME NEW j \in 1 .. Len(r), NEW k \in 1 .. Len(r), r[j] = r[k]
                 PROVE  j = k
      BY <2>2 DEF IsInjective
    <3>1. \A m, n \in 1 .. Len(s) : s[m] = s[n] => m = n
      BY DEF IsInjective
    <3> QED
      BY <2>2, <3>1
  <2>4. ASSUME NEW g \in Files, Contains(r, g)
        PROVE  g # e /\ Contains(s, g)
    <3>1. PICK j \in 1 .. Len(r) : r[j] = g
      BY <2>4 DEF Contains
    <3>2. PICK k \in 1 .. Len(s) : s[k] = g /\ k # i
      BY <2>2, <3>1
    <3> QED
      BY <2>1, <3>2 DEF Contains, IsInjective
  <2>5. ASSUME NEW g \in Files, g # e, Contains(s, g)
        PROVE  Contains(r, g)
    <3>1. PICK k \in 1 .. Len(s) : s[k] = g
      BY <2>5 DEF Contains
    <3>2. k # i
      BY <2>1, <2>5, <3>1
    <3>3. CASE k < i
      <4>1. k \in 1 .. Len(r) /\ r[k] = g
        BY <2>2, <3>1, <3>3
      <4> QED
        BY <4>1 DEF Contains
    <3>4. CASE i < k
      <4>1. k - 1 \in 1 .. Len(r) /\ r[k - 1] = g
        BY <2>2, <3>1, <3>4
      <4> QED
        BY <4>1 DEF Contains
    <3> QED
      BY <3>2, <3>3, <3>4
  <2>6. s # << >>
    BY <2>1
  <2> QED
    BY <2>2, <2>3, <2>4, <2>5, <2>6 DEF r
<1> QED
  BY <1>1, <1>2

\* A file that is put at the end, or moved to the front.
LEMMA AppendKeeps ==
  ASSUME NEW s \in Seq(Files), IsInjective(s), NEW e \in Files, ~Contains(s, e)
  PROVE  LET r == Append(s, e)
         IN  /\ r \in Seq(Files) /\ IsInjective(r)
             /\ \A g \in Files : Contains(r, g) <=> g = e \/ Contains(s, g)
<1> DEFINE r == Append(s, e)
<1>1. /\ r \in Seq(Files) /\ Len(r) = Len(s) + 1 /\ r[Len(s) + 1] = e
      /\ \A j \in 1 .. Len(s) : r[j] = s[j]
  OBVIOUS
<1> HIDE DEF r
<1>2. IsInjective(r)
  BY <1>1 DEF IsInjective, Contains
<1>3. \A g \in Files : Contains(r, g) <=> g = e \/ Contains(s, g)
  BY <1>1 DEF Contains
<1> QED
  BY <1>1, <1>2, <1>3 DEF r

LEMMA FrontKeeps ==
  ASSUME NEW s \in Seq(Files), IsInjective(s), NEW e \in Files, Contains(s, e)
  PROVE  LET r == << e >> \o RemoveFirst(s, e)
         IN  /\ r \in Seq(Files) /\ IsInjective(r)
             /\ \A g \in Files : Contains(r, g) <=> Contains(s, g)
<1> DEFINE t == RemoveFirst(s, e)
           r == << e >> \o t
<1>1. /\ t \in Seq(Files) /\ IsInjective(t)
      /\ \A g \in Files : Contains(t, g) <=> g # e /\ Contains(s, g)
  BY RemoveKeeps
<1> HIDE DEF t
<1>2. /\ r \in Seq(Files) /\ Len(r) = Len(t) + 1 /\ r[1] = e
      /\ \A j \in 2 .. Len(r) : r[j] = t[j - 1]
  BY <1>1
<1> HIDE DEF r
<1>3. ~Contains(t, e)
  BY <1>1
<1>4. IsInjective(r)
  <2> SUFFICES ASSUME NEW j \in 1 .. Len(r), NEW k \in 1 .. Len(r), r[j] = r[k]
               PROVE  j = k
    BY <1>2 DEF IsInjective
  <2>1. \A m, n \in 1 .. Len(t) : t[m] = t[n] => m = n
    BY <1>1 DEF IsInjective
  <2>2. \A m \in 1 .. Len(t) : t[m] # e
    BY <1>3 DEF Contains
  <2>3. Len(t) \in Nat
    BY <1>1
  <2>4. \A m \in 2 .. Len(r) : m - 1 \in 1 .. Len(t)
    BY <1>2, <2>3
  <2>5. CASE j = 1 \/ k = 1
    BY <1>2, <2>2, <2>3, <2>4, <2>5
  <2>6. CASE j # 1 /\ k # 1
    BY <1>2, <2>1, <2>3, <2>4, <2>6, SMTT(30)
  <2> QED
    BY <2>5, <2>6
<1>5. ASSUME NEW g \in Files
      PROVE  Contains(r, g) <=> g = e \/ Contains(t, g)
  <2>1. ASSUME NEW k \in 1 .. Len(t), t[k] = g PROVE Contains(r, g)
    <3>1. k + 1 \in 1 .. Len(r) /\ r[k + 1] = g
      BY <1>1, <1>2, <2>1
    <3> QED
      BY <3>1 DEF Contains
  <2>2. g = e => Contains(r, g)
    BY <1>1, <1>2 DEF Contains
  <2>3. ASSUME NEW k \in 1 .. Len(r), r[k] = g, g # e PROVE Contains(t, g)
    <3>1. k - 1 \in 1 .. Len(t) /\ t[k - 1] = g
      BY <1>1, <1>2, <2>3
    <3> QED
      BY <3>1 DEF Contains
  <2> QED
    BY <2>1, <2>2, <2>3 DEF Contains
<1> QED
  BY <1>1, <1>2, <1>4, <1>5 DEF r, t

-----------------------------------------------------------------------------
(***************************************************************************)
(* Types.                                                                  *)
(***************************************************************************)

\* A file has been written to, and changes of it are to be reported, no more
\* often than there were writes.
Bounded ==
  \A f \in Files :
    content[f] <= changes /\ mtime[f] <= changes + 1 /\ events[f] <= changes

\* Between two entries the thread has no file, while it works it has one.
Working == pc \notin {"none", "lock"} => current \in Files

TypeInv == FactoryTypeOK /\ Bounded /\ Working

LEMMA TypeInit == FactoryInit => TypeInv
<1> SUFFICES ASSUME FactoryInit PROVE TypeInv
  OBVIOUS
<1>1. NewFile \in BaulFiles
  BY DEF NewFile, BaulFiles, Infos, NoInfo, Times, NoTime
<1>2. NoThumb \in [label : Times \cup {NoTime}, shows : Contents]
  BY ThumbnailsAssumption DEF NoThumb, NoTime, Contents
<1>3. 0 \in Contents /\ 1 \in Times /\ 0 \in 0 .. Delay /\ 0 \in 0 .. MaxChanges
  BY ThumbnailsAssumption DEF Contents, Times
<1>4. DiskOK
  BY <1>2, <1>3 DEF FactoryInit, DiskOK
<1>5. QueueOK
  <2>1. queue \in Seq(Files) /\ IsInjective(queue)
    BY DEF FactoryInit, IsInjective
  <2> QED
    BY <2>1 DEF FactoryInit, QueueOK
<1>6. MainLoopOK
  BY <1>1, <1>3 DEF FactoryInit, MainLoopOK
<1>7. ThreadOK /\ Working
  BY <1>3 DEF FactoryInit, ThreadOK, Working
<1>8. Bounded
  BY DEF FactoryInit, Bounded
<1> QED
  BY <1>4, <1>5, <1>6, <1>7, <1>8 DEF TypeInv, FactoryTypeOK

\* What a step leaves alone keeps its type.
LEMMA Kept ==
  ASSUME TypeInv
  PROVE  /\ UNCHANGED diskVars => DiskOK'
         /\ UNCHANGED queueVars => QueueOK'
         /\ UNCHANGED << file, starter, noticeVars, changes >> => MainLoopOK'
         /\ UNCHANGED threadVars => ThreadOK'
         /\ UNCHANGED << content, mtime, events, changes >> => Bounded'
         /\ UNCHANGED << pc, current >> => Working'
<1>1. UNCHANGED diskVars => DiskOK'
  BY DEF TypeInv, FactoryTypeOK, DiskOK, diskVars
<1>2. UNCHANGED queueVars => QueueOK'
  BY DEF TypeInv, FactoryTypeOK, QueueOK, queueVars
<1>3. UNCHANGED << file, starter, noticeVars, changes >> => MainLoopOK'
  BY DEF TypeInv, FactoryTypeOK, MainLoopOK, noticeVars
<1>4. UNCHANGED threadVars => ThreadOK'
  BY DEF TypeInv, FactoryTypeOK, ThreadOK, threadVars
<1>5. UNCHANGED << content, mtime, events, changes >> => Bounded'
  BY DEF TypeInv, Bounded
<1>6. UNCHANGED << pc, current >> => Working'
  BY DEF TypeInv, Working
<1> QED
  BY <1>1, <1>2, <1>3, <1>4, <1>5, <1>6

LEMMA TickTypes == ASSUME TypeInv, Tick PROVE TypeInv'
<1>1. DiskOK'
  <2>1. age' \in [Files -> [Times -> 0 .. Delay]]
    BY ThumbnailsAssumption DEF Tick, TypeInv, FactoryTypeOK, DiskOK
  <2> QED
    BY <2>1 DEF Tick, TypeInv, FactoryTypeOK, DiskOK
<1>2. MainLoopOK'
  BY DEF Tick, TypeInv, FactoryTypeOK, MainLoopOK
<1>3. Working'
  BY Kept DEF Tick, queueVars, threadVars
<1> QED
  BY <1>1, <1>2, <1>3, Kept DEF Tick, TypeInv, FactoryTypeOK

LEMMA WriteTypes == ASSUME TypeInv, NEW f \in Files, Write(f) PROVE TypeInv'
<1>1. changes \in Nat /\ changes < MaxChanges /\ changes' = changes + 1
      /\ changes' \in 0 .. MaxChanges
  BY ThumbnailsAssumption DEF Write, TypeInv, FactoryTypeOK, MainLoopOK
<1>2. \A g \in Files :
        /\ content[g] \in Nat /\ mtime[g] \in Nat \ {0} /\ events[g] \in Nat
        /\ content[g] <= changes /\ mtime[g] <= changes + 1 /\ events[g] <= changes
  BY DEF TypeInv, FactoryTypeOK, DiskOK, Bounded, Contents, Times
<1>3. content[f] + 1 \in Contents /\ mtime[f] + 1 \in Times /\ events[f] + 1 \in Contents
  BY <1>1, <1>2, ThumbnailsAssumption DEF Contents, Times
<1>4. content' \in [Files -> Contents] /\ mtime' \in [Files -> Times]
      /\ events' \in [Files -> Contents]
  BY <1>3 DEF Write, TypeInv, FactoryTypeOK, DiskOK
<1>5. \A g \in Files :
        /\ content'[g] \in {content[g], content[g] + 1}
        /\ mtime'[g] \in {mtime[g], mtime[g] + 1}
        /\ events'[g] \in {events[g], events[g] + 1}
  BY DEF Write, TypeInv, FactoryTypeOK, DiskOK
<1>6. Bounded'
  BY <1>1, <1>2, <1>5 DEF Bounded
<1>7. DiskOK'
  BY <1>4 DEF Write, TypeInv, FactoryTypeOK, DiskOK
<1>8. MainLoopOK'
  BY <1>1 DEF Write, TypeInv, FactoryTypeOK, MainLoopOK, noticeVars
<1>9. Working'
  BY Kept DEF Write, queueVars, threadVars
<1> QED
  BY <1>6, <1>7, <1>8, <1>9, Kept DEF Write, TypeInv, FactoryTypeOK

\* The steps of the main loop that concern one file.
LEMMA MainLoopTypes ==
  ASSUME TypeInv, NEW f \in Files,
         MainLoop(f) \/ Prioritize(f) \/ Open(f) \/ Close(f)
  PROVE  TypeInv'
<1>0. Working'
  <2>1. UNCHANGED << pc, current >>
    BY DEF MainLoop, Draw, QueryInfo, InfoArrives, LoadThumbnail, ThumbnailArrives, FileChanged, Notify, Prioritize, Open,
       Close, AddToQueue, queueVars, threadVars
  <2> QED
    BY <2>1, Kept
<1>1. CASE Draw(f)
  <2>1. QueueOK'
    <3>1. CASE WantsThumbnail(f)
      <4>1. (queue \in Seq(Files) /\ IsInjective(queue))'
        BY <1>1, <3>1, AppendKeeps DEF Draw, AddToQueue, Queued, TypeInv, FactoryTypeOK, QueueOK
      <4>2. file[f].mtime \in Times \cup {NoTime} /\ mtime[f] \in Times
        BY DEF TypeInv, FactoryTypeOK, MainLoopOK, DiskOK, BaulFiles
      <4> QED
        BY <1>1, <3>1, <4>1, <4>2 DEF Draw, AddToQueue, TypeInv, FactoryTypeOK, QueueOK
    <3>2. CASE ~WantsThumbnail(f)
      BY <1>1, <3>2, Kept DEF Draw
    <3> QED
      BY <3>1, <3>2
  <2>2. file' \in [Files -> BaulFiles]
    <3> DEFINE new == [file[f] EXCEPT !.redraw = FALSE,
                                      !.thumbnailing = @ \/ WantsThumbnail(f)]
    <3>1. file[f] \in BaulFiles
      BY DEF TypeInv, FactoryTypeOK, MainLoopOK
    <3>2. file[f].thumbnailing \/ WantsThumbnail(f) \in BOOLEAN
      BY <3>1 DEF BaulFiles, WantsThumbnail
    <3>3. new \in BaulFiles
      BY <3>1, <3>2 DEF BaulFiles
    <3>4. file' = [file EXCEPT ![f] = new]
      BY <1>1, <3>1 DEF Draw, TypeInv, FactoryTypeOK, MainLoopOK, BaulFiles
    <3> HIDE DEF new
    <3> QED
      BY <3>3, <3>4 DEF TypeInv, FactoryTypeOK, MainLoopOK
  <2>3. starter' \in BOOLEAN
    BY <1>1 DEF Draw, AddToQueue, TypeInv, FactoryTypeOK, MainLoopOK
  <2>4. MainLoopOK'
    BY <1>1, <2>2, <2>3 DEF Draw, TypeInv, FactoryTypeOK, MainLoopOK, noticeVars
  <2>5. UNCHANGED << content, mtime, events, changes >>
    BY <1>1 DEF Draw, diskVars
  <2> QED
    BY <1>0, <1>1, <2>1, <2>4, <2>5, Kept DEF Draw, TypeInv, FactoryTypeOK
<1>2. ASSUME QueryInfo(f) \/ InfoArrives(f) \/ LoadThumbnail(f) \/ ThumbnailArrives(f)
      PROVE  TypeInv'
  <2>1. file[f] \in BaulFiles /\ mtime[f] \in Times /\ file \in [Files -> BaulFiles]
    BY DEF TypeInv, FactoryTypeOK, MainLoopOK, DiskOK
  <2>2. thumb[f].label \in Times \cup {NoTime}
    BY DEF TypeInv, FactoryTypeOK, DiskOK
  <2>3. file' \in [Files -> BaulFiles]
    <3>1. CASE QueryInfo(f)
      <4> DEFINE info == [mtime |-> mtime[f], path |-> thumb[f] # NoThumb,
                          failed |-> f \in failedMark /\ thumb[f] = NoThumb, outrun |-> FALSE]
      <4>1. info \in Infos
        <5>1. (thumb[f] # NoThumb) \in BOOLEAN /\ (f \in failedMark /\ thumb[f] = NoThumb) \in BOOLEAN
          OBVIOUS
        <5> QED
          BY <2>1, <5>1, Zenon DEF Infos
      <4>2. file' = [file EXCEPT ![f].info = info]
        BY <3>1, Zenon DEF QueryInfo
      <4> HIDE DEF info
      <4> QED
        BY <2>1, <4>1, <4>2 DEF BaulFiles
    <3>2. CASE InfoArrives(f)
      <4> DEFINE old == file[f]
                 info == old.info
                 outdated == IF old.shown = NoTime THEN old.mtime # info.mtime
                             ELSE old.shown # info.mtime
                 new == [old EXCEPT !.infoOk = TRUE, !.info = NoInfo,
                       !.mtime = info.mtime, !.path = info.path, !.failed = info.failed,
                       !.outrun = info.outrun, !.thumbOk = @ /\ ~outdated, !.redraw = TRUE]
      <4>1. info \in Infos /\ NoInfo \in Infos
        BY <2>1 DEF BaulFiles, Infos, NoInfo
      <4>2. PICK ok \in BOOLEAN : ok = (old.thumbOk /\ ~outdated)
        OBVIOUS
      <4>3. new \in BaulFiles
        <5> DEFINE half == [old EXCEPT !.infoOk = TRUE, !.info = NoInfo,
                              !.mtime = info.mtime, !.path = info.path]
        <5>1. new = [half EXCEPT !.failed = info.failed, !.outrun = info.outrun,
                       !.thumbOk = ok, !.redraw = TRUE]
          BY <4>2, Zenon
        <5>2. /\ info.mtime \in Times \cup {NoTime} /\ info.path \in BOOLEAN
              /\ info.failed \in BOOLEAN /\ info.outrun \in BOOLEAN
          BY <4>1 DEF Infos
        <5>3. old \in BaulFiles
          BY <2>1
        <5>4. ok \in BOOLEAN
          BY <4>2
        <5> HIDE DEF new, outdated, old, info
        <5>5. half \in BaulFiles
          BY <4>1, <5>2, <5>3 DEF BaulFiles
        <5> HIDE DEF half
        <5> QED
          BY <5>1, <5>2, <5>4, <5>5 DEF BaulFiles
      <4>4. file' = [file EXCEPT ![f] = new]
        BY <3>2, Zenon DEF InfoArrives
      <4> HIDE DEF new
      <4> QED
        BY <2>1, <4>3, <4>4
    <3>3. CASE LoadThumbnail(f)
      BY <2>1, <2>2, <3>3 DEF LoadThumbnail, BaulFiles
    <3>4. CASE ThumbnailArrives(f)
      <4> DEFINE old == file[f]
                 fits == old.image = old.mtime
                 new == [old EXCEPT !.thumbOk = TRUE, !.image = NoTime,
                           !.shown = IF fits THEN old.image ELSE NoTime,
                           !.path = fits, !.redraw = TRUE]
      <4>1. fits \in BOOLEAN /\ NoTime \in Times \cup {NoTime}
            /\ (IF fits THEN old.image ELSE NoTime) \in Times \cup {NoTime}
        BY <2>1 DEF BaulFiles
      <4>2. new \in BaulFiles
        BY <2>1, <4>1, ZenonT(60) DEF BaulFiles
      <4>3. file' = [file EXCEPT ![f] = new]
        BY <3>4, Zenon DEF ThumbnailArrives
      <4> HIDE DEF new
      <4> QED
        BY <2>1, <4>2, <4>3
    <3> QED
      BY <1>2, <3>1, <3>2, <3>3, <3>4
  <2>4. UNCHANGED << diskVars, queueVars, starter, noticeVars, changes, threadVars >>
    BY <1>2 DEF QueryInfo, InfoArrives, LoadThumbnail, ThumbnailArrives
  <2>5. MainLoopOK'
    BY <2>3, <2>4 DEF TypeInv, FactoryTypeOK, MainLoopOK, noticeVars
  <2>6. UNCHANGED << content, mtime, events, changes >>
    BY <2>4 DEF diskVars
  <2> QED
    BY <1>0, <2>4, <2>5, <2>6, Kept DEF TypeInv, FactoryTypeOK
<1>3. CASE FileChanged(f)
  <2>1. file' \in [Files -> BaulFiles]
    <3>1. file[f] \in BaulFiles /\ file[f].info \in Infos /\ file \in [Files -> BaulFiles]
      BY DEF TypeInv, FactoryTypeOK, MainLoopOK, BaulFiles
    <3> DEFINE info == IF file[f].info # NoInfo /\ file[f].info.mtime # mtime[f]
                       THEN [file[f].info EXCEPT !.outrun = TRUE] ELSE file[f].info
    <3>2. info \in Infos
      BY <3>1 DEF Infos
    <3>3. file' = [file EXCEPT ![f] = [file[f] EXCEPT !.infoOk = FALSE, !.info = info]]
      BY <1>3, Zenon DEF FileChanged
    <3> HIDE DEF info
    <3>4. [file[f] EXCEPT !.infoOk = FALSE, !.info = info] \in BaulFiles
      BY <3>1, <3>2 DEF BaulFiles
    <3> QED
      BY <3>1, <3>3, <3>4
  <2>2. events' \in [Files -> Contents] /\ events'[f] = events[f] - 1
    BY <1>3, ThumbnailsAssumption
    DEF FileChanged, TypeInv, FactoryTypeOK, DiskOK, Contents
  <2>3. DiskOK'
    BY <1>3, <2>2 DEF FileChanged, TypeInv, FactoryTypeOK, DiskOK
  <2>4. MainLoopOK'
    BY <1>3, <2>1 DEF FileChanged, TypeInv, FactoryTypeOK, MainLoopOK, noticeVars
  <2>5. changes \in Nat /\ events[f] \in Nat
    BY DEF TypeInv, FactoryTypeOK, MainLoopOK, DiskOK, Contents
  <2>6. Bounded'
    BY <1>3, <2>2, <2>5 DEF FileChanged, TypeInv, Bounded, FactoryTypeOK, DiskOK
  <2> QED
    BY <1>0, <1>3, <2>3, <2>4, <2>6, Kept DEF FileChanged, TypeInv, FactoryTypeOK
<1>4. CASE Notify(f)
  <2>1. file' \in [Files -> BaulFiles]
    <3> DEFINE new == [file[f] EXCEPT !.thumbnailing = FALSE, !.infoOk = FALSE,
                                      !.thumbOk = FALSE,
                                      !.info = NoInfo, !.image = NoTime]
    <3>1. file[f] \in BaulFiles
      BY DEF TypeInv, FactoryTypeOK, MainLoopOK
    <3>2. new \in BaulFiles
      BY <3>1 DEF BaulFiles, Infos, NoInfo, NoTime
    <3>3. file' = file \/ file' = [file EXCEPT ![f] = new]
      BY <1>4, <3>1 DEF Notify, TypeInv, FactoryTypeOK, MainLoopOK, BaulFiles
    <3> HIDE DEF new
    <3> QED
      BY <3>2, <3>3 DEF TypeInv, FactoryTypeOK, MainLoopOK
  <2>2. notices' \in [Files -> Nat]
    BY <1>4 DEF Notify, TypeInv, FactoryTypeOK, MainLoopOK
  <2>3. MainLoopOK'
    BY <1>4, <2>1, <2>2 DEF Notify, TypeInv, FactoryTypeOK, MainLoopOK
  <2>4. UNCHANGED << content, mtime, events, changes >>
    BY <1>4 DEF Notify, diskVars
  <2> QED
    BY <1>0, <1>4, <2>3, <2>4, Kept DEF Notify, TypeInv, FactoryTypeOK
<1>5. CASE Prioritize(f)
  <2>1. (queue \in Seq(Files) /\ IsInjective(queue))'
    BY <1>5, FrontKeeps DEF Prioritize, Queued, TypeInv, FactoryTypeOK, QueueOK
  <2>2. QueueOK'
    BY <1>5, <2>1 DEF Prioritize, TypeInv, FactoryTypeOK, QueueOK
  <2>3. UNCHANGED << content, mtime, events, changes >>
    BY <1>5 DEF Prioritize, diskVars
  <2> QED
    BY <1>0, <1>5, <2>2, <2>3, Kept DEF Prioritize, TypeInv, FactoryTypeOK
<1>6. CASE Open(f)
  <2>1. NewFile \in BaulFiles
    BY DEF NewFile, BaulFiles, Infos, NoInfo, Times, NoTime
  <2>2. MainLoopOK'
    BY <1>6, <2>1 DEF Open, TypeInv, FactoryTypeOK, MainLoopOK, noticeVars
  <2>3. UNCHANGED << content, mtime, events, changes >>
    BY <1>6 DEF Open, diskVars
  <2> QED
    BY <1>0, <1>6, <2>2, <2>3, Kept DEF Open, TypeInv, FactoryTypeOK
<1>7. CASE Close(f)
  <2>1. NoBaulFile \in BaulFiles
    BY DEF NoBaulFile, NewFile, BaulFiles, Infos, NoInfo, Times, NoTime
  <2>2. (queue \in Seq(Files) /\ IsInjective(queue))'
    BY <1>7, RemoveKeeps DEF Close, RemoveFromQueue, TypeInv, FactoryTypeOK, QueueOK
  <2>3. QueueOK'
    BY <1>7, <2>2 DEF Close, TypeInv, FactoryTypeOK, QueueOK
  <2>4. changes \in Nat /\ changes' = changes + 1 /\ changes' \in 0 .. MaxChanges
    BY <1>7, ThumbnailsAssumption DEF Close, TypeInv, FactoryTypeOK, MainLoopOK
  <2>5. MainLoopOK'
    BY <1>7, <2>1, <2>4 DEF Close, TypeInv, FactoryTypeOK, MainLoopOK, noticeVars
  <2>6. Bounded'
    <3> SUFFICES ASSUME NEW g \in Files
                 PROVE  /\ content[g] <= changes + 1 /\ mtime[g] <= changes + 1 + 1
                        /\ events[g] <= changes + 1
      BY <1>7, <2>4 DEF Bounded, Close, diskVars
    <3>1. content[g] \in Nat /\ mtime[g] \in Nat /\ events[g] \in Nat
      BY DEF TypeInv, FactoryTypeOK, DiskOK, Contents, Times
    <3>2. content[g] <= changes /\ mtime[g] <= changes + 1 /\ events[g] <= changes
      BY DEF TypeInv, Bounded
    <3> QED
      BY <2>4, <3>1, <3>2
  <2> QED
    BY <1>0, <1>7, <2>3, <2>5, <2>6, Kept DEF Close, TypeInv, FactoryTypeOK
<1> QED
  BY <1>1, <1>2, <1>3, <1>4, <1>5, <1>6, <1>7 DEF MainLoop

LEMMA StartThreadTypes == ASSUME TypeInv, StartThread PROVE TypeInv'
<1>1. QueueOK' /\ MainLoopOK' /\ ThreadOK' /\ Working'
  BY DEF Working, StartThread, TypeInv, FactoryTypeOK, QueueOK, MainLoopOK, ThreadOK, noticeVars
<1>2. UNCHANGED << content, mtime, events, changes >>
  BY DEF StartThread, diskVars
<1> QED
  BY <1>1, <1>2, Kept DEF StartThread, TypeInv, FactoryTypeOK

LEMMA ThreadTypes == ASSUME TypeInv, Thread PROVE TypeInv'
<1>0. ASSUME ~TakeNext PROVE Working'
  BY <1>0 DEF Thread, SkipRecent, Generate, GenerateReturns, Save, Report, TypeInv, Working,
     queueVars
<1>1. CASE TakeNext
  <2>1. (queue \in Seq(Files) /\ IsInjective(queue))'
    BY <1>1, RemoveKeeps DEF TakeNext, TypeInv, FactoryTypeOK, QueueOK
  <2>2. queue' # << >> => Head(queue') \in Files
    BY <2>1
  <2>3. QueueOK'
    BY <1>1, <2>1, <2>2 DEF TakeNext, TypeInv, FactoryTypeOK, QueueOK
  <2>4. ThreadOK'
    BY <1>1, <2>2 DEF TakeNext, TypeInv, FactoryTypeOK, QueueOK, ThreadOK
  <2>5. UNCHANGED << content, mtime, events, changes >>
    BY <1>1 DEF TakeNext, diskVars
  <2>6. Working'
    BY <1>1, <2>2 DEF TakeNext, Working
  <2> QED
    BY <1>1, <2>3, <2>4, <2>5, <2>6, Kept DEF TakeNext, TypeInv, FactoryTypeOK
<1>2. ASSUME ~TakeNext, SkipRecent \/ Generate \/ Report PROVE TypeInv'
  <2>1. ThreadOK'
    BY <1>2 DEF SkipRecent, Generate, Report, TypeInv, FactoryTypeOK, ThreadOK
  <2>2. timers' \in [Files -> Nat] /\ notices' \in [Files -> Nat]
    BY <1>2 DEF SkipRecent, Generate, Report, TypeInv, FactoryTypeOK, MainLoopOK, noticeVars
  <2>3. UNCHANGED << diskVars, file, queueVars, starter, changes >>
    BY <1>2 DEF SkipRecent, Generate, Report
  <2>4. MainLoopOK'
    BY <2>2, <2>3 DEF TypeInv, FactoryTypeOK, MainLoopOK
  <2>5. UNCHANGED << content, mtime, events, changes >>
    BY <2>3 DEF diskVars
  <2> QED
    BY <1>0, <1>2, <2>1, <2>3, <2>4, <2>5, Kept DEF TypeInv, FactoryTypeOK
<1>3. ASSUME ~TakeNext, GenerateReturns PROVE TypeInv'
  <2>1. current \in Files /\ content[current] \in Contents
    BY <1>3 DEF GenerateReturns, TypeInv, FactoryTypeOK, DiskOK, Working
  <2>2. ThreadOK' /\ DiskOK'
    <3>1. CASE current \in Broken
      BY <1>3, <3>1, ThumbnailsAssumption
      DEF GenerateReturns, TypeInv, FactoryTypeOK, ThreadOK, DiskOK
    <3>2. CASE current \notin Broken
      BY <1>3, <2>1, <3>2 DEF GenerateReturns, TypeInv, FactoryTypeOK, ThreadOK, DiskOK, QueueOK
    <3> QED
      BY <3>1, <3>2
  <2> QED
    BY <1>0, <1>3, <2>2, Kept DEF GenerateReturns, TypeInv, FactoryTypeOK
<1>4. ASSUME ~TakeNext, Save PROVE TypeInv'
  <2>1. ThreadOK'
    BY <1>4, ThumbnailsAssumption DEF Save, TypeInv, FactoryTypeOK, ThreadOK, Contents
  <2>2. [label |-> origMtime, shows |-> pixbuf]
          \in [label : Times \cup {NoTime}, shows : Contents]
    BY DEF TypeInv, FactoryTypeOK, ThreadOK
  <2>3. DiskOK'
    BY <1>4, <2>2 DEF Save, TypeInv, FactoryTypeOK, DiskOK
  <2> QED
    BY <1>0, <1>4, <2>1, <2>3, Kept DEF Save, TypeInv, FactoryTypeOK
<1> QED
  BY <1>1, <1>2, <1>3, <1>4 DEF Thread

LEMMA NextTypes == TypeInv /\ [FactoryNext]_factoryVars => TypeInv'
<1> SUFFICES ASSUME TypeInv, [FactoryNext]_factoryVars PROVE TypeInv'
  OBVIOUS
<1>1. CASE UNCHANGED factoryVars
  BY <1>1, Kept DEF factoryVars, diskVars, queueVars, threadVars, TypeInv, FactoryTypeOK
<1>2. CASE FactoryNext
  BY <1>2, ThumbnailsAssumption, TickTypes, WriteTypes, MainLoopTypes, StartThreadTypes,
     ThreadTypes DEF FactoryNext
<1> QED
  BY <1>1, <1>2

\* Every reachable state has the declared types; in particular no file is on
\* the queue twice.
THEOREM TypeCorrect == FactorySpec => []FactoryTypeOK
<1>1. TypeInv => FactoryTypeOK
  BY DEF TypeInv
<1> QED
  BY <1>1, TypeInit, NextTypes, PTL DEF FactorySpec

-----------------------------------------------------------------------------
(***************************************************************************)
(* The thread and the queue.                                               *)
(***************************************************************************)

LEMMA ThreadInit == FactoryInit => OneWorker
BY DEF FactoryInit, OneWorker, OneThread, ThreadOwnsItsEntry, NoStrandedRequest

LEMMA MemberOfQueue ==
  ASSUME NEW s \in Seq(Files), NEW e, Contains(s, e)
  PROVE  s # << >>
BY DEF Contains

\* A file drawn is put on the queue: a thread is there, or is started.
LEMMA DrawThread ==
  ASSUME FactoryTypeOK, OneWorker, NEW f \in Files, Draw(f)
  PROVE  OneWorker'
<1>1. CASE ~WantsThumbnail(f)
  BY <1>1 DEF Draw, OneWorker, OneThread, ThreadOwnsItsEntry, NoStrandedRequest, Queued,
     queueVars, threadVars
<1>2. CASE WantsThumbnail(f)
  <2>1. /\ queue' = IF Queued(f) THEN queue ELSE Append(queue, f)
        /\ starter' = (starter \/ (~Queued(f) /\ ~running))
        /\ UNCHANGED << current, running, pc >>
    BY <1>2 DEF Draw, AddToQueue, threadVars
  <2>2. \A g \in Files : Contains(queue, g) => Contains(queue', g)
    BY <2>1, AppendKeeps DEF FactoryTypeOK, QueueOK, Queued
  <2>3. current \in Files \cup {NoFile}
    BY DEF FactoryTypeOK, QueueOK
  <2>4. Queued(f) => queue # << >>
    BY MemberOfQueue DEF Queued, FactoryTypeOK, QueueOK
  <2>5. OneThread'
    BY <2>1 DEF OneWorker, OneThread
  <2>6. ThreadOwnsItsEntry'
    BY <2>1, <2>2, <2>3 DEF OneWorker, ThreadOwnsItsEntry, Queued
  <2>7. NoStrandedRequest'
    BY <2>1, <2>4 DEF OneWorker, OneThread, NoStrandedRequest
  <2> QED
    BY <2>5, <2>6, <2>7 DEF OneWorker
<1> QED
  BY <1>1, <1>2

\* The entry the thread works on is neither removed nor moved.
LEMMA QueueEdited ==
  ASSUME FactoryTypeOK, OneWorker, NEW f \in Files, Prioritize(f) \/ Close(f)
  PROVE  OneWorker'
<1>1. UNCHANGED << current, running, starter, pc >>
  BY DEF Prioritize, Close, threadVars
<1>2. queue \in Seq(Files) /\ IsInjective(queue) /\ current \in Files \cup {NoFile}
  BY DEF FactoryTypeOK, QueueOK
<1>3. current # NoFile => Contains(queue, current)
  BY DEF OneWorker, ThreadOwnsItsEntry, Queued
<1>4. current # NoFile => Contains(queue', current)
  <2>1. CASE Prioritize(f)
    BY <1>2, <1>3, <2>1, FrontKeeps DEF Prioritize, Queued
  <2>2. CASE Close(f)
    BY <1>2, <1>3, <2>2, RemoveKeeps, ZenonT(60) DEF Close, RemoveFromQueue
  <2> QED
    BY <2>1, <2>2
<1>5. queue' # << >> => queue # << >>
  <2>1. CASE Prioritize(f)
    BY <1>2, <2>1, MemberOfQueue DEF Prioritize, Queued
  <2>2. CASE Close(f)
    BY <1>2, <2>2, RemoveKeeps DEF Close, RemoveFromQueue
  <2> QED
    BY <2>1, <2>2
<1> QED
  BY <1>1, <1>4, <1>5
  DEF OneWorker, OneThread, ThreadOwnsItsEntry, NoStrandedRequest, Queued

\* The thread takes the next entry and leaves it on the queue, or ends because
\* there is none.
LEMMA TakeNextThread ==
  ASSUME FactoryTypeOK, OneWorker, TakeNext
  PROVE  OneWorker'
<1>1. queue' \in Seq(Files)
  BY RemoveKeeps DEF TakeNext, FactoryTypeOK, QueueOK
<1>2. CASE queue' = << >>
  <2>1. running' = FALSE /\ current' = NoFile /\ pc' = "none" /\ starter' = starter
    BY <1>2 DEF TakeNext
  <2> QED
    BY <1>2, <2>1 DEF OneWorker, OneThread, ThreadOwnsItsEntry, NoStrandedRequest
<1>3. CASE queue' # << >>
  <2>1. current' = Head(queue') /\ pc' = "check" /\ running' = running /\ starter' = starter
        /\ pc = "lock"
    BY <1>3 DEF TakeNext
  <2>2. current' \in Files /\ Contains(queue', current')
    BY <1>1, <1>3, <2>1 DEF Contains
  <2> QED
    BY <2>1, <2>2, ThumbnailsAssumption
    DEF OneWorker, OneThread, ThreadOwnsItsEntry, NoStrandedRequest, Queued
<1> QED
  BY <1>2, <1>3

LEMMA NextThread == FactoryTypeOK /\ OneWorker /\ [FactoryNext]_factoryVars => OneWorker'
<1> SUFFICES ASSUME FactoryTypeOK, OneWorker, [FactoryNext]_factoryVars PROVE OneWorker'
  OBVIOUS
<1> USE DEF OneWorker, OneThread, ThreadOwnsItsEntry, NoStrandedRequest, Queued
<1>1. ASSUME UNCHANGED << queue, current, running, starter, pc >> PROVE OneWorker'
  BY <1>1
<1>2. CASE UNCHANGED factoryVars
  BY <1>1, <1>2 DEF factoryVars, queueVars, threadVars
<1>3. CASE Tick
  BY <1>1, <1>3 DEF Tick, queueVars, threadVars
<1>4. ASSUME NEW f \in Files, Write(f) \/ Open(f) PROVE OneWorker'
  BY <1>1, <1>4 DEF Write, Open, queueVars, threadVars
<1>5. ASSUME NEW f \in Files,
             \/ QueryInfo(f) \/ InfoArrives(f) \/ LoadThumbnail(f) \/ ThumbnailArrives(f)
             \/ FileChanged(f) \/ Notify(f)
      PROVE  OneWorker'
  BY <1>1, <1>5 DEF QueryInfo, InfoArrives, LoadThumbnail, ThumbnailArrives, FileChanged, Notify, queueVars, threadVars
<1>6. CASE StartThread
  BY <1>6 DEF StartThread
<1>7. CASE SkipRecent \/ Generate \/ GenerateReturns \/ Save \/ Report
  <2>1. UNCHANGED << queue, current, running, starter >>
    BY <1>7 DEF SkipRecent, Generate, GenerateReturns, Save, Report, queueVars
  <2>2. pc \notin {"none", "lock"} /\ pc' # "none"
    BY <1>7 DEF SkipRecent, Generate, GenerateReturns, Save, Report
  <2> QED
    BY <2>1, <2>2
<1> QED
  BY <1>2, <1>3, <1>4, <1>5, <1>6, <1>7, DrawThread, QueueEdited, TakeNextThread,
     ThumbnailsAssumption DEF FactoryNext, MainLoop, Thread

\* There is at most one thread, since the idle function that starts it is
\* scheduled only while there is none and thumbnail_thread_is_running is exact;
\* the entry it works on stays on the queue, whatever the main loop removes or
\* moves to the front; and no file stays on the queue while no thread runs and
\* none is about to start.
THEOREM OneWorkerAtATime == FactorySpec => []OneWorker
BY TypeCorrect, ThreadInit, NextThread, PTL DEF FactorySpec

-----------------------------------------------------------------------------
(***************************************************************************)
(* Thumbnails on disk.  The delay is what makes their labels true: once a  *)
(* modification time is a second old, no later write can have it.          *)
(***************************************************************************)

\* No modification time that is passed on is newer than the file, and what is
\* on the queue has one.
KnownTimes ==
  \A f \in Files :
    /\ request[f] <= mtime[f] /\ file[f].mtime <= mtime[f] /\ file[f].info.mtime <= mtime[f]
    /\ Queued(f) => request[f] # NoTime

\* A label that is the file's present modification time is older than the
\* delay, and the file was not written to since.
DiskLabels ==
  \A f \in Files :
    /\ thumb[f].label <= mtime[f]
    /\ thumb[f].label = mtime[f] =>
         thumb[f].shows = content[f] /\ age[f][mtime[f]] = Delay

\* The same of the thumbnail being made.
ThreadLabel ==
  /\ pc \in {"check", "generate", "save"} =>
       origMtime # NoTime /\ origMtime <= mtime[current]
  /\ pc \in {"generate", "save"} => age[current][origMtime] = Delay
  /\ pc = "save" /\ origMtime = mtime[current] => pixbuf = content[current]

LabelInv == KnownTimes /\ DiskLabels /\ ThreadLabel

LEMMA LabelInit == FactoryInit => LabelInv
BY DEF FactoryInit, LabelInv, KnownTimes, DiskLabels, ThreadLabel, NoThumb, NewFile, NoInfo, NoTime, Queued,
   Contains

LEMMA LabelTypes ==
  ASSUME FactoryTypeOK
  PROVE  /\ Delay \in Nat /\ Delay # 0 /\ origMtime \in Nat
         /\ \A f \in Files :
              /\ mtime[f] \in Times /\ mtime[f] \in Nat /\ mtime[f] # 0
              /\ request[f] \in Nat /\ file[f].mtime \in Nat /\ thumb[f].label \in Nat
              /\ file[f].info.mtime \in Nat
              /\ age[f] \in [Times -> 0 .. Delay]
<1>1. Delay \in Nat /\ Delay # 0
  BY ThumbnailsAssumption
<1>2. \A t \in Times \cup {NoTime} : t \in Nat
  BY ThumbnailsAssumption DEF Times, NoTime
<1>3. origMtime \in Nat
  BY <1>2 DEF FactoryTypeOK, ThreadOK
<1>4. ASSUME NEW f \in Files
      PROVE  /\ mtime[f] \in Times /\ mtime[f] \in Nat /\ mtime[f] # 0
             /\ request[f] \in Nat /\ file[f].mtime \in Nat /\ thumb[f].label \in Nat
             /\ file[f].info.mtime \in Nat
             /\ age[f] \in [Times -> 0 .. Delay]
  <2>1. mtime[f] \in Times /\ age[f] \in [Times -> 0 .. Delay]
        /\ thumb[f].label \in Times \cup {NoTime}
    BY DEF FactoryTypeOK, DiskOK
  <2>2. request[f] \in Times \cup {NoTime}
    BY DEF FactoryTypeOK, QueueOK
  <2>3. file[f].mtime \in Times \cup {NoTime} /\ file[f].info.mtime \in Times \cup {NoTime}
    BY DEF FactoryTypeOK, MainLoopOK, BaulFiles, Infos
  <2>4. mtime[f] # 0
    BY <2>1 DEF Times
  <2> QED
    BY <1>2, <2>1, <2>2, <2>3, <2>4
<1> QED
  BY <1>1, <1>3, <1>4

LEMMA LabelTick == ASSUME TypeInv, LabelInv, Tick PROVE LabelInv'
<1>1. UNCHANGED << content, mtime, thumb, file, queue, request, current, pc, origMtime, pixbuf >>
  BY DEF Tick, queueVars, threadVars
<1>2. \A f \in Files, t \in Times : age[f][t] = Delay => age'[f][t] = Delay
  BY ThumbnailsAssumption DEF Tick
<1>3. KnownTimes'
  BY <1>1 DEF LabelInv, KnownTimes, Queued
<1>4. DiskLabels'
  BY <1>1, <1>2, LabelTypes DEF LabelInv, DiskLabels, TypeInv
<1>5. ThreadLabel'
  <2>1. pc \in {"generate", "save"} => current \in Files /\ origMtime \in Times
    BY DEF TypeInv, Working, FactoryTypeOK, ThreadOK, LabelInv, ThreadLabel
  <2> QED
    BY <1>1, <1>2, <2>1 DEF LabelInv, ThreadLabel
<1> QED
  BY <1>3, <1>4, <1>5 DEF LabelInv

\* A write either gets a new modification time, or falls within the second of
\* the last one, of which there is no thumbnail yet, nor one being made.
LEMMA LabelWrite == ASSUME TypeInv, LabelInv, NEW f \in Files, Write(f) PROVE LabelInv'
<1>1. UNCHANGED << age, thumb, file, queue, request, current, pc, origMtime, pixbuf >>
  BY DEF Write, queueVars, threadVars
<1>2. \A g \in Files : g # f => content'[g] = content[g] /\ mtime'[g] = mtime[g]
  BY DEF Write, TypeInv, FactoryTypeOK, DiskOK
<1>3. \/ mtime'[f] = mtime[f] /\ age[f][mtime[f]] = 0
      \/ mtime'[f] = mtime[f] + 1
  BY DEF Write, TypeInv, FactoryTypeOK, DiskOK
<1>4. \A g \in Files : mtime[g] <= mtime'[g]
  BY <1>2, <1>3, LabelTypes DEF TypeInv
<1>5. \A g \in Files : mtime'[g] \in Nat
  BY <1>2, <1>3, LabelTypes DEF TypeInv
<1>6. KnownTimes'
  BY <1>1, <1>4, <1>5, LabelTypes DEF LabelInv, KnownTimes, Queued, TypeInv
<1>7. DiskLabels'
  <2> SUFFICES ASSUME NEW g \in Files
               PROVE  /\ thumb[g].label <= mtime'[g]
                      /\ thumb[g].label = mtime'[g] =>
                           thumb[g].shows = content'[g] /\ age[g][mtime'[g]] = Delay
    BY <1>1 DEF DiskLabels
  <2>1. CASE g # f
    BY <1>2, <2>1 DEF LabelInv, DiskLabels
  <2>2. CASE g = f
    <3>1. thumb[f].label <= mtime[f] /\ (thumb[f].label = mtime[f] => age[f][mtime[f]] = Delay)
      BY DEF LabelInv, DiskLabels
    <3> QED
      BY <1>3, <2>2, <3>1, LabelTypes DEF TypeInv
  <2> QED
    BY <2>1, <2>2
<1>8. ThreadLabel'
  <2>1. CASE pc \notin {"check", "generate", "save"}
    BY <1>1, <2>1 DEF ThreadLabel
  <2>2. CASE pc \in {"check", "generate", "save"}
    <3>1. current \in Files /\ origMtime <= mtime[current] /\ origMtime # NoTime
      BY <2>2 DEF TypeInv, Working, LabelInv, ThreadLabel
    <3>2. origMtime <= mtime'[current]
      BY <1>4, <1>5, <3>1, LabelTypes DEF TypeInv
    <3>3. pc \in {"generate", "save"} => age[current][origMtime] = Delay
      BY DEF LabelInv, ThreadLabel
    <3>4. ASSUME pc = "save", origMtime = mtime'[current] PROVE pixbuf = content'[current]
      <4>1. CASE current # f
        BY <1>2, <3>1, <3>4, <4>1 DEF LabelInv, ThreadLabel
      <4>2. CASE current = f
        BY <1>3, <3>1, <3>3, <3>4, <4>2, LabelTypes DEF TypeInv
      <4> QED
        BY <4>1, <4>2
    <3> QED
      BY <1>1, <3>1, <3>2, <3>3, <3>4 DEF ThreadLabel
  <2> QED
    BY <2>1, <2>2
<1> QED
  BY <1>6, <1>7, <1>8 DEF LabelInv

\* The main loop passes on times it has read.
LEMMA LabelMainLoop ==
  ASSUME TypeInv, LabelInv, NEW f \in Files,
         MainLoop(f) \/ Prioritize(f) \/ Open(f) \/ Close(f)
  PROVE  LabelInv'
<1>1. UNCHANGED << content, mtime, age, thumb, current, origMtime, pixbuf >>
  BY DEF MainLoop, Draw, AddToQueue, QueryInfo, InfoArrives, LoadThumbnail, ThumbnailArrives, FileChanged, Notify, Prioritize,
     Open, Close, diskVars, queueVars, threadVars
<1>2. pc' = pc
  BY DEF MainLoop, Draw, QueryInfo, InfoArrives, LoadThumbnail, ThumbnailArrives, FileChanged, Notify, Prioritize,
     Open, Close, threadVars
<1>3. DiskLabels'
  BY <1>1 DEF LabelInv, DiskLabels
<1>4. ThreadLabel'
  BY <1>1, <1>2 DEF LabelInv, ThreadLabel
<1>5. ASSUME NEW g \in Files
      PROVE  file'[g].mtime <= mtime[g] /\ file'[g].info.mtime <= mtime[g]
  <2>1. /\ file[g].mtime <= mtime[g] /\ file[g].info.mtime <= mtime[g]
        /\ mtime[g] <= mtime[g] /\ 0 <= mtime[g]
    BY LabelTypes DEF LabelInv, KnownTimes, TypeInv
  <2>2. /\ file[g] \in BaulFiles /\ file[f] \in BaulFiles /\ file \in [Files -> BaulFiles]
        /\ file[f].info \in Infos /\ file[g].info \in Infos
    BY DEF TypeInv, FactoryTypeOK, MainLoopOK, BaulFiles
  <2>3. CASE Draw(f) \/ LoadThumbnail(f) \/ ThumbnailArrives(f) \/ FileChanged(f) \/ Notify(f)
    <3>1. file'[g].mtime = file[g].mtime /\ file'[g].info.mtime \in {file[g].info.mtime, 0}
      <4>1. CASE Draw(f)
        BY <2>2, <4>1 DEF Draw, BaulFiles
      <4>2. CASE LoadThumbnail(f)
        BY <2>2, <4>2 DEF LoadThumbnail, BaulFiles
      <4>3. CASE ThumbnailArrives(f)
        BY <2>2, <4>3 DEF ThumbnailArrives, BaulFiles
      <4>4. CASE FileChanged(f)
        BY <2>2, <4>4 DEF FileChanged, BaulFiles, Infos
      <4>5. CASE Notify(f)
        BY <2>2, <4>5 DEF Notify, BaulFiles, NoInfo, NoTime
      <4> QED
        BY <2>3, <4>1, <4>2, <4>3, <4>4, <4>5
    <3> QED
      BY <2>1, <3>1
  <2>4. CASE QueryInfo(f) \/ InfoArrives(f)
    <3>1. CASE QueryInfo(f)
      <4>1. file'[g].mtime = file[g].mtime /\ file'[g].info.mtime \in {file[g].info.mtime, mtime[g]}
        BY <2>2, <3>1 DEF QueryInfo, BaulFiles
      <4> QED
        BY <2>1, <4>1
    <3>2. CASE InfoArrives(f)
      <4>1. /\ file'[g].mtime \in {file[g].mtime, file[g].info.mtime}
            /\ file'[g].info.mtime \in {file[g].info.mtime, 0}
        BY <2>2, <3>2 DEF InfoArrives, BaulFiles, NoInfo, NoTime
      <4> QED
        BY <2>1, <4>1
    <3> QED
      BY <2>4, <3>1, <3>2
  <2>5. CASE Open(f) \/ Close(f)
    <3>1. file'[g].mtime \in {file[g].mtime, 0} /\ file'[g].info.mtime \in {file[g].info.mtime, 0}
      BY <2>2, <2>5 DEF Open, Close, NewFile, NoBaulFile, NoInfo, NoTime
    <3> QED
      BY <2>1, <3>1
  <2>6. CASE Prioritize(f)
    BY <2>1, <2>6 DEF Prioritize
  <2> QED
    BY <2>3, <2>4, <2>5, <2>6 DEF MainLoop
<1>6. ASSUME NEW g \in Files
      PROVE  request'[g] <= mtime[g] /\ (Contains(queue', g) => request'[g] # NoTime)
  <2>1. request[g] <= mtime[g] /\ file[g].mtime <= mtime[g] /\ mtime[g] <= mtime[g]
        /\ (Contains(queue, g) => request[g] # NoTime)
    BY LabelTypes DEF LabelInv, KnownTimes, Queued, TypeInv
  <2>2. queue \in Seq(Files) /\ IsInjective(queue) /\ request \in [Files -> Times \cup {NoTime}]
    BY DEF TypeInv, FactoryTypeOK, QueueOK
  <2>3. CASE UNCHANGED << queue, request >>
    BY <2>1, <2>3
  <2>4. CASE Draw(f) /\ WantsThumbnail(f)
    <3>1. /\ queue' = IF Queued(f) THEN queue ELSE Append(queue, f)
          /\ request' = [request EXCEPT ![f] = IF file[f].infoOk THEN file[f].mtime ELSE mtime[f]]
          /\ file[f].mtime # NoTime /\ mtime[f] # NoTime
      BY <2>4, LabelTypes DEF Draw, AddToQueue, WantsThumbnail, NoTime, TypeInv
    <3>2. Contains(queue', g) => g = f \/ Contains(queue, g)
      BY <2>2, <3>1, AppendKeeps DEF Queued
    <3> QED
      BY <2>1, <2>2, <3>1, <3>2
  <2>5. CASE Prioritize(f)
    BY <2>1, <2>2, <2>5, FrontKeeps DEF Prioritize, Queued
  <2>6. CASE Close(f)
    BY <2>1, <2>2, <2>6, RemoveKeeps, SMTT(30) DEF Close, RemoveFromQueue
  <2> QED
    BY <2>3, <2>4, <2>5, <2>6 DEF MainLoop, Draw, QueryInfo, InfoArrives, LoadThumbnail, ThumbnailArrives, FileChanged, Notify,
       Open, queueVars
<1>7. KnownTimes'
  BY <1>1, <1>5, <1>6 DEF KnownTimes, Queued
<1> QED
  BY <1>3, <1>4, <1>7 DEF LabelInv

LEMMA LabelThread == ASSUME TypeInv, LabelInv, Thread PROVE LabelInv'
<1>1. UNCHANGED << content, mtime, age, file, request >>
  BY DEF Thread, TakeNext, SkipRecent, Generate, GenerateReturns, Save, Report, diskVars,
     queueVars
<1>2. queue \in Seq(Files) /\ IsInjective(queue) /\ queue' \in Seq(Files)
      /\ current \in Files \cup {NoFile}
  BY ThreadTypes DEF TypeInv, FactoryTypeOK, QueueOK
<1>3. \A g \in Files : Contains(queue', g) => Contains(queue, g)
  BY <1>2, RemoveKeeps DEF Thread, TakeNext, SkipRecent, Generate, GenerateReturns, Save, Report,
     queueVars
<1>4. KnownTimes'
  BY <1>1, <1>3 DEF LabelInv, KnownTimes, Queued
<1>5. CASE TakeNext
  <2>1. DiskLabels'
    BY <1>5 DEF TakeNext, diskVars, LabelInv, DiskLabels
  <2>2. ThreadLabel'
    <3>1. CASE queue' = << >>
      BY <1>5, <3>1 DEF TakeNext, ThreadLabel
    <3>2. CASE queue' # << >>
      <4>1. current' = Head(queue') /\ origMtime' = request[current'] /\ pc' = "check"
        BY <1>5, <3>2 DEF TakeNext
      <4>2. current' \in Files /\ Contains(queue', current')
        BY <1>2, <3>2, <4>1 DEF Contains
      <4> QED
        BY <1>1, <1>4, <4>1, <4>2 DEF ThreadLabel, KnownTimes, Queued
    <3> QED
      BY <3>1, <3>2
  <2> QED
    BY <1>4, <2>1, <2>2 DEF LabelInv
<1>6. CASE SkipRecent \/ Report
  BY <1>4, <1>6 DEF SkipRecent, Report, diskVars, LabelInv, DiskLabels, ThreadLabel
<1>7. CASE Generate
  <2>1. age[current][origMtime] = Delay
    <3>1. current \in Files /\ origMtime \in Times
      BY <1>7 DEF Generate, TypeInv, Working, FactoryTypeOK, ThreadOK, LabelInv, ThreadLabel
    <3>2. age[current][origMtime] \in 0 .. Delay
      BY <3>1, LabelTypes DEF TypeInv
    <3>3. ~(age[current][origMtime] < Delay)
      BY <1>7 DEF Generate, Recent
    <3> QED
      BY <3>2, <3>3, LabelTypes DEF TypeInv
  <2> QED
    BY <1>4, <1>7, <2>1 DEF Generate, diskVars, queueVars, LabelInv, DiskLabels, ThreadLabel
<1>8. CASE GenerateReturns
  BY <1>4, <1>8 DEF GenerateReturns, queueVars, LabelInv, DiskLabels, ThreadLabel
<1>9. CASE Save
  <2>1. current \in Files /\ origMtime <= mtime[current] /\ age[current][origMtime] = Delay
        /\ (origMtime = mtime[current] => pixbuf = content[current])
    BY <1>9 DEF Save, TypeInv, Working, LabelInv, ThreadLabel
  <2>2. thumb' = [thumb EXCEPT ![current] = [label |-> origMtime, shows |-> pixbuf]]
        /\ pc' = "report"
    BY <1>9 DEF Save
  <2>3. DiskLabels'
    BY <1>1, <2>1, <2>2 DEF LabelInv, DiskLabels, TypeInv, FactoryTypeOK, DiskOK
  <2>4. ThreadLabel'
    BY <2>2 DEF ThreadLabel
  <2> QED
    BY <1>4, <2>3, <2>4 DEF LabelInv
<1> QED
  BY <1>5, <1>6, <1>7, <1>8, <1>9 DEF Thread

LEMMA NextLabel == TypeInv /\ LabelInv /\ [FactoryNext]_factoryVars => LabelInv'
<1> SUFFICES ASSUME TypeInv, LabelInv, [FactoryNext]_factoryVars PROVE LabelInv'
  OBVIOUS
<1>1. CASE UNCHANGED factoryVars
  BY <1>1 DEF factoryVars, diskVars, queueVars, threadVars, LabelInv, KnownTimes, DiskLabels,
     ThreadLabel, Queued
<1>2. CASE StartThread
  BY <1>2 DEF StartThread, diskVars, queueVars, LabelInv, KnownTimes, DiskLabels, ThreadLabel,
     Queued
<1>3. CASE FactoryNext
  BY <1>2, <1>3, ThumbnailsAssumption, LabelTick, LabelWrite, LabelMainLoop, LabelThread DEF FactoryNext
<1> QED
  BY <1>1, <1>3

\* A thumbnail on disk that claims the file's present modification time shows
\* what the file contains, whenever the file is written to: the thread never
\* saves a thumbnail of a second that may not be over.
THEOREM ThumbnailsAreCurrent == FactorySpec => []ThumbnailIsCurrent
<1>1. LabelInv => ThumbnailIsCurrent
  BY DEF LabelInv, DiskLabels, ThumbnailIsCurrent
<1> QED
  BY <1>1, TypeInit, NextTypes, LabelInit, NextLabel, PTL DEF FactorySpec

-----------------------------------------------------------------------------
(***************************************************************************)
(* The image a view shows.                                                 *)
(***************************************************************************)

\* What is known of a file is true as long as no change is to be reported, unless
\* its info was outrun; the same of the info on its way.
KnownIsTrue(f) ==
  /\ file[f].live /\ file[f].infoOk /\ events[f] = 0 /\ ~file[f].outrun =>
       file[f].mtime = mtime[f]
  /\ file[f].info # NoInfo /\ events[f] = 0 /\ ~file[f].info.outrun =>
       file[f].info.mtime = mtime[f]
\* The image that counts as up to date is of the time the file holds.
ShownFits(f) ==
  file[f].live /\ file[f].infoOk /\ file[f].thumbOk /\ file[f].shown # NoTime =>
    file[f].shown = file[f].mtime
ShownInv == \A f \in Files : ShownFits(f) /\ KnownIsTrue(f)

LEMMA ShownInit == FactoryInit => ShownInv
BY DEF FactoryInit, NewFile, ShownInv, ShownFits, KnownIsTrue

LEMMA ShownStep == TypeInv /\ ShownInv /\ [FactoryNext]_factoryVars => ShownInv'
<1> SUFFICES ASSUME TypeInv, ShownInv, [FactoryNext]_factoryVars PROVE ShownInv'
  OBVIOUS
<1>0. file \in [Files -> BaulFiles] /\ \A f \in Files : file[f] \in BaulFiles
      /\ mtime \in [Files -> Times] /\ events \in [Files -> Contents]
  BY DEF TypeInv, FactoryTypeOK, MainLoopOK, DiskOK
<1>1. ASSUME UNCHANGED << mtime, events, file >> PROVE ShownInv'
  BY <1>1 DEF ShownInv, ShownFits, KnownIsTrue
<1>2. CASE UNCHANGED factoryVars
  BY <1>1, <1>2 DEF factoryVars, diskVars
<1>3. CASE Tick \/ StartThread
  BY <1>1, <1>3 DEF Tick, StartThread, diskVars
<1>4. CASE Thread
  BY <1>1, <1>4 DEF Thread, TakeNext, SkipRecent, Generate, GenerateReturns, Save, Report, diskVars
<1>5. ASSUME NEW f \in Files, Prioritize(f) PROVE ShownInv'
  BY <1>1, <1>5 DEF Prioritize, diskVars
<1>6. ASSUME NEW f \in Files, Write(f) PROVE ShownInv'
  <2>1. file' = file /\ \A g \in Files \ {f} : mtime'[g] = mtime[g] /\ events'[g] = events[g]
    BY <1>0, <1>6 DEF Write
  <2>2. events'[f] # 0
    BY <1>0, <1>6, ThumbnailsAssumption DEF Write, Contents
  <2> QED
    BY <2>1, <2>2 DEF ShownInv, ShownFits, KnownIsTrue
\* For the other steps it is enough to look at the one file.
<1>7. ASSUME NEW f \in Files, mtime' = mtime,
             \A g \in Files \ {f} : events'[g] = events[g] /\ file'[g] = file[g],
             ShownFits(f)', KnownIsTrue(f)'
      PROVE  ShownInv'
  <2>1. \A g \in Files \ {f} : ShownFits(g)' /\ KnownIsTrue(g)'
    BY <1>7 DEF ShownInv, ShownFits, KnownIsTrue
  <2> QED
    BY <1>7, <2>1 DEF ShownInv
<1>8. ASSUME NEW f \in Files PROVE ShownFits(f) /\ KnownIsTrue(f)
  BY DEF ShownInv
<1>9. ASSUME NEW f \in Files, Notify(f) \/ Open(f) \/ Close(f) PROVE ShownInv'
  <2>1. mtime' = mtime /\ \A g \in Files \ {f} : events'[g] = events[g] /\ file'[g] = file[g]
    BY <1>0, <1>9 DEF Notify, Open, Close, diskVars
  <2>2. \/ file'[f] = file[f] /\ events'[f] = events[f]
        \/ (~file'[f].live \/ ~file'[f].infoOk) /\ file'[f].info = NoInfo
    <3>1. CASE Notify(f)
      BY <1>0, <3>1 DEF Notify, BaulFiles, diskVars
    <3>2. CASE Open(f) \/ Close(f)
      BY <1>0, <3>2 DEF Open, Close, NewFile, NoBaulFile
    <3> QED
      BY <1>9, <3>1, <3>2
  <2>3. ShownFits(f)' /\ KnownIsTrue(f)'
    BY <1>8, <2>1, <2>2 DEF ShownFits, KnownIsTrue
  <2> QED
    BY <1>7, <2>1, <2>3
<1>10. ASSUME NEW f \in Files, FileChanged(f) PROVE ShownInv'
  <2>1. mtime' = mtime /\ \A g \in Files \ {f} : events'[g] = events[g] /\ file'[g] = file[g]
    BY <1>0, <1>10 DEF FileChanged
  <2> DEFINE info == file[f].info
  <2>2. /\ ~file'[f].infoOk
        /\ file'[f].info = IF info # NoInfo /\ info.mtime # mtime[f]
                           THEN [info EXCEPT !.outrun = TRUE] ELSE info
    BY <1>0, <1>10 DEF FileChanged, BaulFiles
  <2>3. info \in Infos
    BY <1>0 DEF BaulFiles
  <2>4. file'[f].info # NoInfo /\ ~file'[f].info.outrun => file'[f].info.mtime = mtime[f]
    BY <2>2, <2>3 DEF Infos
  <2>5. ShownFits(f)' /\ KnownIsTrue(f)'
    BY <2>1, <2>2, <2>4 DEF ShownFits, KnownIsTrue
  <2> QED
    BY <1>7, <2>1, <2>5
<1>11. ASSUME NEW f \in Files, Draw(f) \/ LoadThumbnail(f) PROVE ShownInv'
  <2>1. mtime' = mtime /\ events' = events /\ \A g \in Files \ {f} : file'[g] = file[g]
    BY <1>0, <1>11 DEF Draw, LoadThumbnail, diskVars
  <2>2. /\ file'[f].live = file[f].live /\ file'[f].infoOk = file[f].infoOk
        /\ file'[f].mtime = file[f].mtime /\ file'[f].shown = file[f].shown
        /\ file'[f].thumbOk = file[f].thumbOk /\ file'[f].outrun = file[f].outrun
        /\ file'[f].info = file[f].info
    BY <1>0, <1>11 DEF Draw, LoadThumbnail, BaulFiles
  <2>3. ShownFits(f)' /\ KnownIsTrue(f)'
    BY <1>8, <2>1, <2>2 DEF ShownFits, KnownIsTrue
  <2> QED
    BY <1>7, <2>1, <2>3
<1>12. ASSUME NEW f \in Files, QueryInfo(f) PROVE ShownInv'
  <2>1. mtime' = mtime /\ events' = events /\ \A g \in Files \ {f} : file'[g] = file[g]
    BY <1>0, <1>12 DEF QueryInfo, diskVars
  <2>2. ~file'[f].infoOk /\ file'[f].info.mtime = mtime[f]
    BY <1>0, <1>12 DEF QueryInfo, BaulFiles
  <2>3. ShownFits(f)' /\ KnownIsTrue(f)'
    BY <2>1, <2>2 DEF ShownFits, KnownIsTrue
  <2> QED
    BY <1>7, <2>1, <2>3
<1>13. ASSUME NEW f \in Files, InfoArrives(f) PROVE ShownInv'
  <2>1. mtime' = mtime /\ events' = events /\ \A g \in Files \ {f} : file'[g] = file[g]
    BY <1>0, <1>13 DEF InfoArrives, diskVars
  <2>2. /\ file[f].info # NoInfo /\ file'[f].info = NoInfo
        /\ file'[f].mtime = file[f].info.mtime /\ file'[f].outrun = file[f].info.outrun
        /\ file'[f].shown = file[f].shown
        /\ file[f].shown # NoTime /\ file[f].shown # file[f].info.mtime => ~file'[f].thumbOk
    BY <1>0, <1>13 DEF InfoArrives, BaulFiles
  <2>3. ShownFits(f)' /\ KnownIsTrue(f)'
    BY <1>8, <2>1, <2>2 DEF ShownFits, KnownIsTrue
  <2> QED
    BY <1>7, <2>1, <2>3
<1>14. ASSUME NEW f \in Files, ThumbnailArrives(f) PROVE ShownInv'
  <2>1. mtime' = mtime /\ events' = events /\ \A g \in Files \ {f} : file'[g] = file[g]
    BY <1>0, <1>14 DEF ThumbnailArrives, diskVars
  <2>2. /\ file'[f].live = file[f].live /\ file'[f].infoOk = file[f].infoOk
        /\ file'[f].mtime = file[f].mtime /\ file'[f].outrun = file[f].outrun
        /\ file'[f].info = file[f].info
        /\ file'[f].shown \in {file[f].mtime, NoTime}
    BY <1>0, <1>14 DEF ThumbnailArrives, BaulFiles
  <2>3. ShownFits(f)' /\ KnownIsTrue(f)'
    BY <1>8, <2>1, <2>2 DEF ShownFits, KnownIsTrue
  <2> QED
    BY <1>7, <2>1, <2>3
<1> QED
  BY <1>2, <1>3, <1>4, <1>5, <1>6, <1>9, <1>10, <1>11, <1>12, <1>13, <1>14, ThumbnailsAssumption
  DEF FactoryNext, MainLoop

\* The image on screen is never of another time than the one the file holds,
\* unless it is about to be read again: query_info_callback drops an image of
\* another time, thumbnail_done takes none that does not have the file's.  And the
\* time the file holds is the real one once every change is reported, unless a
\* report came between the reading of the info and its delivery.
THEOREM ShownImagesAreCurrent == FactorySpec => []ShownIsCurrent
<1>1. ShownInv => ShownIsCurrent
  BY DEF ShownInv, ShownFits, KnownIsTrue, ShownIsCurrent
<1> QED
  BY <1>1, TypeInit, NextTypes, ShownInit, ShownStep, PTL DEF FactorySpec

-----------------------------------------------------------------------------
(***************************************************************************)
(* Requests.  What the thread is about to take off the queue it has        *)
(* reported, or it found that the file is still being written to; and it   *)
(* takes it before the second in which it did so is over.                  *)
(***************************************************************************)

Met(f) ==
  file[f].thumbnailing =>
    \/ notices[f] + timers[f] > 0
    \/ Queued(f) /\ ~Dismissed(f)
    \/ thumb[f].label = request[f]
    \/ f \in failedMark

\* The thumbnail the thread works on is made, or cannot be.
Made == thumb[current].label = origMtime \/ current \in failedMark
Reported ==
  /\ pc = "report" => Made
  /\ pc = "lock" /\ current # NoFile => timers[current] > 0 \/ Made

NoThreadNoFile == pc = "none" => current = NoFile
ClosedAsksNothing == \A f \in Files : ~file[f].live => ~file[f].thumbnailing

MetInv == (\A f \in Files : Met(f)) /\ Reported /\ NoThreadNoFile /\ ClosedAsksNothing

LEMMA MetInit == FactoryInit => MetInv
BY ThumbnailsAssumption
DEF FactoryInit, NewFile, MetInv, Met, Reported, NoThreadNoFile, ClosedAsksNothing

LEMMA MetTypes ==
  ASSUME TypeInv
  PROVE  /\ file \in [Files -> BaulFiles] /\ \A f \in Files : file[f] \in BaulFiles
         /\ queue \in Seq(Files) /\ IsInjective(queue) /\ current \in Files \cup {NoFile}
         /\ request \in [Files -> Times \cup {NoTime}]
         /\ notices \in [Files -> Nat] /\ timers \in [Files -> Nat]
         /\ thumb \in [Files -> [label : Times \cup {NoTime}, shows : Contents]]
         /\ NoFile \notin Files
BY ThumbnailsAssumption DEF TypeInv, FactoryTypeOK, DiskOK, QueueOK, MainLoopOK

\* The steps that touch neither the queue nor the thread
LEMMA MetElsewhere ==
  ASSUME TypeInv, MetInv,
         UNCHANGED << thumb, failedMark, queueVars, noticeVars, threadVars >>,
         \A f \in Files : /\ file'[f].thumbnailing => file[f].thumbnailing
                          /\ ~file'[f].live => ~file'[f].thumbnailing
  PROVE  MetInv'
BY DEF MetInv, Met, Reported, Made, NoThreadNoFile, ClosedAsksNothing, Queued,
   Dismissed, queueVars, noticeVars, threadVars

LEMMA MetTick == ASSUME TypeInv, MetInv, Tick PROVE MetInv'
<1>1. /\ pc # "lock"
      /\ UNCHANGED << file, thumb, failedMark, queueVars, threadVars >>
      /\ \A f \in Files : notices'[f] = notices[f] + timers[f] /\ timers'[f] = 0
  BY DEF Tick
<1>2. ASSUME NEW f \in Files PROVE Met(f)'
  <2>1. notices'[f] + timers'[f] = notices[f] + timers[f]
    BY <1>1, MetTypes
  <2> QED
    BY <1>1, <2>1 DEF MetInv, Met, Queued, Dismissed, queueVars, threadVars
<1>3. Reported' /\ NoThreadNoFile' /\ ClosedAsksNothing'
  BY <1>1 DEF MetInv, Reported, Made, NoThreadNoFile, ClosedAsksNothing, queueVars, threadVars
<1> QED
  BY <1>2, <1>3 DEF MetInv

\* A request is made, or made again, while the thread is done with the file: it
\* is dropped only if the report is on its way or has said all there is to say.
LEMMA MetDraw == ASSUME TypeInv, MetInv, NEW f \in Files, Draw(f) PROVE MetInv'
<1>1. CASE ~WantsThumbnail(f)
  <2>1. \A g \in Files : /\ file'[g].thumbnailing = file[g].thumbnailing
                         /\ file'[g].live = file[g].live
    BY <1>1, MetTypes DEF Draw, BaulFiles
  <2>2. UNCHANGED << thumb, failedMark, queueVars, noticeVars, threadVars >>
    BY <1>1 DEF Draw, diskVars
  <2>3. \A g \in Files : ~file'[g].live => ~file'[g].thumbnailing
    BY <2>1 DEF MetInv, ClosedAsksNothing
  <2> QED
    BY <2>1, <2>2, <2>3, MetElsewhere
<1>2. CASE WantsThumbnail(f)
  <2>1. /\ UNCHANGED << thumb, failedMark, noticeVars, threadVars, current >>
        /\ queue' = IF Queued(f) THEN queue ELSE Append(queue, f)
        /\ \A g \in Files \ {f} : request'[g] = request[g]
    BY <1>2, MetTypes DEF Draw, AddToQueue, diskVars
  <2>2. /\ \A g \in Files : file'[g].live = file[g].live
        /\ \A g \in Files \ {f} : file'[g] = file[g]
        /\ file[f].live
    BY <1>2, MetTypes DEF Draw, BaulFiles
  <2>3. \A g \in Files : Contains(queue, g) => Contains(queue', g)
    BY <2>1, MetTypes, AppendKeeps DEF Queued
  <2>4. Contains(queue', f)
    BY <2>1, MetTypes, AppendKeeps DEF Queued
  <2>5. Reported' /\ NoThreadNoFile' /\ ClosedAsksNothing'
    BY <2>1, <2>2 DEF MetInv, Reported, Made, NoThreadNoFile, ClosedAsksNothing, noticeVars,
       threadVars
  <2>6. ASSUME NEW g \in Files \ {f} PROVE Met(g)'
    BY <2>1, <2>2, <2>3 DEF MetInv, Met, Queued, Dismissed, noticeVars, threadVars
  <2>7. Met(f)'
    <3>1. CASE pc = "lock" /\ current = f /\ request'[f] = origMtime
      <4>1. timers[f] > 0 \/ thumb[f].label = request'[f] \/ f \in failedMark
        BY <3>1, MetTypes DEF MetInv, Reported, Made
      <4>2. timers[f] > 0 => notices[f] + timers[f] > 0
        BY MetTypes
      <4> QED
        BY <2>1, <4>1, <4>2 DEF Met, noticeVars
    <3>2. CASE ~(pc = "lock" /\ current = f /\ request'[f] = origMtime)
      BY <2>1, <2>4, <3>2 DEF Met, Queued, Dismissed, threadVars
    <3> QED
      BY <3>1, <3>2
  <2> QED
    BY <2>5, <2>6, <2>7 DEF MetInv
<1> QED
  BY <1>1, <1>2

\* The last report clears the mark that the file waits.
LEMMA MetNotify == ASSUME TypeInv, MetInv, NEW f \in Files, Notify(f) PROVE MetInv'
<1>1. /\ UNCHANGED << thumb, failedMark, queueVars, timers, threadVars >>
      /\ \A g \in Files \ {f} : notices'[g] = notices[g] /\ file'[g] = file[g]
  BY MetTypes DEF Notify, diskVars
<1>2. ~file'[f].thumbnailing /\ file'[f].live = file[f].live
  BY MetTypes DEF Notify, BaulFiles, MetInv, ClosedAsksNothing
<1>3. \A g \in Files \ {f} : Met(g)'
  BY <1>1 DEF MetInv, Met, Queued, Dismissed, queueVars, threadVars
<1>4. Met(f)'
  BY <1>2 DEF Met
<1>5. Reported' /\ NoThreadNoFile' /\ ClosedAsksNothing'
  BY <1>1, <1>2 DEF MetInv, Reported, Made, NoThreadNoFile, ClosedAsksNothing, queueVars,
     threadVars
<1> QED
  BY <1>3, <1>4, <1>5 DEF MetInv

\* Only the request of a file that is closed is taken off the queue.
LEMMA MetEdited ==
  ASSUME TypeInv, MetInv, NEW f \in Files, Prioritize(f) \/ Close(f)
  PROVE  MetInv'
<1>1. UNCHANGED << thumb, failedMark, noticeVars, threadVars, request, current >>
  BY DEF Prioritize, Close, diskVars
<1>2. \A g \in Files \ {f} : file'[g] = file[g] /\ (Contains(queue, g) => Contains(queue', g))
  <2>1. CASE Prioritize(f)
    BY <2>1, MetTypes, FrontKeeps DEF Prioritize, Queued
  <2>2. CASE Close(f)
    <3>1. queue' \in {queue, RemoveFirst(queue, f)} /\ \A g \in Files \ {f} : file'[g] = file[g]
      BY <2>2, MetTypes DEF Close, RemoveFromQueue
    <3>2. \A g \in Files : Contains(RemoveFirst(queue, f), g) <=> g # f /\ Contains(queue, g)
      BY MetTypes, RemoveKeeps
    <3> QED
      BY <3>1, <3>2
  <2> QED
    BY <2>1, <2>2
<1>3. \A g \in Files \ {f} : Met(g)'
  BY <1>1, <1>2 DEF MetInv, Met, Queued, Dismissed, noticeVars, threadVars
<1>4. Met(f)' /\ (~file'[f].live => ~file'[f].thumbnailing)
  <2>1. CASE Prioritize(f)
    <3>1. file' = file /\ (Contains(queue, f) => Contains(queue', f))
      BY <2>1, MetTypes, FrontKeeps DEF Prioritize, Queued
    <3> QED
      BY <1>1, <3>1 DEF MetInv, Met, ClosedAsksNothing, Queued, Dismissed, noticeVars, threadVars
  <2>2. CASE Close(f)
    <3>1. ~file'[f].thumbnailing
      BY <2>2, MetTypes DEF Close, NoBaulFile, NewFile
    <3> QED
      BY <3>1 DEF Met
  <2> QED
    BY <2>1, <2>2
<1>5. Reported' /\ NoThreadNoFile' /\ ClosedAsksNothing'
  BY <1>1, <1>2, <1>4 DEF MetInv, Reported, Made, NoThreadNoFile, ClosedAsksNothing, noticeVars,
     threadVars
<1> QED
  BY <1>3, <1>4, <1>5 DEF MetInv

\* The thread takes an entry off the queue only if its request is met.
LEMMA MetTakeNext == ASSUME TypeInv, MetInv, TakeNext PROVE MetInv'
<1>1. /\ pc = "lock" /\ UNCHANGED << file, thumb, failedMark, noticeVars, request >>
      /\ pc' \in {"none", "check"} /\ (pc' = "none" => current' = NoFile)
  BY DEF TakeNext, diskVars
<1>2. ASSUME NEW f \in Files, Contains(queue, f), ~Dismissed(f) PROVE Contains(queue', f)
  <2>1. current = f => request[current] # origMtime
    BY <1>1, <1>2 DEF Dismissed
  <2> QED
    BY <1>2, <2>1, MetTypes, RemoveKeeps DEF TakeNext
<1>3. ASSUME NEW f \in Files PROVE Met(f)'
  <2>1. Met(f) /\ (Queued(f) /\ ~Dismissed(f) => Queued(f)')
    BY <1>2 DEF MetInv, Queued
  <2>2. ~Dismissed(f)'
    BY <1>1 DEF Dismissed
  <2> QED
    BY <1>1, <2>1, <2>2 DEF Met, noticeVars
<1>4. Reported' /\ NoThreadNoFile' /\ ClosedAsksNothing'
  BY <1>1 DEF MetInv, Reported, NoThreadNoFile, ClosedAsksNothing
<1> QED
  BY <1>3, <1>4 DEF MetInv

\* While the thread works on an entry, that is on the queue.
LEMMA MetAtWork ==
  ASSUME TypeInv, OneWorker, MetInv,
         SkipRecent \/ Generate \/ GenerateReturns \/ Save \/ Report
  PROVE  MetInv'
<1>1. /\ pc \notin {"none", "lock"} /\ pc' # "none"
      /\ UNCHANGED << file, queueVars, origMtime >>
  BY DEF SkipRecent, Generate, GenerateReturns, Save, Report
<1>2. current \in Files /\ Queued(current)
  BY <1>1 DEF TypeInv, Working, OneWorker, ThreadOwnsItsEntry
<1>3. /\ failedMark \subseteq failedMark'
      /\ \A f \in Files \ {current} : /\ thumb'[f] = thumb[f]
                                      /\ notices'[f] = notices[f] /\ timers'[f] = timers[f]
  <2>1. CASE SkipRecent
    BY <1>2, <2>1, MetTypes DEF SkipRecent, diskVars
  <2>2. CASE Generate
    BY <2>2 DEF Generate, diskVars, noticeVars
  <2>3. CASE GenerateReturns
    BY <2>3 DEF GenerateReturns, noticeVars
  <2>4. CASE Save
    BY <1>2, <2>4, MetTypes DEF Save, noticeVars
  <2>5. CASE Report
    BY <1>2, <2>5, MetTypes DEF Report, diskVars
  <2> QED
    BY <2>1, <2>2, <2>3, <2>4, <2>5
<1>4. pc' = "lock" => notices'[current] + timers'[current] > 0
  <2>1. CASE SkipRecent
    BY <1>2, <2>1, MetTypes DEF SkipRecent
  <2>2. CASE Report
    BY <1>2, <2>2, MetTypes DEF Report
  <2> QED
    BY <2>1, <2>2 DEF Generate, GenerateReturns, Save
<1>5. ASSUME NEW f \in Files \ {current} PROVE Met(f)'
  <2>1. ~Dismissed(f)'
    BY <1>1 DEF Dismissed, queueVars
  <2> QED
    BY <1>1, <1>3, <2>1 DEF MetInv, Met, Queued, queueVars
<1>6. ASSUME NEW f \in {current} PROVE Met(f)'
  <2>1. current' = current /\ queue' = queue /\ f = current
    BY <1>1 DEF queueVars
  <2>2. CASE pc' = "lock"
    BY <1>4, <2>1, <2>2 DEF Met
  <2>3. CASE pc' # "lock"
    BY <1>2, <2>1, <2>3 DEF Met, Queued, Dismissed
  <2> QED
    BY <2>2, <2>3
<1>7. \A f \in Files : Met(f)'
  BY <1>5, <1>6
<1>8. Reported'
  <2>1. CASE SkipRecent
    BY <1>2, <2>1, MetTypes DEF SkipRecent, Reported, queueVars
  <2>2. CASE Generate
    BY <2>2 DEF Generate, Reported
  <2>3. CASE GenerateReturns
    BY <2>3 DEF GenerateReturns, Reported, Made, queueVars
  <2>4. CASE Save
    BY <1>2, <2>4, MetTypes DEF Save, Reported, Made, queueVars
  <2>5. CASE Report
    BY <2>5 DEF Report, MetInv, Reported, Made, diskVars, queueVars
  <2> QED
    BY <2>1, <2>2, <2>3, <2>4, <2>5
<1>9. NoThreadNoFile' /\ ClosedAsksNothing'
  BY <1>1 DEF MetInv, NoThreadNoFile, ClosedAsksNothing
<1> QED
  BY <1>7, <1>8, <1>9 DEF MetInv

LEMMA MetStep == TypeInv /\ OneWorker /\ MetInv /\ [FactoryNext]_factoryVars => MetInv'
<1> SUFFICES ASSUME TypeInv, OneWorker, MetInv, [FactoryNext]_factoryVars PROVE MetInv'
  OBVIOUS
<1>1. \A f \in Files : ~file[f].live => ~file[f].thumbnailing
  BY DEF MetInv, ClosedAsksNothing
<1>2. CASE UNCHANGED factoryVars
  BY <1>1, <1>2, MetElsewhere DEF factoryVars, diskVars
<1>3. ASSUME NEW f \in Files, Write(f) PROVE MetInv'
  BY <1>1, <1>3, MetElsewhere DEF Write
<1>4. ASSUME NEW f \in Files,
             \/ QueryInfo(f) \/ InfoArrives(f) \/ LoadThumbnail(f) \/ ThumbnailArrives(f)
             \/ FileChanged(f)
      PROVE  MetInv'
  <2>1. UNCHANGED << thumb, failedMark, queueVars, noticeVars, threadVars >>
    BY <1>4 DEF QueryInfo, InfoArrives, LoadThumbnail, ThumbnailArrives, FileChanged, diskVars
  <2>2. \A g \in Files : /\ file'[g].thumbnailing = file[g].thumbnailing
                         /\ file'[g].live = file[g].live
    <3>1. CASE QueryInfo(f)
      BY <3>1, MetTypes DEF QueryInfo, BaulFiles
    <3>2. CASE InfoArrives(f)
      BY <3>2, MetTypes DEF InfoArrives, BaulFiles
    <3>3. CASE LoadThumbnail(f)
      BY <3>3, MetTypes DEF LoadThumbnail, BaulFiles
    <3>4. CASE ThumbnailArrives(f)
      BY <3>4, MetTypes DEF ThumbnailArrives, BaulFiles
    <3>5. CASE FileChanged(f)
      BY <3>5, MetTypes DEF FileChanged, BaulFiles
    <3> QED
      BY <1>4, <3>1, <3>2, <3>3, <3>4, <3>5
  <2> QED
    BY <1>1, <2>1, <2>2, MetElsewhere
<1>5. ASSUME NEW f \in Files, Open(f) PROVE MetInv'
  <2>1. UNCHANGED << thumb, failedMark, queueVars, noticeVars, threadVars >>
    BY <1>5 DEF Open, diskVars
  <2>2. /\ \A g \in Files \ {f} : file'[g] = file[g]
        /\ ~file'[f].thumbnailing
    BY <1>5, MetTypes DEF Open, NewFile
  <2> QED
    BY <1>1, <2>1, <2>2, MetElsewhere
<1>6. CASE StartThread
  <2>1. /\ UNCHANGED << file, thumb, failedMark, queue, request, current, noticeVars, origMtime >>
        /\ pc' = "lock" /\ starter
    BY <1>6 DEF StartThread, diskVars
  <2>2. current = NoFile
    BY <2>1 DEF MetInv, NoThreadNoFile, OneWorker, OneThread
  <2>3. ASSUME NEW f \in Files PROVE Met(f)'
    BY <2>1, <2>2, MetTypes DEF MetInv, Met, Queued, Dismissed, noticeVars
  <2>4. Reported' /\ NoThreadNoFile' /\ ClosedAsksNothing'
    BY <2>1, <2>2 DEF MetInv, Reported, NoThreadNoFile, ClosedAsksNothing
  <2> QED
    BY <2>3, <2>4 DEF MetInv
<1>7. CASE Thread
  BY <1>7, MetTakeNext, MetAtWork DEF Thread
<1>8. ASSUME NEW f \in Files, Draw(f) \/ Notify(f) \/ Prioritize(f) \/ Close(f) PROVE MetInv'
  BY <1>8, MetDraw, MetNotify, MetEdited
<1> QED
  BY <1>2, <1>3, <1>4, <1>5, <1>6, <1>7, <1>8, MetTick, ThumbnailsAssumption DEF FactoryNext, MainLoop

\* No request is dropped that was not met: an entry that the thread takes off
\* the queue, without the mutex between its report and that, was reported, or
\* will be after a second, or has the thumbnail that was asked for.
THEOREM RequestsAreMet == FactorySpec => []EveryRequestIsMet
<1>1. MetInv => EveryRequestIsMet
  BY DEF MetInv, Met, EveryRequestIsMet
<1>2. TypeInv /\ OneWorker /\ MetInv /\ [FactoryNext]_factoryVars => TypeInv' /\ OneWorker' /\ MetInv'
  BY NextTypes, NextThread, MetStep DEF TypeInv
<1> QED
  BY <1>1, <1>2, TypeInit, ThreadInit, MetInit, PTL DEF FactorySpec
=============================================================================
