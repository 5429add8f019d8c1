----------------------------- MODULE SlotLocation -----------------------------
(* One tab of a browser window (a BaulWindowSlot): from the click on a      *)
(* place, through the questions about it, its mount and the view that loads *)
(* it, to the moment it is what the tab shows                               *)
(* (baul-window-manage-views.c), with the part of the folder view that it   *)
(* drives and that reports back to it (fm-directory-view.c).                *)
EXTENDS Naturals, Sequences, SequencesExt

CONSTANTS
  Locations,
  NoLocation,
  Uses,            \* what the user and the world do
  BackDistances,   \* how far down the Back menu the user goes, 0 being Back
  ForwardDistances,
  MaxClicks        \* bound on what the user and the world do

\* Two entries down the Forward menu is as far as the lists stay well formed.
ASSUME DistanceAssumption ==
  /\ BackDistances \subseteq Nat
  /\ ForwardDistances \subseteq {0, 1}
ASSUME LocationAssumption == NoLocation \notin Locations

VARIABLES
  slot,      \* the fields of the slot, of its navigation slot and of its views
  gone,      \* the places that no longer exist
  clicks     \* how often the user or the world acted

vars == << slot, gone, clicks >>

Places == Locations \cup {NoLocation}

(***************************************************************************)
(* A folder view.                                                          *)
(***************************************************************************)
NoView == [dir |-> NoLocation, step |-> "none", loading |-> FALSE]

\* new_content_view may be the content view itself.
Same == [dir |-> NoLocation, step |-> "same", loading |-> FALSE]

Views == [dir : Locations, step : {"asked", "underway", "seen"}, loading : BOOLEAN]

\* load_directory: the metadata is asked for first.
Loading(l) == [dir |-> l, step |-> "asked", loading |-> TRUE]

\* fm_directory_view_stop: what the view has asked for still arrives.
Stopped(view) == [view EXCEPT !.loading = FALSE]

(***************************************************************************)
(* The end of a location change.                                           *)
(***************************************************************************)
\* Mutant: the callback stays registered when a change is freed.
FreeLocationChangeAwaited(s) ==
  [s EXCEPT !.pending = NoLocation,
            !.mounting = NoLocation,
            !.determine = NoLocation,
            !.nascent = NoView,
            !.content = IF s.nascent = Same THEN Stopped(@) ELSE @]

FreeLocationChange(s) ==
  [s EXCEPT !.pending = NoLocation,
            !.mounting = NoLocation,
            !.ready = @ \ {s.determine},
            !.determine = NoLocation,
            !.nascent = NoView,
            !.content = IF s.nascent = Same THEN Stopped(@) ELSE @]

EndLocationChange(s) == FreeLocationChange([s EXCEPT !.allowStop = FALSE])

\* The old place is loaded into the view that is kept.
CancelLocationChange(s) ==
  IF s.pending # NoLocation /\ s.location # NoLocation /\ s.content # NoView
  THEN EndLocationChange([s EXCEPT !.content = Loading(s.location)])
  ELSE EndLocationChange(s)

(***************************************************************************)
(* Its beginning.                                                          *)
(***************************************************************************)
\* Mutant: the old place is watched until the new one is shown.
BeginLocationChangeWatched(s, l, type, distance) ==
  LET e == EndLocationChange(s) IN
  [e EXCEPT !.allowStop = TRUE,
            !.pending = l,
            !.type = type,
            !.distance = distance,
            !.triedMount = FALSE,
            !.determine = l,
            !.ready = @ \cup {l}]

BeginLocationChange(s, l, type, distance) ==
  LET e == EndLocationChange(s) IN
  [e EXCEPT !.allowStop = TRUE,
            !.pending = l,
            !.type = type,
            !.distance = distance,
            !.triedMount = FALSE,
            !.determine = l,
            !.ready = @ \cup {l},
            !.watched = NoLocation]

(***************************************************************************)
(* The lists behind Back and Forward.                                      *)
(***************************************************************************)

SetDisplayedLocation(s, l) ==
  IF s.current = l THEN s ELSE [s EXCEPT !.last = s.current, !.current = l]

HandleGoBack(s) ==
  LET d == s.distance IN
  [s EXCEPT !.forward = Reverse(SubSeq(s.back, 1, d)) \o << s.last >> \o @,
            !.back = SubSeq(@, d + 2, Len(@))]

\* For one link in between, the code removes it from the wrong list, so what
\* is left of the Forward list is what was in the Back list.
HandleGoForward(s) ==
  IF s.distance = 0
  THEN [s EXCEPT !.back = << s.last >> \o @, !.forward = Tail(@)]
  ELSE [s EXCEPT !.back = << s.forward[1] >> \o @, !.forward = s.back]

\* Mutant: going elsewhere leaves the Forward list alone.
HandleGoElsewhereOnly(s, l) ==
  [s EXCEPT !.back = IF s.location \in {NoLocation, l} THEN @ ELSE << s.last >> \o @]

HandleGoElsewhere(s, l) ==
  [s EXCEPT !.forward = << >>,
            !.back = IF s.location \in {NoLocation, l} THEN @ ELSE << s.last >> \o @]

UpdateHistory(s, l) ==
  CASE s.type = "standard" -> HandleGoElsewhere(s, l)
    [] s.type = "back"     -> HandleGoBack(s)
    [] s.type = "forward"  -> HandleGoForward(s)
    [] s.type = "reload"   -> s

UpdateForNewLocation(s) ==
  LET l == s.pending IN
  [UpdateHistory(SetDisplayedLocation(s, l), l)
     EXCEPT !.pending = NoLocation, !.location = l, !.watched = l]

\* What handle_go_back and handle_go_forward assert before anything else.
EntryIsThere(s) ==
  /\ s.type = "back" => s.distance < Len(s.back)
  /\ s.type = "forward" => s.distance < Len(s.forward)

Closed(s) == [FreeLocationChange(s) EXCEPT !.watched = NoLocation, !.open = FALSE]

\* The view that was to be shown is underway. A failed assert ends the program.
LocationHasReallyChanged(s) ==
  LET shown == [s EXCEPT !.content = IF s.nascent = Same THEN @ ELSE s.nascent,
                         !.nascent = NoView]
  IN CASE s.pending = NoLocation -> FreeLocationChange(shown)
       [] s.pending # NoLocation /\ EntryIsThere(s) ->
            FreeLocationChange(UpdateForNewLocation(shown))
       [] s.pending # NoLocation /\ ~EntryIsThere(s) -> Closed(shown)

(***************************************************************************)
(* The answers.                                                            *)
(***************************************************************************)
\* A view of the kind the place wants: the one there is, if it is of that kind.
CreateContentView(s, l, reuse) ==
  IF reuse THEN [s EXCEPT !.nascent = Same, !.content = Loading(l)]
           ELSE [s EXCEPT !.nascent = Loading(l)]

\* The place cannot be shown: the old one stays, and its file is watched again.
\* A tab that has none yet is closed.
GiveUp(s) ==
  LET e == EndLocationChange(s) IN
  IF s.location = NoLocation THEN [e EXCEPT !.open = FALSE]
                             ELSE [e EXCEPT !.watched = s.location]

\* got_file_info_for_view_selection_callback
GotFileInfo(s, answer, reuse) ==
  LET asked == [s EXCEPT !.determine = NoLocation] IN
  CASE answer = "ok" -> CreateContentView(asked, s.pending, reuse)
    [] answer = "not_mounted" /\ ~s.triedMount ->
         [asked EXCEPT !.triedMount = TRUE, !.mounting = s.pending]
    [] OTHER -> GiveUp(asked)

\* Mutant: after a mount nothing is asked again.
MountAnsweredOnly(s, mounted) ==
  LET done == [s EXCEPT !.mounting = NoLocation, !.determine = s.pending] IN
  IF mounted THEN done ELSE GotFileInfo(done, "error", FALSE)

\* mount_not_mounted_callback
MountAnswered(s, mounted) ==
  LET done == [s EXCEPT !.mounting = NoLocation, !.determine = s.pending] IN
  IF mounted THEN [done EXCEPT !.ready = @ \cup {s.pending}]
             ELSE GotFileInfo(done, "error", FALSE)
-----------------------------------------------------------------------------
Init ==
  /\ slot = [open |-> TRUE, location |-> NoLocation, pending |-> NoLocation,
             type |-> "standard", distance |-> 0, triedMount |-> FALSE,
             determine |-> NoLocation, ready |-> {}, mounting |-> NoLocation,
             content |-> NoView, nascent |-> NoView, allowStop |-> FALSE,
             watched |-> NoLocation, back |-> << >>, forward |-> << >>,
             current |-> NoLocation, last |-> NoLocation]
  /\ gone = {}
  /\ clicks = 0

(***************************************************************************)
(* The user and the world.                                                 *)
(***************************************************************************)
Acts ==
  /\ slot.open
  /\ clicks < MaxClicks
  /\ clicks' = clicks + 1

\* baul_window_slot_open_location_full: nothing is done for the place that is
\* shown, whatever is pending.
OpenLocation(l) ==
  /\ Acts
  /\ l # slot.location
  /\ slot' = BeginLocationChange(slot, l, "standard", 0)
  /\ UNCHANGED gone

\* baul_navigation_window_back_or_forward: at most to the end of the list.
GoBack(d) ==
  LET distance == IF d < Len(slot.back) THEN d ELSE Len(slot.back) - 1 IN
  /\ Acts
  /\ slot.back # << >>
  /\ slot' = BeginLocationChange(slot, slot.back[distance + 1], "back", distance)
  /\ UNCHANGED gone

GoForward(d) ==
  LET distance == IF d < Len(slot.forward) THEN d ELSE Len(slot.forward) - 1 IN
  /\ Acts
  /\ slot.forward # << >>
  /\ slot' = BeginLocationChange(slot, slot.forward[distance + 1], "forward", distance)
  /\ UNCHANGED gone

Reload ==
  /\ "reload" \in Uses
  /\ Acts
  /\ slot.location # NoLocation
  /\ slot' = BeginLocationChange(slot, slot.location, "reload", 0)
  /\ UNCHANGED gone

\* baul_window_slot_stop_loading
StopLoading ==
  /\ "stop" \in Uses
  /\ Acts
  /\ slot.allowStop
  /\ slot' = CancelLocationChange(IF slot.content = NoView THEN slot
                                  ELSE [slot EXCEPT !.content = Stopped(@)])
  /\ UNCHANGED gone

\* baul_window_slot_set_content_view: a view of another kind for the same place.
SetContentView ==
  /\ "switch" \in Uses
  /\ Acts
  /\ slot.location # NoLocation
  /\ slot' = CreateContentView([EndLocationChange(slot) EXCEPT !.allowStop = TRUE,
                                                              !.type = "reload"],
                               slot.location, FALSE)
  /\ UNCHANGED gone

\* baul_forget_history
ForgetHistory ==
  /\ "forget" \in Uses
  /\ Acts
  /\ slot' = [slot EXCEPT !.back = << >>, !.forward = << >>]
  /\ UNCHANGED gone

\* A folder is deleted. A slot that watches it goes to a folder above it that
\* still exists, or home (viewed_file_changed_callback).
DeleteFolder(l) ==
  /\ "delete" \in Uses
  /\ Acts
  /\ l \notin gone
  /\ Locations \ gone # {l}
  /\ gone' = gone \cup {l}
  /\ \/ /\ slot.watched # l
        /\ UNCHANGED slot
     \/ \E other \in Locations \ gone' :
          /\ slot.watched = l
          /\ slot' = BeginLocationChange(EndLocationChange(slot), other, "standard", 0)

\* baul_window_manage_views_close_slot
CloseSlot ==
  /\ "close" \in Uses
  /\ Acts
  /\ slot' = Closed(slot)
  /\ UNCHANGED gone

(***************************************************************************)
(* The answers and the reports of the views.                               *)
(***************************************************************************)
Answers(l) ==
  IF l \in gone THEN {"error"}
  ELSE {"ok"} \cup (Uses \cap {"error", "not_mounted"})

FileInfoReady(l) ==
  /\ slot.open
  /\ l \in slot.ready
  /\ \E answer \in Answers(l), reuse \in BOOLEAN :
       /\ reuse => slot.content # NoView
       /\ slot' = GotFileInfo([slot EXCEPT !.ready = @ \ {l}], answer, reuse)
  /\ UNCHANGED << gone, clicks >>

MountDone ==
  /\ slot.mounting # NoLocation
  /\ \E mounted \in BOOLEAN : slot' = MountAnswered(slot, mounted)
  /\ UNCHANGED << gone, clicks >>

\* finish_loading of the content view: baul_window_report_load_underway.
ContentUnderway ==
  LET started == [slot EXCEPT !.content.step = "underway"] IN
  /\ slot.open
  /\ slot.content.step = "asked"
  /\ slot' = IF slot.nascent = Same THEN LocationHasReallyChanged(started)
                                    ELSE [started EXCEPT !.allowStop = TRUE]
  /\ UNCHANGED << gone, clicks >>

\* The same of a view that is not shown yet.
NascentUnderway ==
  /\ slot.nascent.step = "asked"
  /\ slot' = LocationHasReallyChanged([slot EXCEPT !.nascent.step = "underway"])
  /\ UNCHANGED << gone, clicks >>

\* done_loading of the content view: the completion is reported only by a view
\* that has not been stopped (baul_window_report_load_complete).
ContentComplete ==
  LET seen == [slot EXCEPT !.content.step = "seen", !.content.loading = FALSE] IN
  /\ slot.open
  /\ slot.content.step = "underway"
  /\ slot' = IF slot.content.loading THEN EndLocationChange(seen) ELSE seen
  /\ UNCHANGED << gone, clicks >>

\* load_error_callback: the view stops itself.
ContentLoadError ==
  /\ "load_error" \in Uses
  /\ slot.open
  /\ slot.content.step = "underway"
  /\ slot' = [slot EXCEPT !.content.step = "seen", !.content.loading = FALSE]
  /\ UNCHANGED << gone, clicks >>

Next ==
  \/ \E l \in Locations : OpenLocation(l) \/ DeleteFolder(l) \/ FileInfoReady(l)
  \/ \E d \in BackDistances : GoBack(d)
  \/ \E d \in ForwardDistances : GoForward(d)
  \/ Reload \/ StopLoading \/ SetContentView \/ ForgetHistory \/ CloseSlot
  \/ MountDone \/ ContentUnderway \/ NascentUnderway \/ ContentComplete
  \/ ContentLoadError

Spec == Init /\ [][Next]_vars

\* The answers and the views' reports come; the user may do nothing.
FairSpec ==
  /\ Spec
  /\ \A l \in Locations : WF_vars(FileInfoReady(l))
  /\ WF_vars(MountDone)
  /\ WF_vars(ContentUnderway)
  /\ WF_vars(NascentUnderway)
  /\ WF_vars(ContentComplete)
-----------------------------------------------------------------------------
(***************************************************************************)
(* Properties.                                                             *)
(***************************************************************************)
ViewsAndNone == Views \cup {NoView}

\* The types of the fields; the bookmark of the current place is of that place.
TypeOK ==
  /\ {slot.location, slot.pending, slot.determine, slot.mounting, slot.watched,
      slot.last} \subseteq Places
  /\ slot.current = slot.location
  /\ slot.content \in ViewsAndNone
  /\ slot.nascent \in ViewsAndNone \cup {Same}
  /\ slot.back \in Seq(Locations) /\ slot.forward \in Seq(Locations)
  /\ gone \subseteq Locations

\* Back and Forward are a walk through the places that were shown: a change
\* that arrives adds its place or moves to an entry, and one that fails, is
\* stopped or overtaken changes nothing (update_history and its handlers).
History == INSTANCE BrowserHistory WITH
  entries  <- IF slot.location = NoLocation THEN << >>
              ELSE Reverse(slot.back) \o << slot.location >> \o slot.forward,
  position <- IF slot.location = NoLocation THEN 0 ELSE Len(slot.back) + 1

ImplementsHistory == History!Spec

\* The asserts of the callbacks hold, and none comes for a slot that is closed:
\* a file is awaited by exactly the slot that determines its view
\* (got_file_info_for_view_selection_callback asserts it), a mount only for the
\* pending place.
AnswersAreExpected ==
  /\ slot.ready = {slot.determine} \ {NoLocation}
  /\ slot.determine # NoLocation => slot.determine = slot.pending /\ slot.open
  /\ slot.mounting # NoLocation => slot.mounting = slot.pending /\ slot.open

\* A tab watches nothing but the place it shows, and not even that while it is
\* on its way to another: a deletion never takes it off the way the user sent
\* it (cancel_viewed_file_changed_callback in begin_location_change).
WatchesOnlyWhatItShows ==
  slot.watched = NoLocation \/ (slot.watched = slot.location /\ slot.pending = NoLocation)

\* As long as the history is not forgotten, the place of a step back or forward is
\* still where it was in the list when the user picked it (the asserts and the
\* checks that begin handle_go_back and handle_go_forward).
EntryIsStillThere ==
  slot.pending # NoLocation =>
    /\ slot.type = "back" =>
         /\ slot.distance < Len(slot.back)
         /\ slot.back[slot.distance + 1] = slot.pending
    /\ slot.type = "forward" =>
         /\ slot.distance < Len(slot.forward)
         /\ slot.forward[slot.distance + 1] = slot.pending

\* Every change ends: every chain of questions leads to a view or to the end.
ChangesEnd == slot.pending # NoLocation ~> slot.pending = NoLocation

\* A change the user did not take back ends by arriving, or by failing, and then
\* the slot watches its old place again or is closed; the completion of an
\* earlier load does not end it ("Only handle this if we're expecting it",
\* baul_window_report_load_complete).
NoChangeIsLost ==
  [][slot.pending # NoLocation /\ slot'.pending = NoLocation /\ UNCHANGED clicks =>
       \/ slot'.location = slot.pending
       \/ slot'.watched # NoLocation
       \/ ~slot'.open]_vars
=============================================================================
