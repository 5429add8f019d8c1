------------------------- MODULE DirectoryLoads_proofs -------------------------
(***************************************************************************)
(* Proofs about the directory loads of DirectoryAsync: each ends once, and *)
(* when the main loop waits those that go on are the ones somebody wants.  *)
(*                                                                         *)
(* directory_load_cancel runs the state machine of the parent before it    *)
(* clears the load, so a call that cancels the same load in the meantime   *)
(* ends it a second time.  Nothing does as long as no handler of a signal  *)
(* is called from inside a pass of the service loop (PassesAreQuiet): then *)
(* no client calls anything while a load is being cancelled.               *)
(*                                                                         *)
(* directory_load_done cancels the load it has announced, so a handler     *)
(* that reloads the directory has the new load cancelled too.  Without     *)
(* such reloads (NoNestedReload), what directory_load_done cancels is a    *)
(* load whose list has come.                                               *)
(***************************************************************************)
EXTENDS DirectoryAsync_proofs

\* No start function signals a change before it returns: extension_info_start does
\* for an extension that answers at once, and mount_start for a mountable file.
PassesAreQuiet ==
  /\ "extension_info" \notin Kinds
  /\ \A r \in AtOnce : JobOf[r[2]].skips # "signals"

-----------------------------------------------------------------------------
(***************************************************************************)
(* Which call may be above which.                                          *)
(***************************************************************************)
\* The calls a pass of the service loop makes, or is made by.
PassOps == {"service", "endload", "unlist", "wake", "waking"}
QuietOps == PassOps \cup {"changed", "unload"}

\* Above a pass, and above a load that is being cancelled, there is nothing that
\* calls a handler, nor another call that cancels the same load.  Without reloads
\* from handlers, none is signalled while a directory is reloaded, and no directory
\* is reloaded while the end of a load is being announced.
Over(f, g) ==
  /\ g.op \in PassOps => f.op \in QuietOps
  /\ g.op = "endload" => ~(f.op \in {"unload", "endload"} /\ f.dir = g.dir)
  /\ g.op = "reload" /\ "nested_reload" \notin Uses => f.op \in QuietOps \cup {"outdate"}
  /\ g.op = "unload" => f.op # "calling" /\ (f.op = "reload" => "nested_reload" \in Uses)

Tidy(s) == \A i, j \in DOMAIN s : i < j => Over(s[i], s[j])

Signals(s) == {i \in DOMAIN s : s[i].op = "signal"}
OneSignal(s) == \A i, j \in Signals(s) : i = j

\* The end of a load is being announced: directory_load_done was called first.
LoadEnds(s) == s # << >> /\ s[Len(s)].op = "unload"

\* Calls pushed on others.
LEMMA PushedOn ==
  ASSUME NEW p \in Seq(Frames), NEW t \in Seq(Frames)
  PROVE  /\ p \o t \in Seq(Frames)
         /\ Calls(p \o t) = Calls(p) \cup Calls(t)
         /\ Tidy(p) /\ Tidy(t) /\ (\A a \in Calls(p), c \in Calls(t) : Over(a, c)) => Tidy(p \o t)
         /\ OneSignal(p) /\ (\A c \in Calls(t) : c.op # "signal") => OneSignal(p \o t)
         /\ OneSignal(t) /\ (\A c \in Calls(p) : c.op # "signal") => OneSignal(p \o t)
         /\ t # << >> => (LoadEnds(p \o t) <=> LoadEnds(t)) /\ (p \o t)[Len(p \o t)] = t[Len(t)]
         /\ t = << >> => p \o t = p
<1>. DEFINE s == p \o t
            m == Len(p)
            n == Len(t)
<1>1. /\ DOMAIN p = 1 .. m /\ DOMAIN t = 1 .. n /\ m \in Nat /\ n \in Nat
      /\ s \in Seq(Frames) /\ DOMAIN s = 1 .. m + n /\ Len(s) = m + n
      /\ \A i \in 1 .. m : s[i] = p[i]
      /\ \A i \in 1 .. n : s[i + m] = t[i]
  OBVIOUS
<1>2. \A i \in 1 .. m + n : i \in 1 .. m \/ (i - m \in 1 .. n /\ i = (i - m) + m)
  BY <1>1
<1>3. Calls(s) = Calls(p) \cup Calls(t)
  BY CallsOf
<1>. HIDE DEF s, m, n
<1>4. /\ \A i \in 1 .. m : s[i] = p[i] /\ p[i] \in Calls(p)
      /\ \A i \in 1 .. n : s[i + m] = t[i] /\ t[i] \in Calls(t)
  BY <1>1 DEF Calls
<1>5. ASSUME Tidy(p), Tidy(t), \A a \in Calls(p), c \in Calls(t) : Over(a, c)
      PROVE  Tidy(s)
  <2>1. SUFFICES ASSUME NEW i \in 1 .. m + n, NEW j \in 1 .. m + n, i < j PROVE Over(s[i], s[j])
    BY <1>1 DEF Tidy
  <2>2. CASE i \in 1 .. m /\ j \in 1 .. m
    BY <1>1, <1>5, <2>1, <2>2 DEF Tidy
  <2>3. CASE i \in 1 .. m /\ j \notin 1 .. m
    <3>1. j - m \in 1 .. n /\ j = (j - m) + m
      BY <1>2, <2>3
    <3>2. PICK b \in 1 .. n : b = j - m
      BY <3>1
    <3>3. s[j] = t[b] /\ t[b] \in Calls(t) /\ s[i] = p[i] /\ p[i] \in Calls(p)
      BY <1>4, <2>3, <3>1, <3>2
    <3>4. QED
      BY <1>5, <3>3
  <2>4. CASE i \notin 1 .. m
    <3>1. i - m \in 1 .. n /\ i = (i - m) + m /\ j - m \in 1 .. n /\ j = (j - m) + m
      BY <1>1, <1>2, <2>1, <2>4
    <3>2. PICK a \in 1 .. n, b \in 1 .. n : a = i - m /\ b = j - m
      BY <3>1
    <3>3. s[i] = t[a] /\ s[j] = t[b] /\ a < b
      BY <1>1, <1>4, <2>1, <3>1, <3>2
    <3>4. QED
      BY <1>1, <1>5, <3>3 DEF Tidy
  <2>5. QED
    BY <2>2, <2>3, <2>4
<1>6. ASSUME OneSignal(p), \A c \in Calls(t) : c.op # "signal"
      PROVE  OneSignal(s)
  <2>1. ASSUME NEW i \in Signals(s) PROVE i \in Signals(p)
    <3>1. i \in 1 .. m + n /\ s[i].op = "signal"
      BY <1>1 DEF Signals
    <3>2. CASE i \in 1 .. m
      BY <1>1, <1>4, <3>1, <3>2 DEF Signals
    <3>3. CASE i \notin 1 .. m
      <4>1. PICK a \in 1 .. n : a = i - m /\ i = a + m
        BY <1>2, <3>1, <3>3
      <4>2. s[i] = t[a] /\ t[a] \in Calls(t)
        BY <1>4, <4>1
      <4>3. QED
        BY <1>6, <3>1, <4>2
    <3>4. QED
      BY <3>2, <3>3
  <2>2. QED
    BY <1>6, <2>1 DEF OneSignal
<1>7. ASSUME OneSignal(t), \A c \in Calls(p) : c.op # "signal"
      PROVE  OneSignal(s)
  <2>1. ASSUME NEW i \in Signals(s) PROVE i - m \in Signals(t) /\ i \in Int
    <3>1. i \in 1 .. m + n /\ s[i].op = "signal"
      BY <1>1 DEF Signals
    <3>2. i \notin 1 .. m
      BY <1>4, <1>7, <3>1
    <3>3. i - m \in 1 .. n /\ i = (i - m) + m
      BY <1>2, <3>1, <3>2
    <3>4. PICK a \in 1 .. n : a = i - m
      BY <3>3
    <3>5. s[i] = t[a]
      BY <1>4, <3>3, <3>4
    <3>6. QED
      BY <1>1, <3>1, <3>4, <3>5 DEF Signals
  <2>2. QED
    BY <1>1, <1>7, <2>1 DEF OneSignal
<1>8. ASSUME t # << >>
      PROVE  s # << >> /\ s[Len(s)] = t[n]
  <2>1. n \in 1 .. n /\ n + m = Len(s) /\ Len(s) # 0
    BY <1>1, <1>8 DEF n
  <2>2. QED
    BY <1>1, <1>4, <2>1
<1>9. t = << >> => p \o t = p
  OBVIOUS
<1>10. QED
  BY <1>1, <1>3, <1>5, <1>6, <1>7, <1>8, <1>9 DEF s, n, LoadEnds

\* The call on top and those below it.
LEMMA TidyTop ==
  ASSUME stack \in Seq(Frames), stack # << >>, Tidy(stack)
  PROVE  /\ Tidy(Below) /\ \A c \in Calls(Below) : Over(Top, c)
         /\ OneSignal(stack) => OneSignal(Below)
         /\ OneSignal(stack) /\ Top.op = "signal" => \A c \in Calls(Below) : c.op # "signal"
         /\ Below # << >> => (LoadEnds(stack) <=> LoadEnds(Below)) /\ stack[Len(stack)] = Below[Len(Below)]
<1>1. /\ DOMAIN stack = 1 .. Len(stack) /\ Len(stack) \in Nat /\ Len(stack) >= 1 /\ stack[1] = Top
      /\ Below \in Seq(Frames) /\ Len(Below) = Len(stack) - 1 /\ DOMAIN Below = 1 .. Len(Below)
      /\ \A i \in 1 .. Len(Below) : i + 1 \in 1 .. Len(stack) /\ Below[i] = stack[i + 1]
  BY DEF Top, Below
<1>2. Tidy(Below)
  <2>1. SUFFICES ASSUME NEW i \in 1 .. Len(Below), NEW j \in 1 .. Len(Below), i < j
                 PROVE  Over(Below[i], Below[j])
    BY <1>1 DEF Tidy
  <2>2. i + 1 \in DOMAIN stack /\ j + 1 \in DOMAIN stack /\ i + 1 < j + 1
    BY <1>1, <2>1
  <2>3. QED
    BY <1>1, <2>2 DEF Tidy
<1>3. ASSUME NEW c \in Calls(Below) PROVE \E j \in DOMAIN stack : 1 < j /\ stack[j] = c
  <2>1. PICK i \in 1 .. Len(Below) : Below[i] = c
    BY <1>1 DEF Calls
  <2>2. i + 1 \in DOMAIN stack /\ 1 < i + 1 /\ stack[i + 1] = c
    BY <1>1, <2>1
  <2>3. QED
    BY <2>2
<1>4. \A c \in Calls(Below) : Over(Top, c)
  BY <1>1, <1>3 DEF Tidy
<1>5. OneSignal(stack) => OneSignal(Below)
  <2>1. ASSUME NEW i \in Signals(Below) PROVE i + 1 \in Signals(stack) /\ i \in Int
    BY <1>1 DEF Signals
  <2>2. QED
    BY <2>1 DEF OneSignal
<1>6. ASSUME OneSignal(stack), Top.op = "signal", NEW c \in Calls(Below), c.op = "signal"
      PROVE  FALSE
  <2>1. PICK j \in DOMAIN stack : 1 < j /\ stack[j] = c
    BY <1>3
  <2>2. 1 \in Signals(stack) /\ j \in Signals(stack) /\ 1 # j
    BY <1>1, <1>6, <2>1 DEF Signals
  <2>3. QED
    BY <1>6, <2>2 DEF OneSignal
<1>7. Below # << >> => stack[Len(stack)] = Below[Len(Below)]
  <2>1. SUFFICES ASSUME Below # << >> PROVE stack[Len(stack)] = Below[Len(Below)]
    OBVIOUS
  <2>2. Len(Below) \in 1 .. Len(Below) /\ Len(stack) = Len(Below) + 1
    BY <1>1, <2>1
  <2>3. QED
    BY <1>1, <2>2
<1>8. QED
  BY <1>2, <1>4, <1>5, <1>6, <1>7 DEF LoadEnds

\* No calls.
LEMMA NoCalls == << >> \in Seq(Frames) /\ Calls(<< >>) = {} /\ Tidy(<< >>) /\ OneSignal(<< >>)
BY DEF Calls, Tidy, OneSignal, Signals

\* One call.
LEMMA OneCall ==
  ASSUME NEW a \in Frames
  PROVE  /\ << a >> \in Seq(Frames) /\ Calls(<< a >>) = {a} /\ Tidy(<< a >>) /\ OneSignal(<< a >>)
         /\ << a >>[Len(<< a >>)] = a
<1>. DEFINE s == << a >>
<1>1. s \in Seq(Frames) /\ DOMAIN s = 1 .. 1 /\ Len(s) = 1 /\ s[1] = a
  OBVIOUS
<1>. HIDE DEF s
<1>2. \A i \in 1 .. 1 : i = 1
  OBVIOUS
<1>3. Calls(s) = {a}
  BY <1>1, <1>2 DEF Calls
<1>4. Tidy(s)
  BY <1>1, <1>2 DEF Tidy
<1>5. OneSignal(s)
  BY <1>1, <1>2 DEF OneSignal, Signals
<1>6. QED
  BY <1>1, <1>3, <1>4, <1>5 DEF s

\* Two calls, the first above the second.
LEMMA TwoCalls ==
  ASSUME NEW a \in Frames, NEW b \in Frames
  PROVE  /\ << a, b >> \in Seq(Frames) /\ Calls(<< a, b >>) = {a, b}
         /\ Over(a, b) => Tidy(<< a, b >>)
         /\ a.op # "signal" \/ b.op # "signal" => OneSignal(<< a, b >>)
         /\ << a, b >>[Len(<< a, b >>)] = b
<1>. DEFINE s == << a, b >>
<1>1. s \in Seq(Frames) /\ DOMAIN s = 1 .. 2 /\ Len(s) = 2 /\ s[1] = a /\ s[2] = b
  OBVIOUS
<1>. HIDE DEF s
<1>2. \A i \in 1 .. 2 : i = 1 \/ i = 2
  OBVIOUS
<1>3. Calls(s) = {a, b}
  BY <1>1, <1>2 DEF Calls
<1>4. Over(a, b) => Tidy(s)
  BY <1>1, <1>2 DEF Tidy
<1>5. a.op # "signal" \/ b.op # "signal" => OneSignal(s)
  BY <1>1, <1>2 DEF OneSignal, Signals
<1>6. QED
  BY <1>1, <1>3, <1>4, <1>5 DEF s

\* Three calls.
LEMMA ThreeCalls ==
  ASSUME NEW a \in Frames, NEW b \in Frames, NEW c \in Frames
  PROVE  /\ << a, b, c >> \in Seq(Frames) /\ Calls(<< a, b, c >>) = {a, b, c}
         /\ Over(a, b) /\ Over(a, c) /\ Over(b, c) => Tidy(<< a, b, c >>)
         /\ b.op # "signal" /\ c.op # "signal" => OneSignal(<< a, b, c >>)
         /\ << a, b, c >>[Len(<< a, b, c >>)] = c
<1>. DEFINE s == << a, b, c >>
<1>1. s \in Seq(Frames) /\ DOMAIN s = 1 .. 3 /\ Len(s) = 3 /\ s[1] = a /\ s[2] = b /\ s[3] = c
  OBVIOUS
<1>. HIDE DEF s
<1>2. \A i \in 1 .. 3 : i = 1 \/ i = 2 \/ i = 3
  OBVIOUS
<1>3. Calls(s) = {a, b, c}
  BY <1>1, <1>2 DEF Calls
<1>4. Over(a, b) /\ Over(a, c) /\ Over(b, c) => Tidy(s)
  BY <1>1, <1>2 DEF Tidy
<1>5. b.op # "signal" /\ c.op # "signal" => OneSignal(s)
  BY <1>1, <1>2 DEF OneSignal, Signals
<1>6. QED
  BY <1>1, <1>3, <1>4, <1>5 DEF s

\* Four calls.
LEMMA FourCalls ==
  ASSUME NEW a \in Frames, NEW b \in Frames, NEW c \in Frames, NEW e \in Frames
  PROVE  /\ << a, b, c, e >> \in Seq(Frames) /\ Calls(<< a, b, c, e >>) = {a, b, c, e}
         /\ Over(a, b) /\ Over(a, c) /\ Over(b, c) /\ Over(a, e) /\ Over(b, e) /\ Over(c, e) =>
           Tidy(<< a, b, c, e >>)
         /\ b.op # "signal" /\ c.op # "signal" /\ e.op # "signal" => OneSignal(<< a, b, c, e >>)
         /\ << a, b, c, e >>[Len(<< a, b, c, e >>)] = e
<1>. DEFINE s == << a, b, c, e >>
<1>1. s \in Seq(Frames) /\ DOMAIN s = 1 .. 4 /\ Len(s) = 4 /\ s[1] = a /\ s[2] = b /\ s[3] = c /\ s[4] = e
  OBVIOUS
<1>. HIDE DEF s
<1>2. \A i \in 1 .. 4 : i = 1 \/ i = 2 \/ i = 3 \/ i = 4
  OBVIOUS
<1>3. Calls(s) = {a, b, c, e}
  BY <1>1, <1>2 DEF Calls
<1>4. Over(a, b) /\ Over(a, c) /\ Over(b, c) /\ Over(a, e) /\ Over(b, e) /\ Over(c, e) => Tidy(s)
  BY <1>1, <1>2 DEF Tidy
<1>5. b.op # "signal" /\ c.op # "signal" /\ e.op # "signal" => OneSignal(s)
  BY <1>1, <1>2 DEF OneSignal, Signals
<1>6. QED
  BY <1>1, <1>3, <1>4, <1>5 DEF s

\* Which pending call has which fields.
LEMMA Fields ==
  \A d : /\ Changed(d).dir = d /\ Calling(d).dir = d /\ Announce(d).dir = d
         /\ Unload(d).dir = d /\ EndLoad(d).dir = d /\ Unlist(d).dir = d
         /\ EndLoad(d).op = "endload"
         /\ \A step : Reload(d, step).dir = d /\ Reload(d, step).step = step
BY DEF Changed, Calling, Announce, Unload, EndLoad, Unlist, Reload

-----------------------------------------------------------------------------
(***************************************************************************)
(* What each step pushes.                                                  *)
(***************************************************************************)
\* The list of d is monitored only while somebody wants it, but for a pass that is
\* about to come to it.
Settled(d) == d \in listMonitored => d \in listWanted

\* A call that a client's call pushes.
ByClient(c) ==
  /\ c.op \in {"changed", "enqueue", "outdate", "signal", "reload"}
  /\ c.op = "signal" => listWanted' = listWanted
  /\ c.op = "reload" => Rest \/ "nested_reload" \in Uses

\* A call that the call on top pushes, as far as it is about loads.
Pushable(c) ==
  /\ Top.op \in QuietOps => c.op \in QuietOps
  /\ Top.op = "outdate" => c.op = "changed"
  /\ c.op = "signal" => \/ Top.op = "calling"
                        \/ Top.op = "announce" /\ Top.dir \in loaded
                        \/ Top.op = "signal" /\ listWanted' = listWanted
  /\ c.op = "calling" => Top.op = "calling"
  /\ c.op = "reload" => Top.op = "reload" \/ (Top.op = "signal" /\ "nested_reload" \in Uses)
  /\ c.op = "unload" => /\ c.dir = Top.dir /\ Top.dir \in Directories
                        /\ \/ Top.op = "reload" /\ Top.step = 1
                           \/ Top.op = "service" /\ ~Settled(Top.dir)
  /\ c.op = "unlist" => Top.op = "service" /\ c.dir = Top.dir /\ ~Settled(c.dir)
  /\ c.op = "endload" => Top.op = "unload" /\ Top.dir = c.dir /\ c.dir \in loading

\* p is pushed on rest, and nothing in it is out of place.
PushedTidily(p, rest) ==
  /\ p \in Seq(Frames) /\ stack' = p \o rest
  /\ Tidy(p) /\ OneSignal(p)
  /\ p # << >> => p[Len(p)].op # "unload"

\* The calls of add_all_files_to_work_queue.
LEMMA Enqueues ==
  ASSUME NEW d \in Directories, NEW c \in Frames, c.op = "changed"
  PROVE  LET p == EnqueueAll(d) \o << c >>
         IN  /\ p \in Seq(Frames) /\ Tidy(p) /\ OneSignal(p)
             /\ p # << >> /\ p[Len(p)] = c
             /\ \A x \in Calls(p) : x = c \/ x.op = "enqueue"
             /\ \A t \in Seq(Frames) : EnqueueAll(d) \o << c >> \o t = p \o t
<1>. DEFINE q == EnqueueAll(d)
            p == q \o << c >>
<1>1. q \in Seq(Frames) /\ \A i \in DOMAIN q : q[i].op = "enqueue"
  BY EnqueueAllCalls
<1>2. << c >> \in Seq(Frames) /\ Calls(<< c >>) = {c} /\ Tidy(<< c >>) /\ OneSignal(<< c >>)
      /\ << c >>[Len(<< c >>)] = c /\ << c >> # << >>
  BY OneCall
<1>. HIDE DEF q
<1>3. \A x \in Calls(q) : x.op = "enqueue"
  BY <1>1 DEF Calls
<1>4. Tidy(q)
  BY <1>1 DEF Tidy, Over, PassOps
<1>5. OneSignal(q)
  BY <1>1 DEF OneSignal, Signals
<1>6. \A a \in Calls(q), x \in Calls(<< c >>) : Over(a, x)
  BY <1>2, <1>3 DEF Over, PassOps
<1>7. \A x \in Calls(<< c >>) : x.op # "signal"
  BY <1>2
<1>8. /\ p \in Seq(Frames) /\ Calls(p) = Calls(q) \cup {c} /\ Tidy(p) /\ OneSignal(p)
      /\ p[Len(p)] = c
  BY <1>1, <1>2, <1>4, <1>5, <1>6, <1>7, PushedOn
<1>9. p # << >>
  BY <1>1, <1>2
<1>10. QED
  BY <1>3, <1>8, <1>9 DEF q

\* A client's call.
LEMMA ClientPushes ==
  ASSUME TypeOK, NEW rest \in Seq(Frames), ClientCall(rest)
  PROVE  \E p : PushedTidily(p, rest) /\ p # << >> /\ \A c \in Calls(p) : ByClient(c)
<1>. DEFINE Goal == \E p : PushedTidily(p, rest) /\ p # << >> /\ \A c \in Calls(p) : ByClient(c)
<1>0. \A r \in Requests : r[1] \in Files /\ r[2] \in Kinds /\ Home[r[1]] \in Directories
  BY DirectoryAsyncAssumption
<1>1. /\ Signal \in Frames /\ Signal.op = "signal"
      /\ \A d \in Directories : Changed(d) \in Frames /\ Changed(d).op = "changed"
  BY FramesType, Ops
<1>2. ASSUME NEW a \in Frames, stack' = << a >> \o rest, a.op = "changed"
      PROVE  Goal
  <2>1. PushedTidily(<< a >>, rest)
    BY <1>2, OneCall DEF PushedTidily
  <2>2. ByClient(a) /\ Calls(<< a >>) = {a} /\ << a >> # << >>
    BY <1>2, OneCall DEF ByClient
  <2>3. QED
    BY <2>1, <2>2
<1>3. ASSUME NEW a \in Frames, NEW b \in Frames, stack' = << a, b >> \o rest, a.op = "changed",
             b.op \in {"outdate", "signal", "reload"}, ByClient(b)
      PROVE  Goal
  <2>1. << a, b >> \in Seq(Frames) /\ Calls(<< a, b >>) = {a, b} /\ << a, b >>[Len(<< a, b >>)] = b
    BY TwoCalls
  <2>2. Over(a, b)
    BY <1>3 DEF Over, PassOps, QuietOps
  <2>3. Tidy(<< a, b >>) /\ OneSignal(<< a, b >>)
    BY <1>3, <2>2, TwoCalls
  <2>4. PushedTidily(<< a, b >>, rest)
    BY <1>3, <2>1, <2>3 DEF PushedTidily
  <2>5. ByClient(a)
    BY <1>3 DEF ByClient
  <2>6. \A c \in Calls(<< a, b >>) : ByClient(c)
    BY <1>3, <2>1, <2>5
  <2>7. QED
    BY <2>4, <2>6
<1>4. ASSUME NEW r \in Requests,
             \/ MonitorAdd(r[1], r[2], rest) \/ MonitorRemove(r[1], r[2], rest)
             \/ CallWhenReady(r[1], r[2], rest) \/ CancelCallback(r[1], r[2], rest)
      PROVE  Goal
  <2>1. stack' = << Changed(Home[r[1]]) >> \o rest
    BY <1>4 DEF MonitorAdd, MonitorRemove, CallWhenReady, CancelCallback
  <2>2. QED
    BY <1>0, <1>1, <1>2, <2>1
<1>5. ASSUME NEW r \in Requests, InvalidateAttributes(r[1], {r[2]}, rest)
      PROVE  Goal
  <2>. DEFINE b == Outdate(r[1], RequestedBy({r[2]}))
  <2>1. stack' = << Changed(Home[r[1]]), b >> \o rest
    BY <1>5 DEF InvalidateAttributes
  <2>2. {r[2]} \in SUBSET Kinds /\ r[1] \in Files
    BY <1>0
  <2>3. RequestedBy({r[2]}) \in SUBSET Kinds
    <3>1. RequestKinds(r[2]) \subseteq Kinds
      BY <1>0 DEF RequestKinds
    <3>2. QED
      BY <3>1 DEF RequestedBy
  <2>4. b \in Frames /\ b.op = "outdate"
    <3>1. \A g \in Files, ks \in SUBSET Kinds :
            Outdate(g, ks) \in Frames /\ Outdate(g, ks).op = "outdate"
      BY FramesType, Ops
    <3>2. QED
      BY <2>2, <2>3, <3>1, Zenon
  <2>. HIDE DEF b
  <2>5. ByClient(b)
    BY <2>4 DEF ByClient
  <2>6. QED
    BY <1>0, <1>1, <1>3, <2>1, <2>4, <2>5
<1>6. ASSUME NEW r \in Requests, NotifyFilesChanged(r[1], rest)
      PROVE  Goal
  <2>1. stack' = << Changed(Home[r[1]]), Signal >> \o rest /\ listWanted' = listWanted
    BY <1>6 DEF NotifyFilesChanged
  <2>2. ByClient(Signal)
    BY <1>1, <2>1 DEF ByClient
  <2>3. QED
    BY <1>0, <1>1, <1>3, <2>1, <2>2
<1>7. ASSUME NEW d \in Listed, ListMonitorAdd(d, rest)
      PROVE  Goal
  <2>1. d \in Directories
    BY DirectoryAsyncAssumption
  <2>. DEFINE c == Changed(d)
              p == EnqueueAll(d) \o << c >>
  <2>2. stack' = EnqueueAll(d) \o << c >> \o rest
    BY <1>7 DEF ListMonitorAdd
  <2>3. c \in Frames /\ c.op = "changed"
    BY <1>1, <2>1
  <2>. HIDE DEF c
  <2>4. PushedTidily(p, rest) /\ p # << >>
    BY <2>1, <2>2, <2>3, Enqueues DEF PushedTidily
  <2>5. \A x \in Calls(p) : ByClient(x)
    BY <2>1, <2>3, Enqueues DEF ByClient
  <2>6. QED
    BY <2>4, <2>5
<1>8. ASSUME NEW d \in Listed, ListMonitorRemove(d, rest)
      PROVE  Goal
  <2>1. stack' = << Changed(d) >> \o rest /\ d \in Directories
    BY <1>8, DirectoryAsyncAssumption DEF ListMonitorRemove
  <2>2. QED
    BY <1>1, <1>2, <2>1
<1>9. ASSUME NEW d \in Listed, ForceReload(d, rest), Rest \/ "nested_reload" \in Uses
      PROVE  Goal
  <2>1. stack' = << Changed(d), Reload(d, 1) >> \o rest /\ d \in Directories
    BY <1>9, DirectoryAsyncAssumption DEF ForceReload
  <2>2. Reload(d, 1) \in Frames /\ Reload(d, 1).op = "reload"
    <3>1. 1 \in 1 .. 3
      OBVIOUS
    <3>2. QED
      BY <2>1, <3>1, FramesType, Ops
  <2>3. ByClient(Reload(d, 1))
    BY <1>9, <2>2 DEF ByClient
  <2>4. QED
    BY <1>1, <1>3, <2>1, <2>2, <2>3
<1>10. QED
  BY <1>4, <1>5, <1>6, <1>7, <1>8, <1>9, Zenon DEF ClientCall

\* Three calls pushed in two parts.
LEMMA PushedThreeTogether ==
  ASSUME NEW s \in Seq(Frames), NEW f \in Frames, NEW g \in Frames, NEW h \in Frames
  PROVE  << f, g >> \o (<< h >> \o s) = << f, g, h >> \o s
<1>. DEFINE t == << h >> \o s
<1>1. t \in Seq(Frames)
  OBVIOUS
<1>2. << f, g, h >> \o s = << f >> \o (<< g >> \o t)
  BY PushedInTurn
<1>. HIDE DEF t
<1>3. << f >> \o << g >> \o t = << f, g >> \o t
  BY <1>1, PushedTogether
<1>4. << f >> \o << g >> \o t = << f >> \o (<< g >> \o t)
  <2>1. << f >> \in Seq(Frames) /\ << g >> \in Seq(Frames)
    OBVIOUS
  <2>2. QED
    BY <1>1, <2>1, ConcatAssociative
<1>5. QED
  BY <1>2, <1>3, <1>4 DEF t

\* What a step of the engine pushes on the calls below the top.
Pushed(p) == PushedTidily(p, Below) /\ \A c \in Calls(p) : Pushable(c)

\* A step that returns, or pushes up to three calls in their place.
LEMMA PushedFew ==
  /\ TypeOK /\ stack # << >> /\ stack' = Below => \E p : Pushed(p)
  /\ \A a \in Frames : stack' = << a >> \o Below /\ Pushable(a) /\ a.op # "unload" => \E p : Pushed(p)
  /\ \A a, b \in Frames :
       (/\ stack' = << a, b >> \o Below /\ Pushable(a) /\ Pushable(b) /\ Over(a, b)
        /\ b.op \notin {"unload", "signal"}) => \E p : Pushed(p)
  /\ \A a, b, c \in Frames :
       (/\ stack' = << a, b, c >> \o Below /\ Pushable(a) /\ Pushable(b) /\ Pushable(c)
        /\ Over(a, b) /\ Over(a, c) /\ Over(b, c)
        /\ b.op # "signal" /\ c.op \notin {"unload", "signal"}) => \E p : Pushed(p)
<1>1. ASSUME TypeOK, stack # << >>, stack' = Below PROVE \E p : Pushed(p)
  <2>1. Below \in Seq(Frames)
    BY <1>1 DEF TypeOK, Below
  <2>2. << >> \o Below = Below
    BY <2>1
  <2>3. << >> \in Seq(Frames) /\ Calls(<< >>) = {} /\ Tidy(<< >>) /\ OneSignal(<< >>)
    BY DEF Calls, Tidy, OneSignal, Signals
  <2>4. PushedTidily(<< >>, Below)
    BY <1>1, <2>2, <2>3 DEF PushedTidily
  <2>5. QED
    BY <2>3, <2>4 DEF Pushed
<1>2. ASSUME NEW a \in Frames, stack' = << a >> \o Below, Pushable(a), a.op # "unload"
      PROVE  \E p : Pushed(p)
  <2>. DEFINE p == << a >>
  <2>1. /\ p \in Seq(Frames) /\ Calls(p) = {a} /\ Tidy(p) /\ OneSignal(p) /\ p[Len(p)] = a
        /\ stack' = p \o Below
    BY <1>2, OneCall
  <2>. HIDE DEF p
  <2>2. QED
    BY <1>2, <2>1 DEF Pushed, PushedTidily
<1>3. ASSUME NEW a \in Frames, NEW b \in Frames, stack' = << a, b >> \o Below,
             Pushable(a), Pushable(b), Over(a, b), b.op \notin {"unload", "signal"}
      PROVE  \E p : Pushed(p)
  <2>. DEFINE p == << a, b >>
  <2>1. p \in Seq(Frames) /\ Calls(p) = {a, b} /\ p[Len(p)] = b
    BY TwoCalls
  <2>2. Tidy(p)
    BY <1>3, TwoCalls
  <2>3. OneSignal(p)
    BY <1>3, TwoCalls
  <2>4. stack' = p \o Below
    BY <1>3
  <2>. HIDE DEF p
  <2>5. QED
    BY <1>3, <2>1, <2>2, <2>3, <2>4 DEF Pushed, PushedTidily
<1>4. ASSUME NEW a \in Frames, NEW b \in Frames, NEW c \in Frames, stack' = << a, b, c >> \o Below,
             Pushable(a), Pushable(b), Pushable(c), Over(a, b), Over(a, c), Over(b, c),
             b.op # "signal", c.op \notin {"unload", "signal"}
      PROVE  \E p : Pushed(p)
  <2>. DEFINE p == << a, b, c >>
  <2>1. p \in Seq(Frames) /\ Calls(p) = {a, b, c} /\ p[Len(p)] = c
    BY ThreeCalls
  <2>2. Tidy(p)
    BY <1>4, ThreeCalls
  <2>3. OneSignal(p)
    BY <1>4, ThreeCalls
  <2>4. stack' = p \o Below
    BY <1>4
  <2>. HIDE DEF p
  <2>5. QED
    BY <1>4, <2>1, <2>2, <2>3, <2>4 DEF Pushed, PushedTidily
<1>5. QED
  BY <1>1, <1>2, <1>3, <1>4

\* A pass that goes on, or ends by waking others.
LEMMA PassPushes ==
  ASSUME TypeOK, TypeOK', stack # << >>, Top.op = "service", NEW c, c.op \in {"service", "wake"},
         stack' = << c >> \o Below
  PROVE  \E p : Pushed(p)
<1>1. stack \in Seq(Frames) /\ stack' \in Seq(Frames) /\ Below \in Seq(Frames)
  BY DEF TypeOK, Below
<1>2. c \in Frames
  <2>1. 1 \in DOMAIN stack' /\ stack'[1] = c
    BY <1>1
  <2>2. QED
    BY <1>1, <2>1
<1>3. Pushable(c)
  BY DEF Pushable, QuietOps, PassOps
<1>4. QED
  BY <1>2, <1>3, PushedFew

\* A pass of the service loop that goes on to its next phase.
LEMMA PassesGoOn ==
  ASSUME TypeOK, TypeOK', PassesAreQuiet, stack # << >>, Top.op = "service",
         NEW at, NEW i, NEW io, GoTo(at, i, io)
  PROVE  \E p : Pushed(p)
<1>. DEFINE c == ServiceAt(Top.dir, at, i, io)
<1>1. stack' = << c >> \o Below /\ c.op = "service"
  BY Ops DEF GoTo
<1>. HIDE DEF c
<1>2. QED
  BY <1>1, PassPushes

\* Every step of the engine.
LEMMA Pushing ==
  ASSUME TypeOK, TypeOK', PassesAreQuiet, Step
  PROVE  \E p : Pushed(p)
<1>. DEFINE Goal == \E p : Pushed(p)
<1>1. stack \in Seq(Frames) /\ stack' \in Seq(Frames)
  BY DEF TypeOK
<1>2. /\ Signal \in Frames /\ Wake \in Frames /\ Waking \in Frames
      /\ \A d \in Directories :
           /\ Changed(d) \in Frames /\ Unload(d) \in Frames /\ EndLoad(d) \in Frames
           /\ Unlist(d) \in Frames
           /\ \A step \in 1 .. 3 : Reload(d, step) \in Frames
  BY FramesType
<1>3. CASE Handle
  <2>1. Top.op = "signal" /\ stack # << >>
    BY <1>3 DEF Handle, Pending
  <2>2. CASE stack' = Below
    BY <2>1, <2>2, PushedFew
  <2>3. CASE ClientCall(Below)
    <3>1. Below \in Seq(Frames) /\ ~Rest
      BY <1>1, <2>1 DEF Below, Rest
    <3>2. PICK p : PushedTidily(p, Below) /\ p # << >> /\ \A c \in Calls(p) : ByClient(c)
      BY <2>3, <3>1, ClientPushes
    <3>3. \A c : ByClient(c) => Pushable(c)
      BY <2>1, <3>1 DEF ByClient, Pushable, QuietOps, PassOps
    <3>4. QED
      BY <3>2, <3>3 DEF Pushed
  <2>4. QED
    BY <1>3, <2>2, <2>3 DEF Handle
<1>4. CASE CallOne
  <2>1. Top.op = "calling" /\ stack # << >> /\ stack' = << Signal >> \o stack
    BY <1>4 DEF CallOne, Pending
  <2>2. Top \in Frames /\ Below \in Seq(Frames) /\ stack = << Top >> \o Below
    BY <1>1, <2>1 DEF Top, Below
  <2>3. stack' = << Signal, Top >> \o Below
    <3>1. << Signal >> \o (<< Top >> \o Below) = << Signal, Top >> \o Below
      BY <1>2, <2>2, PushedTogether
    <3>2. QED
      BY <2>1, <2>2, <3>1
  <2>4. Pushable(Signal) /\ Pushable(Top)
    BY <2>1, Ops DEF Pushable, QuietOps, PassOps
  <2>5. Over(Signal, Top)
    BY <2>1 DEF Over, PassOps
  <2>6. QED
    BY <1>2, <2>1, <2>2, <2>3, <2>4, <2>5, PushedFew
<1>5. CASE CallNoMore
  <2>1. Top.op = "calling" /\ stack # << >> /\ stack' = << Changed(Top.dir) >> \o Below
    BY <1>5 DEF CallNoMore, Pending
  <2>2. Top.dir \in Directories
    BY <1>1, <2>1, TopType
  <2>3. Pushable(Changed(Top.dir)) /\ Changed(Top.dir).op # "unload"
    BY <2>1, Ops DEF Pushable, QuietOps, PassOps
  <2>4. QED
    BY <1>2, <2>1, <2>2, <2>3, PushedFew
<1>6. CASE EnqueueFile \/ End \/ EndDirectoryLoad \/ ForgetFileList \/ WakeNoMore
  <2>1. stack # << >> /\ stack' = Below
    BY <1>6 DEF EnqueueFile, End, EndDirectoryLoad, ForgetFileList, WakeNoMore, Pending
  <2>2. QED
    BY <2>1, PushedFew
<1>7. CASE MarkOutdated
  <2>1. Top.op = "outdate" /\ stack # << >> /\ stack' = << Changed(Home[Top.file]) >> \o Below
    BY <1>7 DEF MarkOutdated, Pending
  <2>2. Home[Top.file] \in Directories
    <3>1. Top.file \in Files
      BY <1>1, <2>1, TopType
    <3>2. QED
      BY <3>1, DirectoryAsyncAssumption
  <2>3. \A d : Pushable(Changed(d)) /\ Changed(d).op # "unload"
    BY <2>1, Ops DEF Pushable, QuietOps, PassOps
  <2>4. QED
    BY <1>2, <2>1, <2>2, <2>3, PushedFew
<1>8. CASE AnnounceLoaded
  <2>1. Top.op = "announce" /\ stack # << >>
        /\ \/ Top.dir \in loaded /\ stack' = << Signal, Changed(Top.dir) >> \o Below
           \/ stack' = Below
    BY <1>8 DEF AnnounceLoaded, Pending
  <2>2. CASE stack' = Below
    BY <2>1, <2>2, PushedFew
  <2>3. CASE Top.dir \in loaded /\ stack' = << Signal, Changed(Top.dir) >> \o Below
    <3>1. Top.dir \in Directories
      BY <1>1, <2>1, TopType
    <3>. DEFINE b == Changed(Top.dir)
    <3>2. b \in Frames /\ b.op = "changed" /\ Signal.op = "signal"
      BY <1>2, <3>1, Ops
    <3>. HIDE DEF b
    <3>3. Pushable(Signal) /\ Pushable(b)
      BY <2>1, <2>3, <3>2 DEF Pushable, QuietOps, PassOps
    <3>4. Over(Signal, b)
      BY <3>2 DEF Over, PassOps
    <3>5. stack' = << Signal, b >> \o Below
      BY <2>3 DEF b
    <3>6. QED
      BY <1>2, <3>2, <3>3, <3>4, <3>5, PushedFew
  <2>4. QED
    BY <2>1, <2>2, <2>3
<1>9. CASE UnloadDirectory
  <2>1. Top.op = "unload" /\ stack # << >>
    BY <1>9 DEF UnloadDirectory, Pending
  <2>2. Top.dir \in Directories /\ Below \in Seq(Frames)
    BY <1>1, <2>1, TopType
  <2>3. PICK h \in Directories : h = Home[Corresponding[Top.dir]]
    BY <2>2, DirectoryAsyncAssumption
  <2>. DEFINE b == EndLoad(Top.dir)
              a == Changed(h)
  <2>4. /\ a \in Frames /\ b \in Frames /\ a.op = "changed" /\ b.op = "endload" /\ b.dir = Top.dir
    BY <1>2, <2>2, <2>3, Ops, Fields
  <2>5. \/ stack' = Below
        \/ Top.dir \in loading /\ stack' = << a >> \o << b >> \o Below
        \/ Top.dir \in loading /\ stack' = << >> \o << b >> \o Below
    BY <1>9, <2>3 DEF UnloadDirectory
  <2>. HIDE DEF a, b
  <2>6. << a >> \o << b >> \o Below = << a, b >> \o Below /\ << >> \o << b >> \o Below = << b >> \o Below
    BY <2>2, <2>4, PushedTogether
  <2>7. Pushable(a) /\ Over(a, b)
    BY <2>1, <2>4 DEF Pushable, Over, QuietOps, PassOps
  <2>8. Top.dir \in loading => Pushable(b)
    BY <2>1, <2>4 DEF Pushable, QuietOps, PassOps
  <2>9. QED
    BY <2>1, <2>4, <2>5, <2>6, <2>7, <2>8, PushedFew
<1>10. CASE Reloading
  <2>1. Top.op = "reload" /\ stack # << >>
    BY <1>10 DEF Reloading, Pending
  <2>2. Top.dir \in Directories /\ Top.step \in 1 .. 3 /\ Below \in Seq(Frames)
    BY <1>1, <2>1, TopType
  <2>3. CASE Top.step = 1
    <3>. DEFINE a == Unload(Top.dir)
                b == Reload(Top.dir, 2)
    <3>1. stack' = << a, b >> \o Below
      BY <1>10, <2>3 DEF Reloading
    <3>2. 2 \in 1 .. 3
      OBVIOUS
    <3>3. a \in Frames /\ b \in Frames /\ a.op = "unload" /\ a.dir = Top.dir /\ b.op = "reload"
      BY <1>2, <2>2, <3>2, Ops, Fields
    <3>. HIDE DEF a, b
    <3>4. Pushable(a) /\ Pushable(b) /\ Over(a, b)
      BY <2>1, <2>2, <2>3, <3>3 DEF Pushable, Over, QuietOps, PassOps
    <3>5. QED
      BY <3>1, <3>3, <3>4, PushedFew
  <2>4. CASE Top.step = 2
    <3>1. PICK h \in Directories : h = Home[Corresponding[Top.dir]]
      BY <2>2, DirectoryAsyncAssumption
    <3>. DEFINE ks == RequestedBy(LoadFills \cap Kinds)
                a == Changed(h)
                b == Outdate(Corresponding[Top.dir], ks)
                c == Reload(Top.dir, 3)
    <3>2. stack' = << a, b >> \o (<< c >> \o Below)
      BY <1>10, <2>4, <3>1 DEF Reloading, InvalidateAttributes
    <3>3. 3 \in 1 .. 3
      OBVIOUS
    <3>4. b.op = "outdate"
      BY Ops
    <3>5. a \in Frames /\ a.op = "changed" /\ c \in Frames /\ c.op = "reload"
      BY <1>2, <2>2, <3>3, Ops
    <3>6. b \in Frames
      <4>1. \A k \in LoadFills \cap Kinds : RequestKinds(k) \subseteq Kinds
        BY DEF RequestKinds
      <4>2. ks \in SUBSET Kinds
        BY <4>1 DEF RequestedBy
      <4>3. Corresponding[Top.dir] \in Files
        BY <2>2, DirectoryAsyncAssumption
      <4>. HIDE DEF ks
      <4>4. QED
        BY <4>2, <4>3, FramesType
    <3>. HIDE DEF a, b, c
    <3>7. << a, b >> \o (<< c >> \o Below) = << a, b, c >> \o Below
      BY <2>2, <3>5, <3>6, PushedThreeTogether
    <3>8. /\ Pushable(a) /\ Pushable(b) /\ Pushable(c)
          /\ Over(a, b) /\ Over(a, c) /\ Over(b, c)
      BY <2>1, <3>4, <3>5 DEF Pushable, Over, QuietOps, PassOps
    <3>9. QED
      BY <3>2, <3>4, <3>5, <3>6, <3>7, <3>8, PushedFew
  <2>5. CASE Top.step = 3
    <3>. DEFINE c == Changed(Top.dir)
                p == EnqueueAll(Top.dir) \o << c >>
    <3>1. stack' = EnqueueAll(Top.dir) \o << c >> \o Below
      BY <1>10, <2>5 DEF Reloading
    <3>2. c \in Frames /\ c.op = "changed"
      BY <1>2, <2>2, Ops
    <3>. HIDE DEF c
    <3>3. PushedTidily(p, Below)
      BY <2>2, <3>1, <3>2, Enqueues DEF PushedTidily
    <3>4. \A x \in Calls(p) : x.op \in {"changed", "enqueue"}
      BY <2>2, <3>2, Enqueues
    <3>. HIDE DEF p
    <3>5. \A x : x.op \in {"changed", "enqueue"} => Pushable(x)
      BY <2>1 DEF Pushable, QuietOps, PassOps
    <3>6. QED
      BY <3>3, <3>4, <3>5 DEF Pushed
  <2>6. QED
    BY <2>2, <2>3, <2>4, <2>5
<1>11. CASE StateChanged
  <2>1. Top.op = "changed" /\ stack # << >>
        /\ (stack' = Below \/ GoTo("list", 1, NoFile))
    BY <1>11 DEF StateChanged, Pending
  <2>2. CASE stack' = Below
    BY <2>1, <2>2, PushedFew
  <2>3. CASE GoTo("list", 1, NoFile)
    <3>. DEFINE c == ServiceAt(Top.dir, "list", 1, NoFile)
    <3>1. stack' = << c >> \o Below /\ c.op = "service"
      BY <2>3, Ops DEF GoTo
    <3>. HIDE DEF c
    <3>2. c \in Frames
      <4>1. 1 \in DOMAIN stack' /\ stack'[1] = c
        <5>1. Below \in Seq(Frames)
          BY <1>1, <2>1 DEF Below
        <5>2. QED
          BY <1>1, <3>1, <5>1
      <4>2. QED
        BY <1>1, <4>1
    <3>3. Pushable(c)
      BY <2>1, <3>1 DEF Pushable, QuietOps, PassOps
    <3>4. QED
      BY <3>1, <3>2, <3>3, PushedFew
  <2>4. QED
    BY <2>1, <2>2, <2>3
<1>12. CASE StartFileList
  <2>1. Top.op = "service" /\ stack # << >> /\ GoTo("stop", 1, NoFile)
    BY <1>12 DEF StartFileList, AtPhase, Pending
  <2>2. QED
    BY <2>1, PassesGoOn
<1>13. CASE StopFileList
  <2>1. Top.op = "service" /\ stack # << >>
    BY <1>13 DEF StopFileList, AtPhase, Pending
  <2>2. Top.dir \in Directories /\ Below \in Seq(Frames)
    BY <1>1, <2>1, TopType
  <2>. DEFINE a == Unload(Top.dir)
              b == Unlist(Top.dir)
              c == ServiceAt(Top.dir, "stop", 1, NoFile)
  <2>3. \/ stack' = << c >> \o Below
        \/ ~Settled(Top.dir) /\ stack' = << a, b >> \o (<< c >> \o Below)
    BY <1>13 DEF StopFileList, Settled
  <2>4. "stop" \in Phases /\ 1 \in Nat /\ NoFile \in Files \cup {NoFile}
    BY DEF Phases
  <2>5. /\ a \in Frames /\ a.op = "unload" /\ a.dir = Top.dir
        /\ b \in Frames /\ b.op = "unlist" /\ b.dir = Top.dir
        /\ c.op = "service"
    BY <1>2, <2>2, Ops, Fields
  <2>6. c \in Frames
    BY <2>2, <2>4, FramesType
  <2>. HIDE DEF a, b, c
  <2>7. CASE stack' = << c >> \o Below
    BY <2>1, <2>5, <2>7, PassPushes
  <2>8. CASE ~Settled(Top.dir) /\ stack' = << a, b >> \o (<< c >> \o Below)
    <3>1. << a, b >> \o (<< c >> \o Below) = << a, b, c >> \o Below
      BY <2>2, <2>5, <2>6, PushedThreeTogether
    <3>2. Over(a, b) /\ Over(a, c) /\ Over(b, c)
      BY <2>5 DEF Over, QuietOps, PassOps
    <3>3. Pushable(a)
      BY <2>1, <2>2, <2>5, <2>8 DEF Pushable, QuietOps, PassOps
    <3>4. Pushable(b) /\ Pushable(c)
      BY <2>1, <2>2, <2>5, <2>8 DEF Pushable, QuietOps, PassOps
    <3>5. QED
      BY <2>5, <2>6, <2>8, <3>1, <3>2, <3>3, <3>4, PushedFew
  <2>9. QED
    BY <2>3, <2>7, <2>8
<1>14. CASE \/ StopUnwanted \/ StopsDone
            \/ \E level \in Levels : StartJob(level) \/ FinishHead(level) \/ NextLevel(level)
  <2>1. /\ Top.op = "service" /\ stack # << >>
        /\ \E at, i, io : GoTo(at, i, io)
    <3>1. CASE StopUnwanted
      BY <3>1 DEF StopUnwanted, AtPhase, Pending
    <3>2. CASE StopsDone
      BY <3>2 DEF StopsDone, AtPhase, Pending
    <3>3. ASSUME NEW level \in Levels, StartJob(level)
          PROVE  Top.op = "service" /\ stack # << >> /\ \E at, i, io : GoTo(at, i, io)
      BY <3>3 DEF StartJob, AtPhase, Pending
    <3>4. ASSUME NEW level \in Levels, FinishHead(level)
          PROVE  Top.op = "service" /\ stack # << >> /\ \E at, i, io : GoTo(at, i, io)
      BY <3>4 DEF FinishHead, AtPhase, Pending
    <3>5. ASSUME NEW level \in Levels, NextLevel(level)
          PROVE  Top.op = "service" /\ stack # << >> /\ \E at, i, io : GoTo(at, i, io)
      BY <3>5 DEF NextLevel, AtPhase, Pending
    <3>6. QED
      BY <1>14, <3>1, <3>2, <3>3, <3>4, <3>5
  <2>2. QED
    BY <2>1, PassesGoOn
<1>15. ASSUME NEW level \in Levels, Skip(level) PROVE Goal
  <2>1. /\ Top.op = "service" /\ stack # << >>
        /\ \E j, f : \/ stack' = << ServiceAt(Top.dir, level, j + 1, f) >> \o Below
                     \/ \E k : << f, k >> \in AtOnce /\ JobOf[k].skips = "signals"
    BY <1>15 DEF Skip, AtPhase, Pending
  <2>2. \A f, k : << f, k >> \in AtOnce => JobOf[k].skips # "signals"
    BY DEF PassesAreQuiet
  <2>3. PICK j, f : stack' = << ServiceAt(Top.dir, level, j + 1, f) >> \o Below
    BY <2>1, <2>2
  <2>4. GoTo(level, j + 1, f)
    BY <2>3 DEF GoTo
  <2>5. QED
    BY <2>1, <2>4, PassesGoOn
<1>16. CASE StartExtensionAtOnce
  BY <1>16 DEF StartExtensionAtOnce, PassesAreQuiet
<1>17. CASE CallReady
  <2>1. /\ Top.op = "service" /\ stack # << >>
        /\ (GoTo("list", 1, NoFile) \/ stack' = << Wake >> \o Below)
    BY <1>17 DEF CallReady, AtPhase, Pending
  <2>2. Wake.op = "wake"
    BY Ops
  <2>3. QED
    BY <2>1, <2>2, PassesGoOn, PassPushes
<1>18. CASE WakeUp
  <2>1. Top.op = "wake" /\ stack # << >> /\ (stack' = Below \/ stack' = << Waking >> \o Below)
    BY <1>18 DEF WakeUp, Pending
  <2>2. Pushable(Waking) /\ Waking.op # "unload"
    BY <2>1, Ops DEF Pushable, QuietOps, PassOps
  <2>3. QED
    BY <1>2, <2>1, <2>2, PushedFew
<1>19. CASE WakeOne
  <2>1. PICK d \in waiting : Top.op = "waking" /\ stack # << >> /\ stack' = << Changed(d) >> \o stack
    BY <1>19 DEF WakeOne, Pending
  <2>. DEFINE a == Changed(d)
  <2>2. Top \in Frames /\ Below \in Seq(Frames) /\ stack = << Top >> \o Below
    BY <1>1, <2>1 DEF Top, Below
  <2>3. a \in Frames /\ a.op = "changed"
    BY <1>2, Ops DEF TypeOK
  <2>. HIDE DEF a
  <2>4. stack' = << a, Top >> \o Below
    <3>1. << a >> \o (<< Top >> \o Below) = << a, Top >> \o Below
      BY <2>2, <2>3, PushedTogether
    <3>2. QED
      BY <2>1, <2>2, <3>1 DEF a
  <2>5. Pushable(a) /\ Pushable(Top) /\ Over(a, Top)
    BY <2>1, <2>3 DEF Pushable, Over, QuietOps, PassOps
  <2>6. QED
    BY <2>1, <2>2, <2>3, <2>4, <2>5, PushedFew
<1>20. QED
  BY <1>3, <1>4, <1>5, <1>6, <1>7, <1>8, <1>9, <1>10, <1>11, <1>12, <1>13, <1>14, <1>15, <1>16,
     <1>17, <1>18, <1>19 DEF Step

\* A load that is done.
LEMMA LoadDonePushes ==
  ASSUME NEW d \in Directories, LoadDone(d)
  PROVE  /\ Tidy(stack') /\ OneSignal(stack') /\ stack' # << >> /\ stack'[Len(stack')] = Unload(d)
         /\ Calls(stack') = {Signal, Announce(d), Changed(d), Unload(d)}
         /\ loaded' = loaded \cup {d}
         /\ UNCHANGED << waiting, listWanted, listMonitored, loading, loadingFlag, inLoop, stateChanged >>
<1>. DEFINE a == Announce(d)
            b == Changed(d)
            c == Unload(d)
<1>1. /\ a \in Frames /\ b \in Frames /\ c \in Frames /\ Signal \in Frames
      /\ a.op = "announce" /\ b.op = "changed" /\ c.op = "unload" /\ Signal.op = "signal"
  BY FramesType, Ops
<1>2. stack' = << Signal, a, b, c >> /\ stack' # << >>
  BY DEF LoadDone
<1>3. loaded' = loaded \cup {d}
      /\ UNCHANGED << waiting, listWanted, listMonitored, loading, loadingFlag, inLoop, stateChanged >>
  BY DEF LoadDone, slotVars, loopVars
<1>. HIDE DEF a, b, c
<1>4. Over(Signal, a) /\ Over(Signal, b) /\ Over(a, b) /\ Over(Signal, c) /\ Over(a, c) /\ Over(b, c)
  BY <1>1 DEF Over, PassOps
<1>5. /\ Tidy(<< Signal, a, b, c >>)
      /\ << Signal, a, b, c >>[Len(<< Signal, a, b, c >>)] = c
      /\ Calls(<< Signal, a, b, c >>) = {Signal, a, b, c}
  BY <1>1, <1>4, FourCalls
<1>6. OneSignal(<< Signal, a, b, c >>)
  BY <1>1, FourCalls
<1>7. QED
  BY <1>2, <1>3, <1>5, <1>6 DEF a, b, c

\* Every other event.
LEMMA EventsPush ==
  ASSUME TypeOK, MainLoop, \A d \in Directories : ~LoadDone(d)
  PROVE  /\ Tidy(stack') /\ ~LoadEnds(stack')
         /\ \A c \in Calls(stack') : c.op \notin {"unload", "endload", "unlist"}
<1>. DEFINE Goal == /\ Tidy(stack') /\ ~LoadEnds(stack')
                    /\ \A c \in Calls(stack') : c.op \notin {"unload", "endload", "unlist"}
<1>1. ASSUME NEW s \in Seq(Frames), stack' = s, \A c \in Calls(s) : c.op \notin QuietOps \ {"changed"},
             \A c \in Calls(s) : c.op = "reload" => FALSE
      PROVE  Goal
  <2>1. \A c \in Calls(s) : c.op \notin {"unload", "endload", "unlist", "reload"} \cup PassOps
    BY <1>1 DEF QuietOps, PassOps
  <2>2. \A i \in DOMAIN s : s[i] \in Calls(s)
    BY DEF Calls
  <2>3. Tidy(s)
    BY <2>1, <2>2 DEF Tidy, Over
  <2>4. ~LoadEnds(s)
    <3>1. s # << >> => Len(s) \in DOMAIN s
      OBVIOUS
    <3>2. QED
      BY <2>1, <2>2, <3>1 DEF LoadEnds
  <2>5. QED
    BY <1>1, <2>1, <2>3, <2>4
<1>2. \A d \in Directories, k \in Kinds :
        /\ Changed(d).op = "changed" /\ EndJob(d, k).op = "end"
        /\ Signal.op = "signal" /\ Calling(d).op = "calling"
        /\ Changed(d) \in Frames /\ EndJob(d, k) \in Frames /\ Signal \in Frames /\ Calling(d) \in Frames
  BY FramesType, Ops
<1>3. CASE Request
  <2>1. ClientCall(<< >>)
    BY <1>3 DEF Request
  <2>2. << >> \in Seq(Frames)
    BY NoCalls
  <2>3. PICK p : PushedTidily(p, << >>) /\ p # << >> /\ \A c \in Calls(p) : ByClient(c)
    BY <2>1, <2>2, ClientPushes
  <2>4. stack' = p /\ p \in Seq(Frames) /\ Tidy(p) /\ p[Len(p)].op # "unload"
    BY <2>3 DEF PushedTidily
  <2>5. \A c \in Calls(p) : c.op \notin {"unload", "endload", "unlist"}
    BY <2>3 DEF ByClient
  <2>6. QED
    BY <2>4, <2>5 DEF LoadEnds
<1>4. ASSUME NEW d \in Directories, NEW k \in Kinds, Answer(d, k)
      PROVE  Goal
  <2>1. \/ stack' = << Signal, EndJob(d, k), Changed(d) >>
        \/ stack' = << Signal, Signal, EndJob(d, k), Changed(d) >>
        \/ stack' = << Changed(d), Signal >>
    BY <1>4, Zenon DEF Answer
  <2>2. stack' \in Seq(Frames) /\ Calls(stack') \subseteq {Signal, EndJob(d, k), Changed(d)}
    BY <2>1, EventsReady DEF Ready
  <2>3. \A c \in Calls(stack') : c.op \in {"signal", "end", "changed"}
    BY <1>2, <2>2
  <2>4. QED
    BY <1>1, <2>2, <2>3 DEF QuietOps, PassOps
<1>5. ASSUME NEW d \in Directories,
             \/ \E k \in Kinds : AnswerCancelled(d, k)
             \/ DeepCountProgress(d) \/ CallReadyCallbacks(d)
      PROVE  Goal
  <2>1. stack' = << Changed(d) >> \/ stack' = << Signal >> \/ stack' = << Calling(d) >>
    BY <1>5 DEF AnswerCancelled, DeepCountProgress, CallReadyCallbacks
  <2>2. stack' \in Seq(Frames) /\ Calls(stack') \subseteq {Signal, Calling(d), Changed(d)}
    BY <2>1, EventsReady DEF Ready
  <2>3. \A c \in Calls(stack') : c.op \in {"signal", "calling", "changed"}
    BY <2>2, Ops
  <2>4. QED
    BY <1>1, <2>2, <2>3 DEF QuietOps, PassOps
<1>6. QED
  BY <1>3, <1>4, <1>5 DEF MainLoop

-----------------------------------------------------------------------------
(***************************************************************************)
(* Who changes what is about file lists.                                   *)
(***************************************************************************)
LEMMA ClientLists ==
  ASSUME NEW rest \in Seq(Frames), ClientCall(rest)
  PROVE  /\ UNCHANGED << listMonitored, loaded, loading, loadingFlag, waiting, inLoop, stateChanged >>
         /\ \A d : d \in listWanted /\ d \notin listWanted' => stack' = << Changed(d) >> \o rest
         /\ \A d : d \in listWanted' /\ d \notin listWanted => Changed(d) \in Calls(stack')
<1>. DEFINE Goal ==
       /\ UNCHANGED << listMonitored, loaded, loading, loadingFlag, waiting, inLoop, stateChanged >>
       /\ \A d : d \in listWanted /\ d \notin listWanted' => stack' = << Changed(d) >> \o rest
       /\ \A d : d \in listWanted' /\ d \notin listWanted => Changed(d) \in Calls(stack')
<1>1. ASSUME NEW r \in Requests,
             \/ MonitorAdd(r[1], r[2], rest) \/ MonitorRemove(r[1], r[2], rest)
             \/ CallWhenReady(r[1], r[2], rest) \/ CancelCallback(r[1], r[2], rest)
             \/ NotifyFilesChanged(r[1], rest)
      PROVE  Goal
  BY <1>1 DEF MonitorAdd, MonitorRemove, CallWhenReady, CancelCallback, NotifyFilesChanged,
              slotVars, listVars, loopVars
<1>2. ASSUME NEW r \in Requests, InvalidateAttributes(r[1], {r[2]}, rest),
             UNCHANGED << attributeVars, requestVars, listWanted, listVars, loopVars >>
      PROVE  Goal
  BY <1>2 DEF InvalidateAttributes, listVars, loopVars
<1>3. ASSUME NEW d \in Listed, ForceReload(d, rest)
      PROVE  Goal
  BY <1>3 DEF ForceReload, listVars, loopVars
<1>4. ASSUME NEW d \in Listed, ListMonitorAdd(d, rest)
      PROVE  Goal
  <2>1. listWanted' = listWanted \cup {d}
        /\ UNCHANGED << listMonitored, loaded, loading, loadingFlag, waiting, inLoop, stateChanged >>
    BY <1>4 DEF ListMonitorAdd, slotVars, listVars, loopVars
  <2>2. d \in Directories
    BY DirectoryAsyncAssumption
  <2>. DEFINE c == Changed(d)
              p == EnqueueAll(d) \o << c >>
  <2>3. stack' = EnqueueAll(d) \o << c >> \o rest /\ c \in Frames /\ c.op = "changed"
    BY <1>4, <2>2, FramesType, Ops DEF ListMonitorAdd
  <2>. HIDE DEF c
  <2>4. p \in Seq(Frames) /\ stack' = p \o rest /\ p # << >> /\ p[Len(p)] = c
    BY <2>2, <2>3, Enqueues
  <2>5. c \in Calls(p)
    <3>1. Len(p) \in DOMAIN p
      BY <2>4
    <3>2. QED
      BY <2>4, <3>1 DEF Calls
  <2>. HIDE DEF p
  <2>6. c \in Calls(stack')
    BY <2>4, <2>5, PushedOn
  <2>7. QED
    BY <2>1, <2>6 DEF c
<1>5. ASSUME NEW d \in Listed, ListMonitorRemove(d, rest)
      PROVE  Goal
  BY <1>5 DEF ListMonitorRemove, slotVars, listVars, loopVars
<1>6. QED
  BY <1>1, <1>2, <1>3, <1>4, <1>5, Zenon DEF ClientCall

\* Who changes which lists are wanted, and which are monitored.
LEMMA ListSteps ==
  ASSUME Step
  PROVE  /\ Top.op # "signal" => listWanted' = listWanted
         /\ Top.op = "signal" =>
              \/ stack' = Below /\ listWanted' = listWanted
              \/ ClientCall(Below)
         /\ Top.op # "service" => listMonitored' = listMonitored
         /\ \A d \in listMonitored' : d \in listMonitored \/ d \in listWanted
<1>1. CASE Handle
  <2>1. Top.op = "signal"
    BY <1>1 DEF Handle, Pending
  <2>2. listMonitored' = listMonitored
    BY <1>1 DEF Handle, ClientCall, MonitorAdd, MonitorRemove, CallWhenReady, CancelCallback,
                ListMonitorAdd, ListMonitorRemove, InvalidateAttributes, ForceReload,
                NotifyFilesChanged, listVars
  <2>3. (stack' = Below /\ listWanted' = listWanted) \/ ClientCall(Below)
    BY <1>1 DEF Handle
  <2>4. QED
    BY <2>1, <2>2, <2>3
<1>2. CASE \/ CallOne \/ CallNoMore \/ EnqueueFile \/ End \/ MarkOutdated \/ AnnounceLoaded
           \/ UnloadDirectory \/ EndDirectoryLoad \/ ForgetFileList \/ Reloading \/ StateChanged
           \/ WakeUp \/ WakeOne \/ WakeNoMore
  BY <1>2 DEF CallOne, CallNoMore, EnqueueFile, End, MarkOutdated, AnnounceLoaded,
              UnloadDirectory, EndDirectoryLoad, ForgetFileList, Reloading, StateChanged,
              WakeUp, WakeOne, WakeNoMore, Pending, listVars
<1>3. CASE StartFileList \/ StopFileList
  BY <1>3 DEF StartFileList, StopFileList, AtPhase, Pending
<1>4. CASE StopUnwanted \/ StopsDone \/ StartExtensionAtOnce \/ CallReady
  BY <1>4 DEF StopUnwanted, StopsDone, StartExtensionAtOnce, CallReady, AtPhase, Pending, listVars
<1>5. ASSUME NEW level \in Levels, StartJob(level) \/ Skip(level) \/ FinishHead(level) \/ NextLevel(level)
      PROVE  listMonitored' = listMonitored /\ listWanted' = listWanted /\ Top.op = "service"
  BY <1>5 DEF StartJob, Skip, FinishHead, NextLevel, AtPhase, Pending, listVars
<1>6. QED
  BY <1>1, <1>2, <1>3, <1>4, <1>5 DEF Step

-----------------------------------------------------------------------------
(***************************************************************************)
(* A load is ended once.                                                   *)
(***************************************************************************)
\* While the list of d is monitored though nobody wants it, the pass that will stop
\* it is the next call; a load that is about to be ended is in progress, and no pass
\* is about to stop it.
SettledInv ==
  \A d \in Directories :
    ~Settled(d) => /\ stack # << >>
                   /\ (Top = Changed(d) /\ d \notin inLoop) \/ Top = ServiceAt(d, "list", 1, NoFile)
EndInv == \A d \in Directories : EndLoad(d) \in Calls(stack) => d \in loading /\ Settled(d)

LoadOnceInv == BaseInv /\ Tidy(stack) /\ SettledInv /\ EndInv

\* What a pending call is.
LEMMA ByOp ==
  ASSUME NEW c \in Frames
  PROVE  /\ c.op = "changed" => c = Changed(c.dir) /\ c.dir \in Directories
         /\ c.op = "unload" => c = Unload(c.dir) /\ c.dir \in Directories
         /\ c.op = "endload" => c = EndLoad(c.dir) /\ c.dir \in Directories
         /\ c.op = "unlist" => c = Unlist(c.dir) /\ c.dir \in Directories
         /\ c.op = "announce" => c = Announce(c.dir) /\ c.dir \in Directories
         /\ c.op = "reload" => c = Reload(c.dir, c.step) /\ c.dir \in Directories
BY DEF Frames, Changed, Unload, EndLoad, Unlist, Announce, Reload

\* What the top of the stack, and what is below it, says before a step.
LEMMA BeforeStep ==
  ASSUME TypeOK, BaseInv, Tidy(stack), Step
  PROVE  /\ stack \in Seq(Frames) /\ stack # << >> /\ Below \in Seq(Frames) /\ Top \in Frames
         /\ Calls(stack) = {Top} \cup Calls(Below) /\ Calls(Below) \subseteq Calls(stack')
         /\ Tidy(Below) /\ \A c \in Calls(Below) : Over(Top, c)
         /\ Top.op \notin QuietOps => \A c \in Calls(Below) : c.op \notin PassOps
         /\ Top.op = "signal" => inLoop = {}
<1>1. stack \in Seq(Frames) /\ stack # << >> /\ Shape(stack) /\ Homed
  BY TopDecides DEF TypeOK, BaseInv
<1>2. Below \in Seq(Frames) /\ Top \in Frames
  BY <1>1 DEF Below, Top
<1>3. Calls(stack) = {Top} \cup Calls(Below) /\ Calls(Below) \subseteq Calls(stack')
  BY <1>1, Pops, StackNext
<1>4. Tidy(Below) /\ \A c \in Calls(Below) : Over(Top, c)
  BY <1>1, TidyTop
<1>5. Top.op \notin QuietOps => \A c \in Calls(Below) : c.op \notin PassOps
  BY <1>4 DEF Over
<1>6. ASSUME Top.op = "signal", NEW d \in inLoop PROVE FALSE
  <2>1. PICK c \in Calls(stack) : c.op = "service"
    BY DEF BaseInv, LoopInv, Passing
  <2>2. c \in Calls(Below)
    BY <1>3, <1>6, <2>1
  <2>3. QED
    BY <1>5, <1>6, <2>1, <2>2 DEF QuietOps, PassOps
<1>7. QED
  BY <1>1, <1>2, <1>3, <1>4, <1>5, <1>6

\* What is pushed is in its place above what is below.
LEMMA TidyStep ==
  ASSUME TypeOK, TypeOK', PassesAreQuiet, LoadOnceInv, Step
  PROVE  Tidy(stack')
<1>1. /\ stack # << >> /\ Below \in Seq(Frames) /\ Calls(stack) = {Top} \cup Calls(Below)
      /\ Tidy(Below) /\ \A c \in Calls(Below) : Over(Top, c)
  BY BeforeStep DEF LoadOnceInv
<1>2. PICK p : Pushed(p)
  BY Pushing
<1>3. p \in Seq(Frames) /\ stack' = p \o Below /\ Tidy(p) /\ \A a \in Calls(p) : Pushable(a)
  BY <1>2 DEF Pushed, PushedTidily
<1>4. ASSUME NEW a \in Calls(p), NEW b \in Calls(Below) PROVE Over(a, b)
  <2>1. Pushable(a) /\ Over(Top, b)
    BY <1>1, <1>3
  <2>2. b.op \in PassOps => a.op \in QuietOps
    BY <2>1 DEF Over, Pushable
  <2>3. ASSUME b.op = "endload", a.op \in {"unload", "endload"}, a.dir = b.dir PROVE FALSE
    <3>1. Top.op \in QuietOps /\ ~(Top.op \in {"unload", "endload"} /\ Top.dir = b.dir)
      BY <2>1, <2>3 DEF Over, PassOps
    <3>2. CASE a.op = "endload"
      BY <2>1, <2>3, <3>1, <3>2 DEF Pushable
    <3>3. CASE a.op = "unload"
      <4>1. a.dir = Top.dir /\ Top.dir \in Directories
            /\ (Top.op = "reload" \/ ~Settled(Top.dir))
        BY <2>1, <3>3 DEF Pushable
      <4>2. Top.op # "reload"
        BY <3>1 DEF QuietOps, PassOps
      <4>3. b \in Frames /\ b \in Calls(stack)
        BY <1>1, CallsOf
      <4>4. b = EndLoad(b.dir) /\ b.dir \in Directories
        BY <2>3, <4>3, ByOp
      <4>5. Settled(b.dir)
        BY <4>3, <4>4 DEF LoadOnceInv, EndInv
      <4>6. QED
        BY <2>3, <4>1, <4>2, <4>5
    <3>4. QED
      BY <2>3, <3>2, <3>3
  <2>4. b.op = "reload" /\ "nested_reload" \notin Uses => a.op \in QuietOps \cup {"outdate"}
    <3>1. SUFFICES ASSUME b.op = "reload", "nested_reload" \notin Uses
                   PROVE  a.op \in QuietOps \cup {"outdate"}
      OBVIOUS
    <3>2. Top.op \in QuietOps \cup {"outdate"}
      BY <2>1, <3>1 DEF Over
    <3>3. QED
      BY <2>1, <3>2 DEF Pushable, QuietOps
  <2>5. b.op = "unload" => a.op # "calling" /\ (a.op = "reload" => "nested_reload" \in Uses)
    BY <2>1 DEF Over, Pushable
  <2>6. QED
    BY <2>2, <2>3, <2>4, <2>5 DEF Over
<1>5. QED
  BY <1>1, <1>3, <1>4, PushedOn

\* A list that is monitored though nobody wants it is stopped by the very next pass:
\* the client that gives it up calls the state machine, and nothing comes between.
LEMMA SettledStep ==
  ASSUME TypeOK, TypeOK', LoadOnceInv, Step
  PROVE  SettledInv'
<1>1. /\ stack \in Seq(Frames) /\ stack # << >> /\ Below \in Seq(Frames) /\ Top \in Frames
      /\ Top.op = "signal" => inLoop = {}
  BY BeforeStep DEF LoadOnceInv
<1>2. SUFFICES ASSUME NEW d \in Directories, ~Settled(d)'
               PROVE  /\ stack' # << >>
                      /\ \/ Head(stack') = Changed(d) /\ d \notin inLoop'
                         \/ Head(stack') = ServiceAt(d, "list", 1, NoFile)
  BY DEF SettledInv, Top
<1>3. d \in listMonitored' /\ d \notin listWanted'
  BY <1>2 DEF Settled
<1>4. \A x : << x >> \o Below # << >> /\ Head(<< x >> \o Below) = x
  <2>1. TAKE x
  <2>2. Len(<< x >> \o Below) = 1 + Len(Below) /\ (<< x >> \o Below)[1] = x /\ Len(Below) \in Nat
    BY <1>1
  <2>3. QED
    BY <2>2
<1>5. CASE Settled(d)
  <2>1. d \in listWanted
    BY <1>3, <1>5, ListSteps DEF Settled
  <2>2. Top.op = "signal" /\ ClientCall(Below)
    BY <1>3, <2>1, ListSteps
  <2>3. stack' = << Changed(d) >> \o Below /\ inLoop' = inLoop
    BY <1>1, <1>3, <2>1, <2>2, ClientLists
  <2>4. QED
    BY <1>1, <1>4, <2>2, <2>3
<1>6. CASE ~Settled(d)
  <2>1. (Top = Changed(d) /\ d \notin inLoop) \/ Top = ServiceAt(d, "list", 1, NoFile)
    BY <1>6 DEF LoadOnceInv, SettledInv
  <2>2. CASE Top = Changed(d) /\ d \notin inLoop
    <3>1. Top.op = "changed" /\ Top.dir = d
      BY <2>2, Ops, Fields
    <3>2. GoTo("list", 1, NoFile)
      BY <2>2, <3>1, TopDecides DEF StateChanged
    <3>3. stack' = << ServiceAt(d, "list", 1, NoFile) >> \o Below
      BY <3>1, <3>2 DEF GoTo
    <3>4. QED
      BY <1>4, <3>3
  <2>3. CASE Top = ServiceAt(d, "list", 1, NoFile)
    <3>1. Top.op = "service" /\ Top.dir = d /\ Top.at = "list"
      BY <2>3 DEF ServiceAt
    <3>2. StartFileList \/ StopFileList
      BY <3>1, TopDecides
    <3>3. d \notin listWanted
      BY <1>6 DEF Settled
    <3>4. listMonitored' = listMonitored \ {d}
      BY <3>1, <3>2, <3>3 DEF StartFileList, StopFileList
    <3>5. QED
      BY <1>3, <3>4
  <2>4. QED
    BY <2>1, <2>2, <2>3
<1>7. QED
  BY <1>5, <1>6

\* No step ends a load that is about to be ended by a call further down.
LEMMA EndStep ==
  ASSUME TypeOK, TypeOK', LoadOnceInv, Step
  PROVE  EndInv'
<1>1. /\ stack \in Seq(Frames) /\ stack # << >> /\ Below \in Seq(Frames) /\ Top \in Frames
      /\ Calls(stack) = {Top} \cup Calls(Below)
      /\ \A c \in Calls(Below) : Over(Top, c)
      /\ Top.op \notin QuietOps => \A c \in Calls(Below) : c.op \notin PassOps
  BY BeforeStep DEF LoadOnceInv
<1>2. SUFFICES ASSUME NEW d \in Directories, EndLoad(d) \in Calls(stack')
               PROVE  d \in loading' /\ Settled(d)'
  BY DEF EndInv, Settled
<1>3. EndLoad(d).op = "endload" /\ EndLoad(d).dir = d /\ OfLoads(EndLoad(d))
  BY Fields DEF OfLoads
<1>4. CASE EndLoad(d) \in Calls(Below)
  <2>1. d \in loading /\ Settled(d)
    BY <1>1, <1>4 DEF LoadOnceInv, EndInv
  <2>2. Top.op \in QuietOps /\ ~(Top.op = "endload" /\ Top.dir = d)
    BY <1>1, <1>3, <1>4 DEF Over, PassOps
  <2>3. d \in loading'
    <3>1. CASE EndDirectoryLoad
      <4>1. Top.op = "endload"
        BY <3>1 DEF EndDirectoryLoad, Pending
      <4>2. QED
        BY <2>1, <2>2, <3>1, <4>1, LoadSteps
    <3>2. CASE ~EndDirectoryLoad
      BY <2>1, <3>2, LoadSteps
    <3>3. QED
      BY <3>1, <3>2
  <2>4. Top.op # "signal"
    BY <2>2 DEF QuietOps, PassOps
  <2>5. Settled(d)'
    BY <2>1, <2>4, ListSteps DEF Settled
  <2>6. QED
    BY <2>3, <2>5
<1>5. CASE EndLoad(d) \notin Calls(Below)
  <2>1. UnloadDirectory /\ EndLoad(d) = EndLoad(Top.dir) /\ Top = Unload(Top.dir) /\ Top.dir \in loading
    BY <1>2, <1>3, <1>5, StepLoads DEF LoadOnceInv, BaseInv
  <2>2. d = Top.dir /\ Top.op = "unload"
    BY <1>3, <2>1, Fields, Ops
  <2>3. Settled(d)
    <3>1. Top # Changed(d) /\ Top # ServiceAt(d, "list", 1, NoFile)
      BY <2>2, Ops
    <3>2. QED
      BY <3>1 DEF LoadOnceInv, SettledInv
  <2>4. loading' = loading /\ listMonitored' = listMonitored /\ listWanted' = listWanted
    BY <2>1 DEF UnloadDirectory
  <2>5. QED
    BY <2>1, <2>2, <2>3, <2>4 DEF Settled
<1>6. QED
  BY <1>4, <1>5

\* The invariant of the ends of loads is inductive.
LEMMA LoadOnceInductive ==
  ASSUME PassesAreQuiet
  PROVE  /\ Init => LoadOnceInv
         /\ TypeOK /\ TypeOK' /\ LoadOnceInv /\ [Next]_vars => LoadOnceInv'
<1>1. ASSUME Init PROVE LoadOnceInv
  <2>1. stack = << >> /\ listMonitored = {}
    BY <1>1 DEF Init
  <2>2. Tidy(stack) /\ Calls(stack) = {}
    BY <2>1, NoCalls
  <2>3. SettledInv /\ EndInv
    BY <2>1, <2>2 DEF SettledInv, EndInv, Settled
  <2>4. QED
    BY <1>1, <2>2, <2>3, BaseInductive DEF LoadOnceInv
<1>2. ASSUME TypeOK, TypeOK', LoadOnceInv, [Next]_vars PROVE LoadOnceInv'
  <2>1. BaseInv'
    BY <1>2, BaseInductive DEF LoadOnceInv
  <2>2. CASE UNCHANGED vars
    <3>1. UNCHANGED << stack, listMonitored, listWanted, inLoop, loading >>
      BY <2>2 DEF vars, listVars, loopVars
    <3>2. QED
      BY <1>2, <2>1, <3>1 DEF LoadOnceInv, Tidy, SettledInv, EndInv, Settled, Top, Calls
  <2>3. CASE Step
    BY <1>2, <2>1, <2>3, TidyStep, SettledStep, EndStep DEF LoadOnceInv
  <2>4. CASE MainLoop
    <3>1. stack = << >>
      BY <2>4 DEF MainLoop, Request, Answer, AnswerCancelled, DeepCountProgress, LoadDone,
                  CallReadyCallbacks, Rest
    <3>2. inLoop = {} /\ \A d \in Directories : Settled(d)
      BY <1>2, <3>1 DEF LoadOnceInv, BaseInv, LoopInv, Passing, Calls, SettledInv
    <3>3. Tidy(stack') /\ \A c \in Calls(stack') : c.op # "endload"
      <4>1. CASE \E d \in Directories : LoadDone(d)
        <5>1. PICK d \in Directories : LoadDone(d)
          BY <4>1
        <5>2. Tidy(stack') /\ Calls(stack') = {Signal, Announce(d), Changed(d), Unload(d)}
          BY <5>1, LoadDonePushes
        <5>3. QED
          BY <5>2, Ops
      <4>2. CASE \A d \in Directories : ~LoadDone(d)
        BY <1>2, <2>4, <4>2, EventsPush
      <4>3. QED
        BY <4>1, <4>2
    <3>4. EndInv'
      BY <3>3, Fields DEF EndInv
    <3>5. SettledInv'
      <4>1. SUFFICES ASSUME NEW d \in Directories, ~Settled(d)'
                     PROVE  /\ stack' # << >>
                            /\ \/ Head(stack') = Changed(d) /\ d \notin inLoop'
                               \/ Head(stack') = ServiceAt(d, "list", 1, NoFile)
        BY DEF SettledInv, Top
      <4>2. d \in listMonitored' /\ d \notin listWanted'
        BY <4>1 DEF Settled
      <4>3. CASE Request
        <5>1. ClientCall(<< >>) /\ << >> \in Seq(Frames)
          BY <4>3, NoCalls DEF Request
        <5>2. listMonitored' = listMonitored /\ inLoop' = inLoop
          BY <5>1, ClientLists
        <5>3. d \in listWanted
          BY <3>2, <4>2, <5>2 DEF Settled
        <5>4. stack' = << Changed(d) >> \o << >>
          BY <4>2, <5>1, <5>3, ClientLists
        <5>5. stack' = << Changed(d) >> /\ inLoop' = {}
          BY <3>2, <5>2, <5>4
        <5>6. QED
          BY <5>5
      <4>4. CASE ~Request
        <5>1. UNCHANGED << listMonitored, listWanted >>
          BY <2>4, <4>4 DEF MainLoop, Answer, AnswerCancelled, DeepCountProgress, LoadDone,
                            CallReadyCallbacks, listVars
        <5>2. QED
          BY <3>2, <4>2, <5>1 DEF Settled
      <4>5. QED
        BY <4>3, <4>4
    <3>6. QED
      BY <2>1, <3>3, <3>4, <3>5 DEF LoadOnceInv
  <2>5. QED
    BY <1>2, <2>2, <2>3, <2>4 DEF Next
<1>3. QED
  BY <1>1, <1>2

\* No job is ended that was not started, and no load is ended twice, however passes,
\* cancels and handlers nest, as long as no start function signals before it returns
\* and no client asks for a top left text: async_job_end never comes to a load that
\* is over.
THEOREM LoadsEndOnce ==
  ASSUME PassesAreQuiet, "top_left" \notin Kinds
  PROVE  Spec => [](EndsOnlyStartedJobs /\ JobsExact)
<1>1. TypeOK /\ LoadOnceInv => EndsOnlyStartedJobs
  <2>1. SUFFICES ASSUME TypeOK, LoadOnceInv PROVE EndsOnlyStartedJobs
    OBVIOUS
  <2>2. Pending("end") => Top.kind \notin SignalsBeforeClear
    <3>1. ASSUME Pending("end") PROVE Top.kind \in Kinds
      BY <2>1, <3>1, TopType DEF TypeOK, Pending
    <3>2. SignalsBeforeClear \cap Kinds = {}
      BY JobsAre
    <3>3. QED
      BY <3>1, <3>2
  <2>3. ASSUME Pending("endload") PROVE Top.dir \in loading
    <3>1. stack \in Seq(Frames) /\ stack # << >> /\ Top.op = "endload"
      BY <2>1, <2>3 DEF TypeOK, Pending
    <3>2. Top \in Calls(stack) /\ Top \in Frames
      BY <3>1, CallsOf DEF Top
    <3>3. QED
      BY <2>1, <3>1, <3>2, ByOp DEF LoadOnceInv, EndInv
  <2>4. QED
    BY <2>2, <2>3 DEF EndsOnlyStartedJobs
<1>2. Spec => []EndsOnlyStartedJobs
  BY <1>1, LoadOnceInductive, TypeCorrect, PTL DEF Spec
<1>3. QED
  BY <1>2, SlotsExact, PTL

-----------------------------------------------------------------------------
(***************************************************************************)
(* When the main loop waits, the loads that go on are the wanted ones.     *)
(***************************************************************************)
\* directory_load_cancel is about to be called for d, or has not yet ended the load.
Cancelling(s, d) == Unload(d) \in Calls(s) \/ EndLoad(d) \in Calls(s)

\* A pass over d is on its way that comes to its file list.
Coming(s, d) ==
  \/ d \in stateChanged
  \/ Changed(d) \in Calls(s)
  \/ ServiceAt(d, "list", 1, NoFile) \in Calls(s)
  \/ \E n \in 1 .. 3 : Reload(d, n) \in Calls(s)

\* A load in progress is that of a list that is monitored and not there yet, or it
\* is being cancelled; the files marked as being loaded are those of the loads that
\* were not cancelled.
LoadingInv ==
  /\ \A d \in loading : (d \in listMonitored /\ d \notin loaded) \/ Cancelling(stack, d)
  /\ loadingFlag = {Corresponding[d] : d \in {e \in loading : EndLoad(e) \notin Calls(stack)}}

\* A list that somebody wants is there, or being loaded, or waits for a slot, or a
\* pass is on its way.
WantedInv == \A d \in listWanted : d \in loaded \cup loading \cup waiting \/ Coming(stack, d)

\* What is forgotten is a list that nobody wants; what is cancelled is the load of a
\* list that is there, or that nobody wants, or that will be loaded anew.
CancelInv ==
  \A d \in Directories :
    /\ Unlist(d) \in Calls(stack) => d \notin listWanted
    /\ Cancelling(stack, d) => d \in loaded \/ d \notin listWanted \/ Reload(d, 2) \in Calls(stack)

\* While the handlers of a load that ends are still to be called, its list is there,
\* and no list is about to be forgotten.
TellInv ==
  LoadEnds(stack) /\ Signals(stack) # {} =>
    /\ stack[Len(stack)].dir \in loaded
    /\ OneSignal(stack)
    /\ \A d \in Directories : Settled(d) /\ Unlist(d) \notin Calls(stack)

LoadsInv == LoadOnceInv /\ LoadingInv /\ WantedInv /\ CancelInv /\ TellInv

\* No handler reloads a directory, and no two directories share a file.
NoNestedReload == "nested_reload" \notin Uses
FilesApart == \A d, e \in Directories : Corresponding[d] = Corresponding[e] => d = e

\* Calls that a step leaves alone, and those it adds.
LEMMA CallsAfter ==
  ASSUME TypeOK, TypeOK', PassesAreQuiet, LoadOnceInv, Step
  PROVE  \E p \in Seq(Frames) :
           /\ stack' = p \o Below /\ OneSignal(p) /\ Tidy(p)
           /\ p # << >> => p[Len(p)].op # "unload"
           /\ Calls(stack') = Calls(p) \cup Calls(Below)
           /\ \A c \in Calls(p) : Pushable(c)
<1>1. PICK p : Pushed(p)
  BY Pushing
<1>2. Below \in Seq(Frames)
  BY BeforeStep DEF LoadOnceInv
<1>3. p \in Seq(Frames) /\ Calls(p \o Below) = Calls(p) \cup Calls(Below)
  BY <1>1, <1>2, PushedOn DEF Pushed, PushedTidily
<1>4. QED
  BY <1>1, <1>3 DEF Pushed, PushedTidily

\* The cancel of a load goes on until the load has ended.
LEMMA CancelGoesOn ==
  ASSUME TypeOK, LoadOnceInv, Step, NEW d \in Directories, Cancelling(stack, d), d \in loading
  PROVE  Cancelling(stack', d) \/ d \notin loading'
<1>1. /\ stack \in Seq(Frames) /\ stack # << >>
      /\ Calls(stack) = {Top} \cup Calls(Below) /\ Calls(Below) \subseteq Calls(stack')
      /\ Homed /\ Shape(stack)
  BY BeforeStep DEF LoadOnceInv, BaseInv
<1>2. CASE Top = Unload(d)
  <2>1. Top.op = "unload" /\ Top.dir = d
    BY <1>2, Ops, Fields
  <2>2. UnloadDirectory
    BY <2>1, TopDecides
  <2>3. EndLoad(d) \in Calls(stack')
    BY <1>1, <2>1, <2>2, NestedStacks
  <2>4. QED
    BY <2>3 DEF Cancelling
<1>3. CASE Top = EndLoad(d)
  <2>1. Top.op = "endload" /\ Top.dir = d
    BY <1>3, Fields
  <2>2. QED
    BY <2>1, TopDecides, LoadSteps
<1>4. CASE Top # Unload(d) /\ Top # EndLoad(d)
  BY <1>1, <1>4 DEF Cancelling
<1>5. QED
  BY <1>2, <1>3, <1>4

\* What starts loads.
LEMMA LoadBegins ==
  ASSUME Step
  PROVE  \/ /\ StartFileList /\ Top.dir \notin loaded \cup loading
            /\ loading' = loading \cup {Top.dir}
            /\ loadingFlag' = loadingFlag \cup {Corresponding[Top.dir]}
            /\ Top.dir \in listMonitored'
         \/ /\ loading' \subseteq loading
            /\ UnloadDirectory \/ loadingFlag' = loadingFlag
<1>1. CASE Handle
  BY <1>1 DEF Handle, ClientCall, MonitorAdd, MonitorRemove, CallWhenReady, CancelCallback,
              ListMonitorAdd, ListMonitorRemove, InvalidateAttributes, ForceReload,
              NotifyFilesChanged, listVars
<1>2. CASE \/ CallOne \/ CallNoMore \/ EnqueueFile \/ End \/ MarkOutdated \/ AnnounceLoaded
           \/ EndDirectoryLoad \/ ForgetFileList \/ Reloading \/ StateChanged
           \/ WakeUp \/ WakeOne \/ WakeNoMore \/ StopFileList
  BY <1>2 DEF CallOne, CallNoMore, EnqueueFile, End, MarkOutdated, AnnounceLoaded,
              EndDirectoryLoad, ForgetFileList, Reloading, StateChanged,
              WakeUp, WakeOne, WakeNoMore, StopFileList, listVars
<1>3. CASE StopUnwanted \/ StopsDone \/ StartExtensionAtOnce \/ CallReady
  BY <1>3 DEF StopUnwanted, StopsDone, StartExtensionAtOnce, CallReady, listVars
<1>4. ASSUME NEW level \in Levels, StartJob(level) \/ Skip(level) \/ FinishHead(level) \/ NextLevel(level)
      PROVE  loading' = loading /\ loadingFlag' = loadingFlag
  BY <1>4 DEF StartJob, Skip, FinishHead, NextLevel, listVars
<1>5. CASE StartFileList
  <2>1. CASE Top.dir \in loaded \cup loading
    BY <1>5, <2>1 DEF StartFileList
  <2>2. CASE Top.dir \notin loaded \cup loading
    BY <1>5, <2>2 DEF StartFileList
  <2>3. QED
    BY <2>1, <2>2
<1>6. CASE UnloadDirectory
  BY <1>6 DEF UnloadDirectory
<1>7. QED
  BY <1>1, <1>2, <1>3, <1>4, <1>5, <1>6 DEF Step

\* The list of d stops to be monitored only when directory_load_cancel is called.
LEMMA MonitoredLost ==
  ASSUME TypeOK, LoadOnceInv, Step, NEW d \in listMonitored, d \notin listMonitored'
  PROVE  Unload(d) \in Calls(stack')
<1>1. Top.op = "service"
  BY ListSteps
<1>2. Homed /\ Shape(stack)
  BY DEF LoadOnceInv, BaseInv
<1>3. StopFileList
  <2>1. ASSUME StopUnwanted \/ StopsDone \/ StartExtensionAtOnce \/ CallReady PROVE FALSE
    BY <2>1 DEF StopUnwanted, StopsDone, StartExtensionAtOnce, CallReady, listVars
  <2>2. ASSUME NEW level \in Levels, StartJob(level) \/ Skip(level) \/ FinishHead(level) \/ NextLevel(level)
        PROVE  FALSE
    BY <2>2 DEF StartJob, Skip, FinishHead, NextLevel, listVars
  <2>3. ASSUME StartFileList PROVE FALSE
    BY <2>3 DEF StartFileList
  <2>4. \/ StartFileList \/ StopFileList \/ StopUnwanted \/ StopsDone \/ StartExtensionAtOnce \/ CallReady
        \/ \E level \in Levels : StartJob(level) \/ Skip(level) \/ FinishHead(level) \/ NextLevel(level)
    BY <1>1 DEF Step, Handle, CallOne, CallNoMore, EnqueueFile, End, MarkOutdated, AnnounceLoaded,
                UnloadDirectory, EndDirectoryLoad, ForgetFileList, Reloading, StateChanged,
                WakeUp, WakeOne, WakeNoMore, Pending
  <2>5. QED
    BY <2>1, <2>2, <2>3, <2>4
<1>4. d = Top.dir /\ Top.dir \in Directories
  <2>1. stack \in Seq(Frames) /\ stack # << >>
    BY BeforeStep DEF LoadOnceInv
  <2>2. QED
    BY <1>1, <1>3, <2>1, TopType DEF StopFileList
<1>5. stack' = << Unload(d), Unlist(d) >> \o (<< ServiceAt(d, "stop", 1, NoFile) >> \o Below)
  BY <1>3, <1>4 DEF StopFileList
<1>6. stack' \in Seq(Frames) => Unload(d) \in Calls(stack')
  <2>1. /\ Below \in Seq(Frames) /\ ServiceAt(d, "stop", 1, NoFile) \in Frames
        /\ Unload(d) \in Frames /\ Unlist(d) \in Frames
    <3>1. "stop" \in Phases /\ 1 \in Nat /\ NoFile \in Files \cup {NoFile} /\ d \in Directories
      BY <1>4 DEF Phases
    <3>2. QED
      BY <3>1, FramesType, BeforeStep DEF LoadOnceInv
  <2>. DEFINE a == Unload(d)
              b == Unlist(d)
              c == ServiceAt(d, "stop", 1, NoFile)
              t == << c >> \o Below
  <2>2. t \in Seq(Frames)
    BY <2>1
  <2>3. a \in Frames /\ b \in Frames /\ stack' = << a, b >> \o t
    BY <1>5, <2>1
  <2>. HIDE DEF a, b, t
  <2>4. Calls(stack') = {a, b} \cup Calls(t)
    BY <2>2, <2>3, CallsOf
  <2>5. QED
    BY <2>4 DEF a
<1>7. stack' \in Seq(Frames)
  BY <1>2, <1>3, ServiceLoopType DEF TypeOK
<1>8. QED
  BY <1>6, <1>7

\* The list of d is forgotten by the call for it, or by a reload.
LEMMA LoadedLost ==
  ASSUME TypeOK, Step, NEW d \in loaded, d \notin loaded'
  PROVE  Top = Unlist(d) \/ (Top = Reload(d, 2) /\ Reloading)
<1>1. CASE Handle
  BY <1>1 DEF Handle, ClientCall, MonitorAdd, MonitorRemove, CallWhenReady, CancelCallback,
              ListMonitorAdd, ListMonitorRemove, InvalidateAttributes, ForceReload,
              NotifyFilesChanged, listVars
<1>2. CASE \/ CallOne \/ CallNoMore \/ EnqueueFile \/ End \/ MarkOutdated \/ AnnounceLoaded
           \/ UnloadDirectory \/ EndDirectoryLoad \/ StateChanged
           \/ WakeUp \/ WakeOne \/ WakeNoMore \/ StartFileList \/ StopFileList
  BY <1>2 DEF CallOne, CallNoMore, EnqueueFile, End, MarkOutdated, AnnounceLoaded,
              UnloadDirectory, EndDirectoryLoad, StateChanged,
              WakeUp, WakeOne, WakeNoMore, StartFileList, StopFileList, listVars
<1>3. CASE StopUnwanted \/ StopsDone \/ StartExtensionAtOnce \/ CallReady
  BY <1>3 DEF StopUnwanted, StopsDone, StartExtensionAtOnce, CallReady, listVars
<1>4. ASSUME NEW level \in Levels, StartJob(level) \/ Skip(level) \/ FinishHead(level) \/ NextLevel(level)
      PROVE  loaded' = loaded
  BY <1>4 DEF StartJob, Skip, FinishHead, NextLevel, listVars
<1>5. stack # << >> => Top \in Frames
  BY DEF TypeOK, Top
<1>6. CASE ForgetFileList
  <2>1. Top.op = "unlist" /\ stack # << >> /\ d = Top.dir
    BY <1>6 DEF ForgetFileList, Pending
  <2>2. QED
    BY <1>5, <2>1, ByOp
<1>7. CASE Reloading
  <2>1. Top.op = "reload" /\ stack # << >>
    BY <1>7 DEF Reloading, Pending
  <2>2. Top.step = 2 /\ d = Top.dir
    <3>1. Top.step # 2 => loaded' = loaded
      BY <1>7 DEF Reloading
    <3>2. Top.step = 2 => loaded' = loaded \ {Top.dir}
      BY <1>7, LoadSteps
    <3>3. QED
      BY <3>1, <3>2
  <2>3. QED
    BY <1>5, <1>7, <2>1, <2>2, ByOp
<1>8. QED
  BY <1>1, <1>2, <1>3, <1>4, <1>6, <1>7 DEF Step

\* A load that is not being ended goes on, and no other is added to those.
LEMMA GoingOn ==
  ASSUME TypeOK, LoadOnceInv, Step, NEW e \in loading
  PROVE  /\ GoesOn(stack, e)' => GoesOn(stack, e)
         /\ GoesOn(stack, e) /\ Top # Unload(e) => GoesOn(stack, e)'
<1>0. Homed /\ Shape(stack)
  BY DEF LoadOnceInv, BaseInv
<1>1. /\ stack \in Seq(Frames) /\ stack # << >>
      /\ Calls(stack) = {Top} \cup Calls(Below) /\ Calls(Below) \subseteq Calls(stack')
  BY BeforeStep DEF LoadOnceInv
<1>2. ASSUME e \in loading', EndLoad(e) \notin Calls(stack')
      PROVE  EndLoad(e) \notin Calls(stack)
  <2>1. SUFFICES ASSUME Top = EndLoad(e) PROVE FALSE
    BY <1>1, <1>2
  <2>2. Top.op = "endload" /\ Top.dir = e
    BY <2>1, Fields
  <2>3. QED
    BY <1>2, <2>2, TopDecides, LoadSteps
<1>3. GoesOn(stack, e) /\ Top # Unload(e) => e \in loading' /\ EndLoad(e) \notin Calls(stack')
  BY <1>0, LoadsGoOn
<1>4. QED
  BY <1>2, <1>3 DEF GoesOn

\* Loads, and what they say of themselves, after a step.
LEMMA LoadingStep ==
  ASSUME TypeOK, TypeOK', FilesApart, LoadOnceInv, LoadingInv, Step
  PROVE  LoadingInv'
<1>0. Homed /\ Shape(stack)
  BY DEF LoadOnceInv, BaseInv
<1>1. /\ stack \in Seq(Frames) /\ stack # << >> /\ Top \in Frames
      /\ Calls(stack) = {Top} \cup Calls(Below) /\ Calls(Below) \subseteq Calls(stack')
  BY BeforeStep DEF LoadOnceInv
<1>2. ASSUME NEW d \in loading'
      PROVE  (d \in listMonitored' /\ d \notin loaded') \/ Cancelling(stack', d)
  <2>1. loaded' \subseteq loaded
    BY LoadSteps
  <2>2. CASE d \notin loading
    BY <1>2, <2>1, <2>2, LoadBegins
  <2>3. CASE d \in loading /\ Cancelling(stack, d)
    <3>1. d \in Directories
      BY <2>3 DEF TypeOK
    <3>2. QED
      BY <1>2, <2>3, <3>1, CancelGoesOn
  <2>4. CASE d \in loading /\ d \in listMonitored /\ d \notin loaded
    <3>1. d \notin listMonitored' => Unload(d) \in Calls(stack')
      BY <2>4, MonitoredLost
    <3>2. QED
      BY <2>1, <2>4, <3>1 DEF Cancelling
  <2>5. QED
    BY <2>2, <2>3, <2>4 DEF LoadingInv
<1>. DEFINE G == {e \in loading : EndLoad(e) \notin Calls(stack)}
            H == {e \in loading' : EndLoad(e) \notin Calls(stack')}
            F == [e \in Directories |-> Corresponding[e]]
<1>3. /\ loading \subseteq Directories /\ loading' \subseteq Directories
      /\ Corresponding \in [Directories -> Files]
  BY DirectoryAsyncAssumption DEF TypeOK
<1>4. loadingFlag = {Corresponding[e] : e \in G}
  BY DEF LoadingInv
<1>5. \A e \in loading : /\ e \in H => e \in G
                         /\ e \in G /\ Top # Unload(e) => e \in H
  <2>1. TAKE e \in loading
  <2>2. /\ GoesOn(stack, e)' => GoesOn(stack, e)
        /\ GoesOn(stack, e) /\ Top # Unload(e) => GoesOn(stack, e)'
    BY GoingOn
  <2>3. QED
    BY <2>2 DEF GoesOn
<1>6. loadingFlag' = {Corresponding[e] : e \in H}
  <2>1. CASE /\ StartFileList /\ Top.dir \notin loaded \cup loading
             /\ loading' = loading \cup {Top.dir}
             /\ loadingFlag' = loadingFlag \cup {Corresponding[Top.dir]}
    <3>1. Top.op = "service"
      BY <2>1 DEF StartFileList, AtPhase, Pending
    <3>2. Top.dir \in Directories /\ \A e : Top # Unload(e)
      BY <1>1, <3>1, TopType, Ops
    <3>3. EndLoad(Top.dir) \notin Calls(stack')
      <4>1. SUFFICES ASSUME EndLoad(Top.dir) \in Calls(stack') PROVE FALSE
        OBVIOUS
      <4>2. OfLoads(EndLoad(Top.dir)) /\ ~UnloadDirectory
        BY <3>1, LoadOps DEF UnloadDirectory, Pending
      <4>3. EndLoad(Top.dir) \in Calls(stack)
        BY <1>0, <1>1, <4>1, <4>2, StepLoads
      <4>4. QED
        BY <2>1, <3>2, <4>3 DEF LoadOnceInv, EndInv
    <3>4. H = G \cup {Top.dir}
      BY <1>5, <2>1, <3>2, <3>3
    <3>. HIDE DEF G, H
    <3>5. QED
      BY <1>4, <2>1, <3>4
  <2>2. CASE UnloadDirectory
    <3>1. Top.op = "unload" /\ loading' = loading
      BY <2>2 DEF UnloadDirectory, Pending
    <3>2. Top = Unload(Top.dir) /\ Top.dir \in Directories
      BY <1>1, <3>1, ByOp
    <3>3. \A e : Top = Unload(e) => e = Top.dir
      BY Fields
    <3>4. CASE Top.dir \in loading
      <4>1. loadingFlag' = loadingFlag \ {Corresponding[Top.dir]}
        BY <2>2, <3>4 DEF UnloadDirectory
      <4>2. EndLoad(Top.dir) \in Calls(stack')
        BY <1>0, <2>2, <3>4, NestedStacks
      <4>3. H = G \ {Top.dir}
        BY <1>5, <3>1, <3>3, <4>2
      <4>4. G \subseteq Directories
        BY <1>3
      <4>. HIDE DEF G, H
      <4>5. {Corresponding[e] : e \in H} = {Corresponding[e] : e \in G} \ {Corresponding[Top.dir]}
        BY <3>2, <4>3, <4>4 DEF FilesApart
      <4>6. QED
        BY <1>4, <4>1, <4>5
    <3>5. CASE Top.dir \notin loading
      <4>1. loadingFlag' = loadingFlag
        BY <2>2, <3>5 DEF UnloadDirectory
      <4>2. H = G
        BY <1>5, <3>1, <3>3, <3>5
      <4>. HIDE DEF G, H
      <4>3. QED
        BY <1>4, <4>1, <4>2
    <3>6. QED
      BY <3>4, <3>5
  <2>3. CASE ~UnloadDirectory /\ loading' \subseteq loading /\ loadingFlag' = loadingFlag
    <3>1. \A e : Top # Unload(e)
      <4>1. \A e : Unload(e).op = "unload"
        BY Ops
      <4>2. QED
        BY <2>3, <4>1, TopDecides
    <3>2. H = G
      BY <1>5, <2>3, <3>1
    <3>. HIDE DEF G, H
    <3>3. QED
      BY <1>4, <2>3, <3>2
  <2>4. QED
    BY <2>1, <2>2, <2>3, LoadBegins
<1>7. QED
  BY <1>2, <1>6 DEF LoadingInv

\* A pass that is on its way comes, or is done.
LEMMA ComingKept ==
  ASSUME TypeOK, LoadOnceInv, Step, NEW d \in listWanted, d \in Directories, Coming(stack, d)
  PROVE  d \in loaded' \cup loading' \cup waiting' \/ Coming(stack, d)'
<1>0. Homed /\ Shape(stack)
  BY DEF LoadOnceInv, BaseInv
<1>1. /\ stack \in Seq(Frames) /\ stack # << >> /\ Top \in Frames
      /\ Calls(stack) = {Top} \cup Calls(Below) /\ Calls(Below) \subseteq Calls(stack')
  BY BeforeStep DEF LoadOnceInv
<1>2. SUFFICES \/ d \in loaded' \cup loading' \cup waiting'
               \/ d \in stateChanged'
               \/ Changed(d) \in Calls(stack')
               \/ ServiceAt(d, "list", 1, NoFile) \in Calls(stack')
               \/ \E n \in 1 .. 3 : Reload(d, n) \in Calls(stack')
  BY Zenon DEF Coming
<1>3. CASE d \in stateChanged
  BY <1>0, <1>3, StateKept
<1>4. CASE Changed(d) \in Calls(stack)
  <2>1. CASE Top = Changed(d)
    <3>1. Top.op = "changed" /\ Top.dir = d
      BY <2>1, Ops, Fields
    <3>2. StateChanged
      BY <3>1, TopDecides
    <3>3. CASE d \in inLoop
      BY <3>1, <3>2, <3>3 DEF StateChanged
    <3>4. CASE d \notin inLoop
      BY <1>0, <3>1, <3>2, <3>4, ServiceStacks
    <3>5. QED
      BY <3>3, <3>4
  <2>2. QED
    BY <1>1, <1>4, <2>1
<1>5. CASE ServiceAt(d, "list", 1, NoFile) \in Calls(stack)
  <2>1. CASE Top = ServiceAt(d, "list", 1, NoFile)
    <3>1. Top.op = "service" /\ Top.dir = d /\ Top.at = "list"
      BY <2>1 DEF ServiceAt
    <3>2. StartFileList
      BY <3>1, TopDecides DEF StopFileList
    <3>3. CASE d \in loaded \cup loading
      BY <3>1, <3>2, <3>3 DEF StartFileList
    <3>4. CASE d \notin loaded \cup loading
      BY <3>1, <3>2, <3>4 DEF StartFileList, NoSlot
    <3>5. QED
      BY <3>3, <3>4
  <2>2. QED
    BY <1>1, <1>5, <2>1
<1>6. ASSUME NEW n \in 1 .. 3, Reload(d, n) \in Calls(stack)
      PROVE  Changed(d) \in Calls(stack') \/ \E m \in 1 .. 3 : Reload(d, m) \in Calls(stack')
  <2>1. CASE Top = Reload(d, n)
    <3>1. Top.op = "reload" /\ Top.dir = d /\ Top.step = n
      BY <2>1, Ops, Fields
    <3>2. Reloading
      BY <3>1, TopDecides
    <3>3. 2 \in 1 .. 3 /\ 3 \in 1 .. 3 /\ (n = 1 \/ n = 2 \/ n = 3)
      OBVIOUS
    <3>4. CASE n = 1
      BY <1>0, <3>1, <3>2, <3>3, <3>4, ReloadStacks
    <3>5. CASE n = 2
      BY <1>0, <3>1, <3>2, <3>3, <3>5, ReloadStacks
    <3>6. CASE n = 3
      BY <1>0, <3>1, <3>2, <3>6, ReloadStacks
    <3>7. QED
      BY <3>3, <3>4, <3>5, <3>6
  <2>2. QED
    BY <1>1, <1>6, <2>1
<1>7. QED
  BY <1>3, <1>4, <1>5, <1>6, Zenon DEF Coming

\* Wanted lists after a step.
LEMMA WantedStep ==
  ASSUME TypeOK, LoadOnceInv, WantedInv, CancelInv, Step
  PROVE  WantedInv'
<1>0. Homed /\ Shape(stack)
  BY DEF LoadOnceInv, BaseInv
<1>1. /\ stack \in Seq(Frames) /\ stack # << >> /\ Top \in Frames /\ Below \in Seq(Frames)
      /\ Calls(stack) = {Top} \cup Calls(Below) /\ Calls(Below) \subseteq Calls(stack')
  BY BeforeStep DEF LoadOnceInv
<1>2. SUFFICES ASSUME NEW d \in listWanted'
               PROVE  d \in loaded' \cup loading' \cup waiting' \/ Coming(stack, d)'
  BY DEF WantedInv, Coming
<1>3. CASE d \notin listWanted
  <2>1. Changed(d) \in Calls(stack')
    BY <1>1, <1>2, <1>3, ListSteps, ClientLists
  <2>2. QED
    BY <2>1 DEF Coming
<1>4. CASE d \in listWanted
  <2>0. d \in Directories
    BY <1>4 DEF TypeOK
  <2>1. CASE d \in loaded /\ d \notin loaded'
    <3>1. Top # Unlist(d)
      BY <1>1, <1>4, <2>0 DEF CancelInv
    <3>2. Top = Reload(d, 2) /\ Reloading
      BY <2>1, <3>1, LoadedLost
    <3>3. Top.step = 2 /\ Top.dir = d /\ 3 \in 1 .. 3
      BY <3>2, Fields
    <3>4. Reload(d, 3) \in Calls(stack')
      BY <1>0, <3>2, <3>3, ReloadStacks
    <3>5. QED
      BY <3>3, <3>4, Zenon DEF Coming
  <2>2. CASE d \in loading /\ d \notin loading'
    <3>1. EndDirectoryLoad /\ d = Top.dir
      BY <2>2, LoadSteps
    <3>2. Top.op = "endload" /\ loaded' = loaded
      BY <3>1 DEF EndDirectoryLoad, Pending
    <3>3. Top = EndLoad(d)
      BY <1>1, <3>1, <3>2, ByOp
    <3>4. d \in loaded \/ Reload(d, 2) \in Calls(stack)
      BY <1>1, <1>4, <2>0, <3>3 DEF CancelInv, Cancelling
    <3>5. Reload(d, 2) # Top /\ 2 \in 1 .. 3
      BY <3>2, Ops
    <3>6. d \in loaded' \/ Reload(d, 2) \in Calls(stack')
      BY <1>1, <3>2, <3>4, <3>5
    <3>7. QED
      BY <3>5, <3>6, Zenon DEF Coming
  <2>3. CASE d \in waiting
    <3>1. d \in waiting' \/ Changed(d) \in Calls(stack')
      BY <1>0, <2>3, WaitingKept DEF Next
    <3>2. QED
      BY <3>1 DEF Coming
  <2>4. CASE Coming(stack, d)
    BY <1>4, <2>0, <2>4, ComingKept
  <2>5. QED
    BY <1>4, <2>1, <2>2, <2>3, <2>4 DEF WantedInv
<1>5. QED
  BY <1>3, <1>4

\* Below a signal no pass is going on and no directory is reloaded; a load that is
\* cancelled there is the one that ends.
LEMMA UnderSignal ==
  ASSUME TypeOK, LoadOnceInv, NoNestedReload, Step, Top.op = "signal"
  PROVE  /\ \A c \in Calls(Below) : c.op \notin PassOps \cup {"reload"}
         /\ \A d \in Directories :
              Unload(d) \in Calls(Below) => LoadEnds(stack) /\ stack[Len(stack)] = Unload(d)
<1>1. /\ stack \in Seq(Frames) /\ stack # << >> /\ Below \in Seq(Frames)
      /\ \A c \in Calls(Below) : Over(Top, c)
      /\ Tidy(stack) /\ Shape(stack)
  BY BeforeStep DEF LoadOnceInv, BaseInv
<1>2. ASSUME NEW c \in Calls(Below) PROVE c.op \notin PassOps \cup {"reload"}
  BY <1>1 DEF Over, QuietOps, PassOps, NoNestedReload
<1>3. ASSUME NEW d \in Directories, Unload(d) \in Calls(Below)
      PROVE  LoadEnds(stack) /\ stack[Len(stack)] = Unload(d)
  <2>1. PICK i \in DOMAIN Below : Below[i] = Unload(d)
    BY <1>3 DEF Calls
  <2>2. FollowedUp(Below, i)
    BY <1>1, Pops DEF Ready, Shape
  <2>3. i = Len(Below) \/ (i + 1 \in DOMAIN Below /\ Below[i + 1] \in {Unlist(d), Reload(d, 2)})
    BY <2>1, <2>2, Ops, Fields DEF FollowedUp
  <2>4. ASSUME i + 1 \in DOMAIN Below, Below[i + 1] \in {Unlist(d), Reload(d, 2)} PROVE FALSE
    <3>1. Below[i + 1] \in Calls(Below)
      BY <2>4 DEF Calls
    <3>2. Below[i + 1].op \notin PassOps \cup {"reload"}
      BY <1>2, <3>1
    <3>3. QED
      BY <2>4, <3>2, Ops DEF PassOps
  <2>5. i = Len(Below)
    BY <2>3, <2>4
  <2>6. Below # << >> /\ Below[Len(Below)] = Unload(d)
    BY <1>1, <2>1, <2>5
  <2>7. stack[Len(stack)] = Unload(d)
    BY <1>1, <2>6, TidyTop
  <2>8. QED
    BY <1>1, <2>7, Ops DEF LoadEnds
<1>4. QED
  BY <1>2, <1>3

\* Whether there is a signal.
LEMMA SomeSignal ==
  ASSUME NEW s
  PROVE  Signals(s) # {} <=> \E c \in Calls(s) : c.op = "signal"
BY DEF Signals, Calls

\* A list that is being cancelled stays there, or unwanted, or about to be loaded anew.
LEMMA StillCancelled ==
  ASSUME TypeOK, NoNestedReload, LoadOnceInv, CancelInv, TellInv, Step,
         NEW d \in Directories, Cancelling(stack, d),
         \/ Top = Unload(d)
         \/ Unload(d) \in Calls(Below)
         \/ EndLoad(d) \in Calls(Below)
  PROVE  d \in loaded' \/ d \notin listWanted' \/ Reload(d, 2) \in Calls(stack')
<1>1. /\ stack \in Seq(Frames) /\ stack # << >>
      /\ Calls(stack) = {Top} \cup Calls(Below) /\ Calls(Below) \subseteq Calls(stack')
      /\ \A c \in Calls(Below) : Over(Top, c)
      /\ Top.op \notin QuietOps => \A c \in Calls(Below) : c.op \notin PassOps
  BY BeforeStep DEF LoadOnceInv
<1>2. Unload(d).op = "unload" /\ EndLoad(d).op = "endload"
  BY Ops, Fields
<1>3. Top # Reload(d, 2)
  <2>1. SUFFICES ASSUME Top.op = "reload" PROVE FALSE
    BY Ops
  <2>2. Unload(d) \notin Calls(Below)
    BY <1>1, <1>2, <2>1 DEF Over, NoNestedReload
  <2>3. EndLoad(d) \notin Calls(Below)
    BY <1>1, <1>2, <2>1 DEF QuietOps, PassOps
  <2>4. QED
    BY <1>2, <2>1, <2>2, <2>3
<1>4. d \in loaded \/ d \notin listWanted \/ Reload(d, 2) \in Calls(stack)
  BY DEF CancelInv
<1>5. CASE d \in loaded
  <2>1. SUFFICES ASSUME d \notin loaded' PROVE d \notin listWanted'
    OBVIOUS
  <2>2. Top = Unlist(d)
    BY <1>3, <1>5, <2>1, LoadedLost
  <2>3. d \notin listWanted /\ Top.op # "signal"
    BY <1>1, <2>2, Ops DEF CancelInv
  <2>4. QED
    BY <2>3, ListSteps
<1>6. CASE d \notin listWanted /\ d \notin loaded
  <2>1. CASE Top.op # "signal"
    BY <1>6, <2>1, ListSteps
  <2>2. CASE Top.op = "signal"
    <3>1. Unload(d) \in Calls(Below)
      BY <1>1, <1>2, <2>2 DEF QuietOps, PassOps
    <3>2. LoadEnds(stack) /\ stack[Len(stack)] = Unload(d)
      BY <2>2, <3>1, UnderSignal
    <3>3. Signals(stack) # {}
      BY <1>1, <2>2, SomeSignal
    <3>4. d \in loaded
      BY <3>2, <3>3, Fields DEF TellInv
    <3>5. QED
      BY <1>6, <3>4
  <2>3. QED
    BY <2>1, <2>2
<1>7. CASE Reload(d, 2) \in Calls(stack)
  BY <1>1, <1>3, <1>7
<1>8. QED
  BY <1>4, <1>5, <1>6, <1>7

\* What is cancelled, and what is forgotten, after a step.
LEMMA CancelStep ==
  ASSUME TypeOK, TypeOK', PassesAreQuiet, NoNestedReload, LoadOnceInv, CancelInv, TellInv, Step
  PROVE  CancelInv'
<1>1. /\ stack \in Seq(Frames) /\ stack # << >> /\ Top \in Frames
      /\ Calls(stack) = {Top} \cup Calls(Below) /\ Calls(Below) \subseteq Calls(stack')
      /\ Top.op \notin QuietOps => \A c \in Calls(Below) : c.op \notin PassOps
      /\ Shape(stack)
  BY BeforeStep DEF LoadOnceInv, BaseInv
<1>2. PICK p \in Seq(Frames) : /\ Calls(stack') = Calls(p) \cup Calls(Below)
                               /\ \A c \in Calls(p) : Pushable(c)
  BY CallsAfter
<1>3. ASSUME NEW d \in Directories, Top.op = "service", ~Settled(d) PROVE d \notin listWanted'
  BY <1>3, ListSteps DEF Settled
<1>4. ASSUME NEW d \in Directories, Unlist(d) \in Calls(stack') PROVE d \notin listWanted'
  <2>1. Unlist(d).op = "unlist" /\ Unlist(d).dir = d
    BY Ops, Fields
  <2>2. CASE Unlist(d) \in Calls(Below)
    <3>1. d \notin listWanted
      BY <1>1, <2>2 DEF CancelInv
    <3>2. Top.op # "signal"
      BY <1>1, <2>1, <2>2 DEF QuietOps, PassOps
    <3>3. QED
      BY <3>1, <3>2, ListSteps
  <2>3. CASE Unlist(d) \in Calls(p)
    <3>1. Pushable(Unlist(d))
      BY <1>2, <2>3
    <3>2. Top.op = "service" /\ ~Settled(d)
      BY <2>1, <3>1 DEF Pushable
    <3>3. QED
      BY <1>3, <3>2
  <2>4. QED
    BY <1>2, <1>4, <2>2, <2>3
<1>5. ASSUME NEW d \in Directories, Cancelling(stack', d)
      PROVE  d \in loaded' \/ d \notin listWanted' \/ Reload(d, 2) \in Calls(stack')
  <2>1. /\ Unload(d).op = "unload" /\ Unload(d).dir = d
        /\ EndLoad(d).op = "endload" /\ EndLoad(d).dir = d
    BY Ops, Fields
  <2>2. CASE Unload(d) \in Calls(Below) \/ EndLoad(d) \in Calls(Below)
    <3>1. Cancelling(stack, d)
      BY <1>1, <2>2 DEF Cancelling
    <3>2. QED
      BY <2>2, <3>1, StillCancelled
  <2>3. CASE Unload(d) \in Calls(p)
    <3>1. Pushable(Unload(d))
      BY <1>2, <2>3
    <3>2. Top.dir = d /\ ((Top.op = "reload" /\ Top.step = 1) \/ (Top.op = "service" /\ ~Settled(Top.dir)))
      BY <2>1, <3>1 DEF Pushable
    <3>3. CASE Top.op = "reload" /\ Top.step = 1
      <4>1. Reloading
        BY <3>3, TopDecides
      <4>2. QED
        BY <1>1, <3>2, <3>3, <4>1, ReloadStacks
    <3>4. CASE Top.op = "service" /\ ~Settled(Top.dir)
      BY <1>3, <3>2, <3>4
    <3>5. QED
      BY <3>2, <3>3, <3>4
  <2>4. CASE EndLoad(d) \in Calls(p)
    <3>1. Pushable(EndLoad(d))
      BY <1>2, <2>4
    <3>2. Top.op = "unload" /\ Top.dir = d
      BY <2>1, <3>1 DEF Pushable
    <3>3. Top = Unload(d)
      BY <1>1, <3>2, ByOp
    <3>4. Cancelling(stack, d)
      BY <1>1, <3>3 DEF Cancelling
    <3>5. QED
      BY <3>3, <3>4, StillCancelled
  <2>5. QED
    BY <1>2, <1>5, <2>2, <2>3, <2>4 DEF Cancelling
<1>6. QED
  BY <1>4, <1>5 DEF CancelInv

\* While the end of a load is announced.
LEMMA TellStep ==
  ASSUME TypeOK, TypeOK', PassesAreQuiet, NoNestedReload, LoadOnceInv, TellInv, Step
  PROVE  TellInv'
<1>1. /\ stack \in Seq(Frames) /\ stack # << >> /\ Top \in Frames /\ Below \in Seq(Frames)
      /\ Calls(stack) = {Top} \cup Calls(Below)
      /\ \A c \in Calls(Below) : Over(Top, c)
      /\ Tidy(stack) /\ Shape(stack)
  BY BeforeStep DEF LoadOnceInv, BaseInv
<1>2. PICK p \in Seq(Frames) :
        /\ stack' = p \o Below /\ OneSignal(p)
        /\ p # << >> => p[Len(p)].op # "unload"
        /\ Calls(stack') = Calls(p) \cup Calls(Below)
        /\ \A c \in Calls(p) : Pushable(c)
  BY CallsAfter
<1>3. SUFFICES ASSUME LoadEnds(stack'), Signals(stack') # {}
               PROVE  /\ stack'[Len(stack')].dir \in loaded'
                      /\ OneSignal(stack')
                      /\ \A d \in Directories : Settled(d)' /\ Unlist(d) \notin Calls(stack')
  BY DEF TellInv
<1>4. Below # << >>
  <2>1. SUFFICES ASSUME Below = << >> PROVE FALSE
    OBVIOUS
  <2>2. stack' = p
    BY <1>1, <1>2, <2>1, PushedOn
  <2>3. QED
    BY <1>2, <1>3, <2>2 DEF LoadEnds
<1>. DEFINE e == Below[Len(Below)]
<1>5. LoadEnds(stack) /\ stack[Len(stack)] = e /\ stack'[Len(stack')] = e /\ LoadEnds(Below)
  BY <1>1, <1>2, <1>3, <1>4, PushedOn, TidyTop
<1>6. e \in Calls(Below) /\ e.op = "unload"
  <2>1. Len(Below) \in DOMAIN Below
    BY <1>1, <1>4
  <2>2. QED
    BY <1>5, <2>1 DEF Calls, LoadEnds
<1>. HIDE DEF e
<1>7. Top.op # "calling" /\ Top.op # "reload"
  BY <1>1, <1>6 DEF Over, NoNestedReload
<1>8. ASSUME e.dir \in loaded, e.dir \notin loaded' PROVE Top = Unlist(e.dir)
  BY <1>7, <1>8, LoadedLost, Ops
<1>9. ASSUME listWanted' = listWanted, \A d \in Directories : Settled(d)
      PROVE  \A d \in Directories : Settled(d)'
  BY <1>9, ListSteps DEF Settled
<1>10. ASSUME NEW d \in Directories, Settled(d), Unlist(d) \in Calls(stack')
       PROVE  Unlist(d) \in Calls(Below)
  BY <1>2, <1>10, Ops, Fields DEF Pushable
<1>11. CASE \A c \in Calls(p) : c.op # "signal"
  <2>1. \E c \in Calls(Below) : c.op = "signal"
    BY <1>2, <1>3, <1>11, SomeSignal
  <2>2. Signals(stack) # {}
    BY <1>1, <2>1, SomeSignal
  <2>3. /\ e.dir \in loaded /\ OneSignal(stack)
        /\ \A d \in Directories : Settled(d) /\ Unlist(d) \notin Calls(stack)
    BY <1>5, <2>2 DEF TellInv
  <2>4. Top.op # "signal" /\ OneSignal(Below)
    BY <1>1, <2>1, <2>3, TidyTop
  <2>5. e.dir \in loaded'
    <3>1. SUFFICES ASSUME e.dir \notin loaded' PROVE FALSE
      OBVIOUS
    <3>2. Top = Unlist(e.dir) /\ e.dir \in Directories
      BY <1>8, <2>3, <3>1 DEF TypeOK
    <3>3. QED
      BY <1>1, <2>3, <3>2
  <2>6. OneSignal(stack')
    BY <1>1, <1>2, <1>11, <2>4, PushedOn
  <2>7. \A d \in Directories : Settled(d)'
    BY <1>9, <2>3, <2>4, ListSteps
  <2>8. \A d \in Directories : Unlist(d) \notin Calls(stack')
    BY <1>1, <1>10, <2>3
  <2>9. QED
    BY <1>5, <2>5, <2>6, <2>7, <2>8
<1>12. ASSUME NEW c \in Calls(p), c.op = "signal"
       PROVE  /\ e.dir \in loaded' /\ OneSignal(stack')
              /\ \A d \in Directories : Settled(d)' /\ Unlist(d) \notin Calls(stack')
  <2>1. \/ Top.op = "announce" /\ Top.dir \in loaded
        \/ Top.op = "signal" /\ listWanted' = listWanted
    BY <1>2, <1>7, <1>12 DEF Pushable
  <2>2. /\ e.dir \in loaded /\ listWanted' = listWanted
        /\ \A b \in Calls(Below) : b.op # "signal"
        /\ \A d \in Directories : Settled(d) /\ Unlist(d) \notin Calls(Below)
    <3>1. CASE Top.op = "announce" /\ Top.dir \in loaded
      <4>1. Calls(Below) = {Changed(Top.dir), Unload(Top.dir)}
        BY <1>1, <3>1, Pops
      <4>2. e = Unload(Top.dir)
        BY <1>6, <4>1, Ops
      <4>3. \A b \in Calls(Below) : b.op # "signal" /\ b.op # "unlist"
        BY <4>1, Ops
      <4>4. \A d \in Directories : Unlist(d) \notin Calls(Below)
        BY <4>3, Ops
      <4>5. \A d \in Directories : Settled(d)
        <5>1. \A d : Top # Changed(d) /\ Top # ServiceAt(d, "list", 1, NoFile)
          BY <3>1, Ops
        <5>2. QED
          BY <5>1 DEF LoadOnceInv, SettledInv
      <4>6. e.dir \in loaded /\ listWanted' = listWanted
        BY <3>1, <4>2, Fields, ListSteps
      <4>7. QED
        BY <4>3, <4>4, <4>5, <4>6
    <3>2. CASE Top.op = "signal" /\ listWanted' = listWanted
      <4>1. Signals(stack) # {}
        BY <1>1, <3>2, SomeSignal
      <4>2. /\ e.dir \in loaded /\ OneSignal(stack)
            /\ \A d \in Directories : Settled(d) /\ Unlist(d) \notin Calls(stack)
        BY <1>5, <4>1 DEF TellInv
      <4>3. \A b \in Calls(Below) : b.op # "signal"
        BY <1>1, <3>2, <4>2, TidyTop
      <4>4. QED
        BY <1>1, <3>2, <4>2, <4>3
    <3>3. QED
      BY <2>1, <3>1, <3>2
  <2>3. e.dir \in loaded'
    <3>1. \A d : Top # Unlist(d)
      BY <2>1, Ops
    <3>2. QED
      BY <1>8, <2>2, <3>1
  <2>4. OneSignal(stack')
    BY <1>1, <1>2, <2>2, PushedOn
  <2>5. \A d \in Directories : Settled(d)'
    BY <1>9, <2>2
  <2>6. \A d \in Directories : Unlist(d) \notin Calls(stack')
    BY <1>10, <2>2
  <2>7. QED
    BY <2>3, <2>4, <2>5, <2>6
<1>13. QED
  BY <1>5, <1>11, <1>12

\* What an event of the main loop does to the loads.
LEMMA EventLoads ==
  ASSUME TypeOK, LoadsInv, MainLoop
  PROVE  LoadingInv' /\ WantedInv' /\ CancelInv' /\ TellInv'
<1>1. stack = << >>
  BY DEF MainLoop, Request, Answer, AnswerCancelled, DeepCountProgress, LoadDone,
         CallReadyCallbacks, Rest
<1>2. Calls(stack) = {}
  BY <1>1, NoCalls
<1>3. /\ stateChanged = {} /\ Homed /\ Shape(stack)
      /\ \A d \in Directories : Settled(d)
  BY <1>1, <1>2 DEF LoadsInv, LoadOnceInv, BaseInv, LoopInv, Passing, SettledInv
<1>4. /\ \A d \in loading : d \in listMonitored /\ d \notin loaded
      /\ loadingFlag = {Corresponding[d] : d \in loading}
  <2>1. {e \in loading : EndLoad(e) \notin Calls(stack)} = loading
    BY <1>2
  <2>2. QED
    BY <1>2, <2>1 DEF LoadsInv, LoadingInv, Cancelling
<1>5. \A d \in listWanted : d \in loaded \cup loading \cup waiting
  BY <1>2, <1>3 DEF LoadsInv, WantedInv, Coming
<1>6. ASSUME \A d \in loading' : EndLoad(d) \notin Calls(stack'),
             loading' = loading, loadingFlag' = loadingFlag
      PROVE  loadingFlag' = {Corresponding[d] : d \in {e \in loading' : EndLoad(e) \notin Calls(stack')}}
  <2>1. {e \in loading' : EndLoad(e) \notin Calls(stack')} = loading
    BY <1>6
  <2>2. QED
    BY <1>4, <1>6, <2>1
<1>7. CASE \E d \in Directories : LoadDone(d)
  <2>1. PICK d \in Directories : LoadDone(d)
    BY <1>7
  <2>2. /\ OneSignal(stack') /\ stack' # << >> /\ stack'[Len(stack')] = Unload(d)
        /\ Calls(stack') = {Signal, Announce(d), Changed(d), Unload(d)}
        /\ loaded' = loaded \cup {d}
        /\ UNCHANGED << waiting, listWanted, listMonitored, loading, loadingFlag >>
    BY <2>1, LoadDonePushes
  <2>3. \A e : EndLoad(e) \notin Calls(stack') /\ Unlist(e) \notin Calls(stack')
    BY <2>2, Ops, Fields
  <2>4. \A e : Unload(e) \in Calls(stack') <=> e = d
    BY <2>2, Ops, Fields
  <2>5. LoadingInv'
    <3>1. \A e \in loading' : (e \in listMonitored' /\ e \notin loaded') \/ Cancelling(stack', e)
      BY <1>4, <2>2, <2>4 DEF Cancelling
    <3>2. QED
      BY <1>6, <2>2, <2>3, <3>1 DEF LoadingInv
  <2>6. WantedInv'
    BY <1>5, <2>2 DEF WantedInv
  <2>7. CancelInv'
    BY <2>2, <2>3, <2>4 DEF CancelInv, Cancelling
  <2>8. TellInv'
    <3>1. stack'[Len(stack')].dir \in loaded'
      BY <2>2, Fields
    <3>2. \A e \in Directories : Settled(e)'
      BY <1>3, <2>2 DEF Settled
    <3>3. QED
      BY <2>2, <2>3, <3>1, <3>2 DEF TellInv
  <2>9. QED
    BY <2>5, <2>6, <2>7, <2>8
<1>8. CASE \A d \in Directories : ~LoadDone(d)
  <2>1. /\ ~LoadEnds(stack')
        /\ \A c \in Calls(stack') : c.op \notin {"unload", "endload", "unlist"}
    BY <1>8, EventsPush
  <2>2. /\ UNCHANGED << listMonitored, loaded, loading, loadingFlag >>
        /\ \A d : d \in listWanted' /\ d \notin listWanted => Changed(d) \in Calls(stack')
    <3>1. CASE Request
      <4>1. ClientCall(<< >>) /\ << >> \in Seq(Frames)
        BY <3>1, NoCalls DEF Request
      <4>2. QED
        BY <4>1, ClientLists
    <3>2. CASE ~Request
      BY <1>8, <3>2 DEF MainLoop, Answer, AnswerCancelled, DeepCountProgress,
                        CallReadyCallbacks, listVars
    <3>3. QED
      BY <3>1, <3>2
  <2>3. \A e : /\ EndLoad(e) \notin Calls(stack') /\ Unlist(e) \notin Calls(stack')
               /\ Unload(e) \notin Calls(stack')
    BY <2>1, Ops, Fields
  <2>4. LoadingInv'
    BY <1>4, <1>6, <2>2, <2>3 DEF LoadingInv
  <2>5. WantedInv'
    <3>1. ASSUME NEW d \in listWanted'
          PROVE  d \in loaded' \cup loading' \cup waiting' \/ Changed(d) \in Calls(stack')
      <4>1. CASE d \in listWanted /\ d \in waiting
        BY <1>3, <4>1, WaitingKept DEF Next
      <4>2. QED
        BY <1>5, <2>2, <3>1, <4>1
    <3>2. QED
      BY <3>1 DEF WantedInv, Coming
  <2>6. CancelInv' /\ TellInv'
    BY <2>1, <2>3 DEF CancelInv, Cancelling, TellInv
  <2>7. QED
    BY <2>4, <2>5, <2>6
<1>9. QED
  BY <1>7, <1>8

\* The invariant of the loads is inductive.
LEMMA LoadsInductive ==
  ASSUME PassesAreQuiet, NoNestedReload, FilesApart
  PROVE  /\ Init => LoadsInv
         /\ TypeOK /\ TypeOK' /\ LoadsInv /\ [Next]_vars => LoadsInv'
<1>1. ASSUME Init PROVE LoadsInv
  <2>1. /\ stack = << >> /\ listMonitored = {} /\ listWanted = {} /\ loading = {} /\ loadingFlag = {}
    BY <1>1 DEF Init
  <2>2. Calls(stack) = {} /\ Signals(stack) = {}
    BY <2>1, NoCalls DEF Signals
  <2>3. LoadingInv /\ WantedInv /\ CancelInv /\ TellInv
    BY <2>1, <2>2 DEF LoadingInv, WantedInv, CancelInv, TellInv, Cancelling
  <2>4. QED
    BY <1>1, <2>3, LoadOnceInductive DEF LoadsInv
<1>2. ASSUME TypeOK, TypeOK', LoadsInv, [Next]_vars PROVE LoadsInv'
  <2>1. LoadOnceInv'
    BY <1>2, LoadOnceInductive DEF LoadsInv
  <2>2. CASE UNCHANGED vars
    <3>1. UNCHANGED << stack, listMonitored, listWanted, loading, loaded, loadingFlag, waiting,
                       stateChanged >>
      BY <2>2 DEF vars, listVars, loopVars, slotVars
    <3>2. LoadingInv' /\ WantedInv' /\ CancelInv' /\ TellInv'
      BY <1>2, <3>1 DEF LoadsInv, LoadingInv, WantedInv, CancelInv, TellInv, Coming, Settled
    <3>3. QED
      BY <2>1, <3>2 DEF LoadsInv
  <2>3. CASE Step
    <3>1. LoadingInv' /\ WantedInv'
      BY <1>2, <2>3, LoadingStep, WantedStep DEF LoadsInv
    <3>2. CancelInv' /\ TellInv'
      BY <1>2, <2>3, CancelStep, TellStep DEF LoadsInv
    <3>3. QED
      BY <2>1, <3>1, <3>2 DEF LoadsInv
  <2>4. CASE MainLoop
    BY <1>2, <2>1, <2>4, EventLoads DEF LoadsInv
  <2>5. QED
    BY <1>2, <2>2, <2>3, <2>4 DEF Next
<1>3. QED
  BY <1>1, <1>2

\* Whenever the main loop waits, a load is in progress only for a list that somebody
\* wants and that is not there yet, the files say that they are being loaded exactly
\* while they are, and a list that somebody wants is there, or loading, or waits for
\* a slot: directory_load_cancel, the reload and the end of a load never leave one
\* behind, as long as no start function signals before it returns, no handler reloads
\* a directory, and no two directories share a file.
THEOREM LoadsStayWanted ==
  ASSUME PassesAreQuiet, NoNestedReload, FilesApart
  PROVE  Spec => []LoadsAreWanted
<1>1. TypeOK /\ LoadsInv => LoadsAreWanted
  <2>1. SUFFICES ASSUME TypeOK, LoadsInv, Rest PROVE LoadsAreWanted
    BY DEF LoadsAreWanted
  <2>2. stack = << >> /\ Calls(stack) = {}
    BY <2>1, NoCalls DEF Rest
  <2>3. stateChanged = {} /\ \A d \in Directories : Settled(d)
    BY <2>1, <2>2 DEF LoadsInv, LoadOnceInv, BaseInv, LoopInv, Passing, SettledInv
  <2>4. \A d \in loading : d \in listMonitored /\ d \notin loaded
    BY <2>1, <2>2 DEF LoadsInv, LoadingInv, Cancelling
  <2>5. loading \subseteq listWanted /\ loading \cap loaded = {}
    BY <2>1, <2>3, <2>4 DEF TypeOK, Settled
  <2>6. {e \in loading : EndLoad(e) \notin Calls(stack)} = loading
    BY <2>2
  <2>7. loadingFlag = {Corresponding[d] : d \in loading}
    BY <2>1, <2>6 DEF LoadsInv, LoadingInv
  <2>8. listWanted \subseteq loaded \cup loading \cup waiting
    BY <2>1, <2>2, <2>3 DEF LoadsInv, WantedInv, Coming
  <2>9. QED
    BY <2>5, <2>7, <2>8 DEF LoadsAreWanted
<1>2. QED
  BY <1>1, LoadsInductive, TypeCorrect, PTL DEF Spec
=============================================================================
