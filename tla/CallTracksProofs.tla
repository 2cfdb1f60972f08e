-------------------------- MODULE CallTracksProofs ---------------------------
(***************************************************************************)
(* Proofs about CallTracks, for any sessions, any number of shares, copies *)
(* of a screen and length of tracksCh.                                     *)
(*                                                                         *)
(* Every step is classified once by what it does to one part of the state  *)
(* (Goes to HistoryGrows below), and the invariants are derived from that. *)
(* TracksInv is inductive:                                                 *)
(*   - a track that is queued is listed by its session, or orphaned, which *)
(*     makes SendersListed hold of a sender the moment it is made;         *)
(*   - the screens that are listed are those of the share that is on       *)
(*     (ScreensCurrent).  It fails only when a session leaves before its   *)
(*     ScreenOn is handled: then it stays the screen session, and OnTrack  *)
(*     turns every screen down (Stuck, Quiet);                             *)
(*   - a screen with a sender is the screenTrackSender of its receiver, or *)
(*     is being added or removed (ScreenSenders), so that clearScreenState *)
(*     finds it.  Two of them are then one, which is OneScreen;            *)
(*   - a removal is queued before the screens of the next share            *)
(*     (RemovedFirst), so that addTrack does not meet the old sender.      *)
(***************************************************************************)
EXTENDS CallTracks, FiniteSetTheorems, TLAPS

USE ZenonT(3), SMTT(20)

\* The screens among the tracks, and the messages of a tracksCh: only a screen is
\* removed by one.
Screens == {t \in Tracks : isVideo(t)}
Adds == {AddOf(t) : t \in Tracks}
Removes == {RemoveOf(t) : t \in Screens}
Messages == Adds \cup Removes
Arrivals == [track : Tracks, step : {"set", "announce"}]

TrackTypes ==
  /\ inCall \subseteq Sessions
  /\ stage \in [Sessions -> {"out", "joined", "tracking", "done"}]
  /\ outVoice \in [Sessions -> Tracks \cup {Nil}]
  /\ outAudio \in [Sessions -> Tracks \cup {Nil}]
  /\ outScreen \in [Sessions -> Nat] /\ share \in [Sessions -> Nat]
  /\ tracksCh \in [Sessions -> Seq(Messages)]
  /\ senders \in [Sessions -> SUBSET Tracks]
  /\ screenSender \in [Sessions -> Screens \cup {Nil}]
  /\ negotiating \in [Sessions -> Messages \cup {Idle}]
  /\ inFlight \subseteq Arrivals

\* A session's tracks are its own.  It has none before it joins, and leaves the
\* call before its closeCh is closed.
OwnTracks ==
  /\ \A o \in Sessions :
       /\ outVoice[o] # Nil => outVoice[o].of = o /\ outVoice[o].kind = "voice"
       /\ outAudio[o] # Nil => outAudio[o].of = o /\ outAudio[o].kind = "audio"
       /\ stage[o] = "out" =>
            /\ o \notin inCall /\ outVoice[o] = Nil /\ outAudio[o] = Nil
            /\ \A h \in inFlight : h.track.of # o
       /\ o \in closed => o \notin inCall /\ stage[o] # "out"

\* What is known of sharing.
ShareTypes ==
  /\ sharer \in Sessions \cup {Nil} /\ screenSession \in Sessions \cup {Nil}
  /\ streamID \in [Sessions -> Nat]
  /\ coming \in [Sessions -> SUBSET {"voice", "on", "audio", "screen"}]
  /\ reader \in Requests \cup {Nil}

onOf(s) == [op |-> "on", of |-> s]
offOf(s) == [op |-> "off", of |-> s]

\* A session that left the call before its ScreenOn was handled stays the screen
\* session for good.
Stuck == screenSession \notin inCall \cup {Nil}

\* Where a share stands: the screen session is the session that shares, from
\* its ScreenOn to its ScreenOff, unless it is stuck.
Sharing ==
  /\ sharer # Nil => sharer \in inCall
  /\ screenSession \in inCall => screenSession = sharer
  /\ Stuck => streamID[screenSession] # 0 /\ stage[screenSession] # "out"
  /\ \A s \in Sessions :
       /\ coming[s] \cap {"on", "audio", "screen"} # {} => share[s] # 0
       /\ "on" \in coming[s] /\ s \in inCall => sharer = s
       /\ reader = onOf(s) =>
            /\ stage[s] # "out" /\ share[s] # 0
            /\ s \in inCall => sharer = s /\ "on" \notin coming[s]
       /\ reader = offOf(s) =>
            /\ stage[s] # "out"
            /\ s \in inCall => sharer = s /\ "on" \notin coming[s]
            /\ s \notin inCall => screenSession # s
       /\ sharer = s /\ "on" \notin coming[s] /\ reader # onOf(s) => screenSession = s \/ Stuck

\* What holds of every track that a session has made, and of those of the share
\* that is on.
Known(t) == stage[t.of] # "out" /\ t.share <= share[t.of] /\ (t.kind # "voice" => t.share # 0)
Current(t) == sharer = t.of /\ share[t.of] = t.share
Listed(t) == t.of \in inCall /\ t \in outTracks(t.of)

KnownTracks ==
  /\ \A h \in inFlight : Known(h.track)
  /\ \A s \in Sessions : \A m \in Range(tracksCh[s]) : m.action = "add" => Known(m.track)
  /\ \A o \in Sessions : \A t \in outTracks(o) : Known(t)

\* A track that is queued, or announced next, is listed by its session, unless
\* that has let go of it.
QueuedListed ==
  /\ \A s \in Sessions : \A m \in Range(tracksCh[s]) :
       m.action = "add" => m.track \in orphaned \/ Listed(m.track)
  /\ \A h \in inFlight : h.step = "announce" =>
       stray(h.track) \/ \A u \in copies(h.track) : u \in orphaned \/ u \in outTracks(h.track.of)

\* No screen of the share that is on is anywhere.
Quiet ==
  /\ \A h \in inFlight : isVideo(h.track) => stray(h.track)
  /\ \A s \in Sessions : \A m \in Range(tracksCh[s]) :
       m.action = "add" /\ isVideo(m.track) => stray(m.track)
  /\ \A o \in Sessions : \A t \in screenTracks(o) : stray(t)

\* The screens that are listed are those of the share that is on.  Once the
\* screen session is stuck, no new screen is let in.
ScreensCurrent ==
  \/ \A o \in inCall : \A t \in screenTracks(o) \ orphaned : Current(t)
  \/ Stuck /\ Quiet

\* A session receives the tracks of others.
FromOthers ==
  \A s \in Sessions : /\ \A t \in senders[s] : t.of # s
                      /\ \A m \in Range(tracksCh[s]) : m.action = "add" => m.track.of # s

\* A session has no sender before it joins.  Its screenTrackSender is one of its
\* senders, and not set while a screen is being added.
SenderPart(s) ==
  /\ stage[s] = "out" => senders[s] = {} /\ screenSender[s] = Nil /\ negotiating[s] = Idle
  /\ negotiating[s].action = "add" /\ isVideo(negotiating[s].track) =>
       screenSender[s] = Nil /\ (s \in inCall => negotiating[s].track \in senders[s])
  /\ s \in inCall /\ screenSender[s] # Nil => screenSender[s] \in senders[s]
SenderParts == \A s \in Sessions : SenderPart(s)

\* A screen with a sender is the screenTrackSender of its receiver, or is being
\* added or about to be removed.
ScreenSenders ==
  \A s \in inCall \ marred : \A t \in senders[s] \ orphaned : isVideo(t) =>
    screenSender[s] = t \/ negotiating[s] = AddOf(t) \/ RemoveOf(t) \in Range(tracksCh[s])

\* The screen that is queued before a removal is not of the share that is on.
RemovedFirst ==
  \A s \in Sessions : \A i, j \in DOMAIN tracksCh[s] :
    /\ j < i
    /\ tracksCh[s][i].action = "remove"
    /\ tracksCh[s][j].action = "add" /\ isVideo(tracksCh[s][j].track)
    => stray(tracksCh[s][j].track) \/ tracksCh[s][i].track \in orphaned

\* What a step may do to the sessions of the call and their shares.
Goes ==
  \A s \in Sessions :
    /\ stage[s] # "out" => stage'[s] # "out" /\ (s \in inCall' => s \in inCall)
    /\ share'[s] \in Nat /\ share[s] <= share'[s]
    /\ sharer' = s => (sharer = s /\ share'[s] = share[s]) \/ share'[s] = share[s] + 1

\* Where the tracks of a queue, of OnTrack and of a session's lists come from.
AddsCome ==
  \A s \in Sessions : \A m \in Range(tracksCh'[s]) : m.action = "add" =>
    \/ m \in Range(tracksCh[s])
    \/ \E t \in Tracks : Announce(t) /\ t.of # s /\ m.track \in copies(t)
    \/ \E r \in Sessions : StartTracks(r) /\ \E o \in inCall \ {s} : m.track \in outTracks(o)

FlightsCome ==
  \A h \in inFlight' :
    \/ h \in inFlight
    \/ \E s \in Sessions, kind \in {"voice", "audio", "screen"} :
         OnTrack(s, kind) /\ h.track \in classify(s, kind) /\ h.step = "set"
    \/ \E t \in Tracks : SetTrack(t) /\ h = [track |-> t, step |-> "announce"]

ListsCome ==
  \A o \in Sessions : \A t \in outTracks(o)' :
    t \in outTracks(o) \/ \E u \in Tracks : SetTrack(u) /\ u.of = o /\ t \in copies(u)

\* How a track goes from its session's lists.
ListsGo ==
  \A o \in Sessions : \A t \in outTracks(o) :
    \/ t \in outTracks(o)'
    \/ t \in orphaned'
    \/ ScreenOff(o) /\ screenSession = o /\ t.kind # "voice"

SendersCome ==
  \A r \in Sessions : \A t \in senders'[r] :
    t \in senders[r] \/ (AddTrack(r) /\ t = Head(tracksCh[r]).track)

\* A removal stays queued as long as there is a sender to remove.
RemovalsStay ==
  \A r \in inCall : \A t \in senders'[r] :
    RemoveOf(t) \in Range(tracksCh[r]) => RemoveOf(t) \in Range(tracksCh'[r])

\* How a screenTrackSender is cleared, and how an addition ends.
ScreenClears ==
  \A r \in Sessions : screenSender[r] # Nil =>
    \/ screenSender'[r] = screenSender[r]
    \/ Answered(r) /\ negotiating[r].action = "add" /\ isVideo(negotiating[r].track)
    \/ screenSender[r] \notin senders'[r]
    \/ \E s \in Sessions \ {r} : (CloseDetach(s) \/ ScreenOff(s)) /\ screenSession = s

AddEnds ==
  \A r \in Sessions : negotiating[r].action = "add" =>
    \/ negotiating'[r] = negotiating[r]
    \/ Answered(r) /\ (isVideo(negotiating[r].track) => screenSender'[r] = negotiating[r].track)
    \/ r \in marred' \cup closed

\* How an addition comes to be queued before a removal.
Kept(s, i, j) ==
  \/ \E x, y \in DOMAIN tracksCh[s] :
       y < x /\ tracksCh[s][x] = tracksCh'[s][i] /\ tracksCh[s][y] = tracksCh'[s][j]
  \/ /\ tracksCh'[s][j] \in Range(tracksCh[s])
     /\ \E us \in Sessions : \/ CloseDetach(us) /\ tracksCh'[s][i].track \in screenTracks(us)
                             \/ ScreenOff(us) /\ screenSession = us
OrderKept ==
  \A s \in Sessions : \A i, j \in DOMAIN tracksCh'[s] :
    j < i /\ tracksCh'[s][i].action = "remove" /\ tracksCh'[s][j].action = "add" => Kept(s, i, j)

CallsEnd == \A o \in inCall : o \in inCall' \/ CloseDetach(o)

\* How a share ends, and how the screen session changes.
SharesEnd ==
  \A o \in Sessions : sharer = o =>
    (sharer' = o /\ share'[o] = share[o]) \/ CloseDetach(o) \/ (ScreenOff(o) /\ sharer' = Nil)

StuckLasts == Stuck => screenSession' = screenSession

HistoryGrows == orphaned \subseteq orphaned' /\ marred \subseteq marred'

TracksInv ==
  /\ TrackTypes /\ ShareTypes /\ OwnTracks /\ Sharing
  /\ KnownTracks /\ QueuedListed /\ ScreensCurrent
  /\ FromOthers /\ SenderParts /\ ScreenSenders /\ RemovedFirst
  /\ Heard /\ SendersListed /\ BlockedByOrphans

-----------------------------------------------------------------------------
(* Queues.                                                                 *)

\* Min, of two numbers.
LEMMA MinOfTwo ==
  ASSUME NEW m \in Int, NEW n \in Int
  PROVE  Min({m, n}) \in Int /\ Min({m, n}) <= m /\ Min({m, n}) <= n /\ Min({m, n}) \in {m, n}
<1>1. \E x \in {m, n} : \A y \in {m, n} : x =< y
  BY SMTT(20)
<1> QED BY <1>1, SMTT(20) DEF Min

\* What two sequences hold together.
LEMMA Joined ==
  ASSUME NEW S, NEW a \in Seq(S), NEW b \in Seq(S)
  PROVE  a \o b \in Seq(S) /\ Range(a \o b) = Range(a) \cup Range(b)
<1> DEFINE k == Len(a)
           l == Len(b)
           p == a \o b
<1>1. k \in Nat /\ l \in Nat /\ p \in Seq(S)
  BY SMTT(20)
<1>2. /\ DOMAIN p = 1..(k + l) /\ DOMAIN a = 1..k /\ DOMAIN b = 1..l
      /\ \A i \in 1..k : p[i] = a[i]
      /\ \A i \in 1..l : p[k + i] = b[i]
  BY SMTT(20)
<1> HIDE DEF k, l, p
<1>3. Range(a) \subseteq Range(p)
  <2>1. \A i \in DOMAIN a : i \in DOMAIN p /\ p[i] = a[i]
    BY <1>1, <1>2, SMTT(20)
  <2> QED BY <2>1, Zenon DEF Range
<1>4. Range(b) \subseteq Range(p)
  <2>1. \A i \in DOMAIN b : k + i \in DOMAIN p /\ p[k + i] = b[i]
    BY <1>1, <1>2, SMTT(20)
  <2> QED BY <2>1, Zenon DEF Range
<1>5. Range(p) \subseteq Range(a) \cup Range(b)
  <2>1. \A i \in DOMAIN p : (i \in DOMAIN a /\ p[i] = a[i]) \/ (i - k \in DOMAIN b /\ p[i] = b[i - k])
    <3> TAKE i \in DOMAIN p
    <3>1. i \in Int /\ 1 <= i /\ i <= k + l
      BY <1>1, <1>2, SMTT(20)
    <3>2. CASE i <= k
      BY <1>1, <1>2, <3>1, <3>2, SMTT(20)
    <3>3. CASE i > k
      <4> DEFINE j == i - k
      <4>1. j \in 1..l /\ i = k + j
        BY <1>1, <3>1, <3>3, SMTT(20)
      <4> QED BY <1>2, <4>1
    <3> QED BY <1>1, <3>1, <3>2, <3>3, SMTT(20)
  <2> QED BY <2>1, Zenon DEF Range
<1> QED BY <1>1, <1>3, <1>4, <1>5, Zenon DEF p

\* What is sent without blocking: nothing is lost of what was there, and all of
\* it finds room unless the channel overflows.
LEMMA Queueing ==
  ASSUME NEW S, NEW ch \in Seq(S), NEW q \in Seq(S)
  PROVE  /\ ch \o room(ch, q) \in Seq(S)
         /\ Range(ch) \subseteq Range(ch \o room(ch, q))
         /\ Range(ch \o room(ch, q)) \subseteq Range(ch) \cup Range(q)
         /\ ~overflows(ch, q) => Range(q) \subseteq Range(ch \o room(ch, q))
<1> DEFINE k == Len(ch)
           m == Len(q)
           n == Min({m, TracksChSize - k})
           r == SubSeq(q, 1, n)
           l == Len(r)
<1>1. k \in Nat /\ m \in Nat /\ TracksChSize \in Nat
  BY TracksAssumption, SMTT(20)
<1> HIDE DEF k, m
<1>2. n \in Int /\ n <= m /\ n <= TracksChSize - k /\ n \in {m, TracksChSize - k}
  <2>1. TracksChSize - k \in Int /\ m \in Int
    BY <1>1, SMTT(20)
  <2> HIDE DEF n
  <2> QED BY <2>1, MinOfTwo DEF n
<1> HIDE DEF n
<1>3. ~overflows(ch, q) => n = m
  <2>1. overflows(ch, q) <=> k + m > TracksChSize
    BY DEF overflows, k, m
  <2> QED BY <1>1, <1>2, <2>1, SMTT(20)
<1>4. r \in Seq(S)
  BY <1>1, <1>2, SMTT(20) DEF m
<1>5. l \in Nat /\ l <= m /\ (n = m => l = m) /\ \A i \in 1..l : r[i] = q[i]
  BY <1>1, <1>2, SMTT(20) DEF m
<1>6. room(ch, q) = r
  BY DEF room, n, k, m
<1>7. DOMAIN r = 1..l /\ DOMAIN q = 1..m
  BY <1>4, SMTT(20) DEF m
<1> HIDE DEF r, l
<1>8. Range(r) \subseteq Range(q)
  <2>1. \A i \in DOMAIN r : i \in DOMAIN q /\ r[i] = q[i]
    BY <1>1, <1>5, <1>7, SMTT(20)
  <2> QED BY <2>1, Zenon DEF Range
<1>9. ~overflows(ch, q) => Range(q) \subseteq Range(r)
  <2>1. ~overflows(ch, q) => \A i \in DOMAIN q : i \in DOMAIN r /\ r[i] = q[i]
    BY <1>3, <1>5, <1>7, SMTT(20)
  <2> QED BY <2>1, Zenon DEF Range
<1>10. ch \o r \in Seq(S) /\ Range(ch \o r) = Range(ch) \cup Range(r)
  BY <1>4, Joined
<1> QED BY <1>6, <1>8, <1>9, <1>10, Zenon

\* What is in a queue, and what is left once its head is taken.
LEMMA Taking ==
  ASSUME NEW S, NEW ch \in Seq(S), ch # <<>>
  PROVE  /\ Tail(ch) \in Seq(S) /\ Head(ch) \in S /\ Head(ch) \in Range(ch)
         /\ Range(Tail(ch)) \subseteq Range(ch) /\ Range(ch) \subseteq {Head(ch)} \cup Range(Tail(ch))
<1>1. /\ Tail(ch) \in Seq(S) /\ Head(ch) \in S /\ Len(ch) \in Nat /\ Head(ch) = ch[1] /\ DOMAIN ch = 1..Len(ch)
      /\ Len(ch) >= 1 /\ DOMAIN Tail(ch) = 1..(Len(ch) - 1)
      /\ \A i \in 1..(Len(ch) - 1) : Tail(ch)[i] = ch[i + 1]
  BY SMTT(20)
<1>2. 1 \in DOMAIN ch
  BY <1>1, SMTT(20)
<1>3. \A i \in DOMAIN Tail(ch) : i + 1 \in DOMAIN ch /\ Tail(ch)[i] = ch[i + 1]
  BY <1>1, SMTT(20)
<1>4. \A i \in DOMAIN ch : i = 1 \/ (i - 1 \in DOMAIN Tail(ch) /\ Tail(ch)[i - 1] = ch[i])
  BY <1>1, SMTT(20)
<1>5. Range(Tail(ch)) \subseteq Range(ch)
  BY <1>3, Zenon DEF Range
<1>6. Range(ch) \subseteq {Head(ch)} \cup Range(Tail(ch))
  <2> SUFFICES ASSUME NEW i \in DOMAIN ch PROVE ch[i] = Head(ch) \/ ch[i] \in Range(Tail(ch))
    BY Zenon DEF Range
  <2> QED BY <1>1, <1>4, Zenon DEF Range
<1>7. Head(ch) \in Range(ch)
  BY <1>1, <1>2, Zenon DEF Range
<1> QED BY <1>1, <1>5, <1>6, <1>7

-----------------------------------------------------------------------------
(* Tracks and messages.                                                    *)

\* The tracks that OnTrack makes.
LEMMA NewTracks ==
  ASSUME NEW s \in Sessions, NEW n \in Nat, NEW i \in Nat
  PROVE  /\ Voice(s) \in Tracks /\ Audio(s, n) \in Tracks /\ Misheard(s, n) \in Tracks
         /\ Voice(s).of = s /\ Audio(s, n).of = s /\ Misheard(s, n).of = s
         /\ Screen(s, n, i) \in Screens /\ Screen(s, n, i) \in Tracks /\ Screen(s, n, i).of = s
BY DEF Voice, Audio, Misheard, Screen, Tracks, Screens, isVideo

\* The two messages of a tracksCh.
LEMMA MessageParts ==
  ASSUME NEW t
  PROVE  /\ AddOf(t).action = "add" /\ AddOf(t).track = t
         /\ RemoveOf(t).action = "remove" /\ RemoveOf(t).track = t
         /\ AddOf(t) # Idle /\ RemoveOf(t) # Idle
         /\ t \in Tracks => AddOf(t) \in Messages
         /\ t \in Screens => RemoveOf(t) \in Messages
<1>1. /\ AddOf(t).action = "add" /\ AddOf(t).track = t
      /\ RemoveOf(t).action = "remove" /\ RemoveOf(t).track = t
      /\ Idle.action = "idle"
  BY DEF AddOf, RemoveOf, Idle
<1>2. (t \in Tracks => AddOf(t) \in Messages) /\ (t \in Screens => RemoveOf(t) \in Messages)
  BY Zenon DEF Messages, Adds, Removes
<1> QED BY <1>1, <1>2

\* A message is to add a track, or to remove a screen.
LEMMA MessageKinds ==
  ASSUME NEW m \in Messages
  PROVE  /\ m.track \in Tracks
         /\ m.action = "add" => m = AddOf(m.track)
         /\ m.action # "add" => m.action = "remove" /\ m = RemoveOf(m.track) /\ m.track \in Screens
<1>1. CASE m \in Adds
  <2>1. PICK t \in Tracks : m = AddOf(t)
    BY <1>1, Zenon DEF Adds
  <2> QED BY <2>1, MessageParts, ZenonT(20)
<1>2. CASE m \in Removes
  <2>1. PICK t \in Screens : m = RemoveOf(t)
    BY <1>2, Zenon DEF Removes
  <2>2. t \in Tracks
    BY DEF Screens
  <2> QED BY <2>1, <2>2, MessageParts
<1> QED BY <1>1, <1>2 DEF Messages

\* The copies of a track differ in nothing but their number.
LEMMA CopiesOf ==
  ASSUME NEW t \in Tracks
  PROVE  /\ copies(t) \in SUBSET Tracks
         /\ \A u \in copies(t) : u.of = t.of /\ u.kind = t.kind /\ u.share = t.share
         /\ ~isVideo(t) => copies(t) = {t}
<1>1. CASE isVideo(t)
  <2>1. ASSUME NEW u \in copies(t)
        PROVE  u \in Tracks /\ u.of = t.of /\ u.kind = t.kind /\ u.share = t.share
    <3>1. PICK i \in 1..NumCPU : u = [t EXCEPT !.copy = i]
      BY <1>1, Zenon DEF copies
    <3> QED BY <3>1 DEF Tracks
  <2> QED BY <1>1, <2>1
<1>2. CASE ~isVideo(t)
  BY <1>2, Zenon DEF copies
<1> QED BY <1>1, <1>2

\* What sending does to the queues.
LEMMA Enqueues ==
  ASSUME tracksCh \in [Sessions -> Seq(Messages)], NEW q \in [Sessions -> Seq(Messages)], Enqueue(q)
  PROVE  /\ tracksCh' \in [Sessions -> Seq(Messages)]
         /\ marred \subseteq marred'
         /\ \A s \in Sessions : /\ Range(tracksCh[s]) \subseteq Range(tracksCh'[s])
                                /\ Range(tracksCh'[s]) \subseteq Range(tracksCh[s]) \cup Range(q[s])
                                /\ s \in marred' \/ Range(q[s]) \subseteq Range(tracksCh'[s])
<1>1. ASSUME NEW s \in Sessions
      PROVE  /\ tracksCh'[s] \in Seq(Messages)
             /\ Range(tracksCh[s]) \subseteq Range(tracksCh'[s])
             /\ Range(tracksCh'[s]) \subseteq Range(tracksCh[s]) \cup Range(q[s])
             /\ s \in marred' \/ Range(q[s]) \subseteq Range(tracksCh'[s])
  <2>1. tracksCh[s] \in Seq(Messages) /\ q[s] \in Seq(Messages)
    OBVIOUS
  <2>2. tracksCh'[s] = tracksCh[s] \o room(tracksCh[s], q[s])
    BY DEF Enqueue
  <2>3. overflows(tracksCh[s], q[s]) => s \in marred'
    BY DEF Enqueue
  <2> QED BY <2>1, <2>2, <2>3, Queueing
<1>2. tracksCh' \in [Sessions -> Seq(Messages)]
  <2>1. tracksCh' = [s \in Sessions |-> tracksCh'[s]]
    BY Zenon DEF Enqueue
  <2> QED BY <1>1, <2>1, Zenon
<1>3. marred \subseteq marred'
  BY DEF Enqueue
<1> QED BY <1>1, <1>2, <1>3

-----------------------------------------------------------------------------
(* Orders.                                                                 *)

\* An order of finitely many messages is a sequence of just those.
LEMMA OrdersOf ==
  ASSUME NEW S, IsFiniteSet(S), NEW q \in orders(S)
  PROVE  q \in Seq(S) /\ Range(q) = S
<1> DEFINE n == Cardinality(S)
<1>1. n \in Nat
  BY FS_CardinalityType
<1>2. q \in [1..n -> S] /\ \A x \in S : \E i \in 1..n : q[i] = x
  BY Zenon DEF orders, Bijection, Surjection
<1> HIDE DEF n
<1>3. q \in Seq(S) /\ DOMAIN q = 1..n
  BY <1>1, <1>2
<1>4. Range(q) = S
  BY <1>2, <1>3 DEF Range
<1> QED BY <1>3, <1>4

\* A finite set can be put in order.
LEMMA AnOrderOf ==
  ASSUME NEW S, IsFiniteSet(S)
  PROVE  anOrder(S) \in Seq(S) /\ Range(anOrder(S)) = S
<1>1. orders(S) # {}
  BY FS_CardinalityType, Zenon DEF orders, ExistsBijection
<1>2. anOrder(S) \in orders(S)
  BY <1>1, Zenon DEF anOrder
<1> QED BY <1>2, OrdersOf

\* A sequence holds finitely many elements, of its set.
LEMMA FiniteRange ==
  ASSUME NEW S, NEW q \in Seq(S)
  PROVE  IsFiniteSet(Range(q)) /\ Range(q) \subseteq S
<1>1. DOMAIN q = 1..Len(q) /\ Len(q) \in Nat /\ q \in [1..Len(q) -> S]
  OBVIOUS
<1>2. IsFiniteSet(DOMAIN q)
  BY <1>1, FS_Interval, SMTT(20)
<1>3. q \in Surjection(DOMAIN q, Range(q))
  <2>1. q \in [DOMAIN q -> Range(q)]
    BY <1>1 DEF Range
  <2>2. \A x \in Range(q) : \E i \in DOMAIN q : q[i] = x
    BY DEF Range
  <2> QED BY <2>1, <2>2, Zenon DEF Surjection
<1>4. Range(q) \subseteq S
  BY <1>1 DEF Range
<1> QED BY <1>2, <1>3, <1>4, FS_Surjection, Zenon

\* What a sequence of one element holds.
LEMMA OneHeld ==
  ASSUME NEW x
  PROVE  x \in Range(<<x>>) /\ \A y \in Range(<<x>>) : y = x
<1>1. DOMAIN <<x>> = {1} /\ <<x>>[1] = x
  OBVIOUS
<1> QED BY <1>1, Zenon DEF Range

\* The empty sequence holds nothing.
LEMMA NoneHeld == \A y : y \notin Range(<<>>)
<1>1. DOMAIN <<>> = {}
  OBVIOUS
<1> QED BY <1>1, Zenon DEF Range

\* A session that starts is offered the sound of every other one.
LEMMA OffersOf ==
  ASSUME TrackTypes, NEW o \in Sessions, NEW i \in 1..NumCPU
  PROVE  /\ offersOf(o, i) \in Seq(Messages)
         /\ \A t \in {outVoice[o], outAudio[o]} \ {Nil} : AddOf(t) \in Range(offersOf(o, i))
         /\ \A m \in Range(offersOf(o, i)) : \E t \in outTracks(o) : m = AddOf(t)
<1> DEFINE v == IF outVoice[o] = Nil THEN <<>> ELSE <<AddOf(outVoice[o])>>
           w == IF outScreen[o] = 0 THEN <<>> ELSE <<AddOf(Screen(o, outScreen[o], i))>>
           u == IF outAudio[o] = Nil THEN <<>> ELSE <<AddOf(outAudio[o])>>
<1>1. /\ outVoice[o] # Nil => AddOf(outVoice[o]) \in Messages
      /\ outAudio[o] # Nil => AddOf(outAudio[o]) \in Messages
  BY MessageParts DEF TrackTypes
<1>2. AddOf(Screen(o, outScreen[o], i)) \in Messages
  BY NewTracks, MessageParts DEF TrackTypes
<1>3. v \in Seq(Messages) /\ w \in Seq(Messages) /\ u \in Seq(Messages)
  BY <1>1, <1>2
<1>4. /\ outVoice[o] # Nil => AddOf(outVoice[o]) \in Range(v)
      /\ outAudio[o] # Nil => AddOf(outAudio[o]) \in Range(u)
  <2>1. outVoice[o] # Nil => v = <<AddOf(outVoice[o])>>
    OBVIOUS
  <2>2. outAudio[o] # Nil => u = <<AddOf(outAudio[o])>>
    OBVIOUS
  <2> HIDE DEF v, u
  <2> QED BY <2>1, <2>2, OneHeld
<1>5. ASSUME NEW m \in Range(v) \cup Range(w) \cup Range(u) PROVE \E t \in outTracks(o) : m = AddOf(t)
  <2>1. (v = <<>> \/ v = <<AddOf(outVoice[o])>>) /\ (outVoice[o] = Nil => v = <<>>)
    OBVIOUS
  <2>2. (w = <<>> \/ w = <<AddOf(Screen(o, outScreen[o], i))>>) /\ (outScreen[o] = 0 => w = <<>>)
    OBVIOUS
  <2>3. (u = <<>> \/ u = <<AddOf(outAudio[o])>>) /\ (outAudio[o] = Nil => u = <<>>)
    OBVIOUS
  <2> HIDE DEF v, w, u
  <2>4. CASE m \in Range(v)
    <3>1. outVoice[o] # Nil /\ m = AddOf(outVoice[o])
      BY <2>1, <2>4, NoneHeld, OneHeld
    <3> QED BY <3>1 DEF outTracks
  <2>5. CASE m \in Range(w)
    <3>1. outScreen[o] # 0 /\ m = AddOf(Screen(o, outScreen[o], i))
      BY <2>2, <2>5, NoneHeld, OneHeld
    <3>2. Screen(o, outScreen[o], i) \in screenTracks(o)
      BY <3>1, Zenon DEF screenTracks
    <3> QED BY <3>1, <3>2 DEF outTracks
  <2>6. CASE m \in Range(u)
    <3>1. outAudio[o] # Nil /\ m = AddOf(outAudio[o])
      BY <2>3, <2>6, NoneHeld, OneHeld
    <3> QED BY <3>1 DEF outTracks
  <2> QED BY <2>4, <2>5, <2>6
<1>6. offersOf(o, i) = (v \o w) \o u
  BY DEF offersOf
<1> HIDE DEF v, w, u
<1> DEFINE x == v \o w
<1>7. x \in Seq(Messages) /\ Range(x) = Range(v) \cup Range(w)
  BY <1>3, Joined
<1> HIDE DEF x
<1>8. x \o u \in Seq(Messages) /\ Range(x \o u) = Range(x) \cup Range(u)
  BY <1>3, <1>7, Joined
<1>9. offersOf(o, i) = x \o u
  BY <1>6, Zenon DEF x
<1> QED BY <1>4, <1>5, <1>7, <1>8, <1>9, Zenon

\* What handleTracks queues as it starts: the tracks of the sessions visited.
LEMMA VisitsOf ==
  ASSUME TrackTypes, NEW O \in SUBSET Sessions, NEW pick \in [Sessions -> 1..NumCPU],
         NEW q \in visits(O, pick)
  PROVE  /\ q \in Seq(Messages)
         /\ \A o \in O : \A t \in {outVoice[o], outAudio[o]} \ {Nil} : AddOf(t) \in Range(q)
         /\ \A m \in Range(q) : \E o \in O : \E t \in outTracks(o) : m = AddOf(t)
<1> DEFINE f == [o \in O |-> Range(offersOf(o, pick[o]))]
           U == UNION {Range(offersOf(o, pick[o])) : o \in O}
<1>1. ASSUME NEW o \in O
      PROVE  /\ IsFiniteSet(f[o]) /\ f[o] \in SUBSET Messages
             /\ \A t \in {outVoice[o], outAudio[o]} \ {Nil} : AddOf(t) \in f[o]
             /\ \A m \in f[o] : \E t \in outTracks(o) : m = AddOf(t)
  <2>1. o \in Sessions /\ pick[o] \in 1..NumCPU
    OBVIOUS
  <2>2. f[o] = Range(offersOf(o, pick[o]))
    OBVIOUS
  <2> HIDE DEF f
  <2> QED BY <2>1, <2>2, OffersOf, FiniteRange
<1>2. U = UNION Range(f)
  <2>1. DOMAIN f = O /\ \A o \in O : f[o] = Range(offersOf(o, pick[o]))
    OBVIOUS
  <2>2. Range(f) = {f[o] : o \in O}
    BY <2>1, Zenon DEF Range
  <2> HIDE DEF f
  <2>3. \A x : x \in U <=> \E o \in O : x \in f[o]
    BY <2>1, Zenon
  <2> HIDE DEF U
  <2> QED BY <2>2, <2>3
<1>3. IsFiniteSet(O)
  BY TracksAssumption, FS_Subset
<1>4. f \in Surjection(O, Range(f))
  <2>1. f \in [O -> Range(f)] /\ \A x \in Range(f) : \E o \in O : f[o] = x
    BY Zenon DEF Range
  <2> QED BY <2>1, Zenon DEF Surjection
<1>5. IsFiniteSet(Range(f))
  BY <1>3, <1>4, FS_Surjection, Zenon
<1>6. q \in orders(U)
  BY Zenon DEF visits
<1>7. DOMAIN f = O
  OBVIOUS
<1> HIDE DEF f, U
<1>8. \A T \in Range(f) : IsFiniteSet(T) /\ T \subseteq Messages
  BY <1>1, <1>7, Zenon DEF Range
<1>9. IsFiniteSet(U) /\ U \subseteq Messages
  BY <1>2, <1>5, <1>8, FS_UNION, Zenon
<1>10. q \in Seq(U) /\ Range(q) = U
  BY <1>6, <1>9, OrdersOf
<1>11. q \in Seq(Messages)
  BY <1>9, <1>10
<1>12. (\A o \in O : f[o] \subseteq U) /\ \A m \in U : \E o \in O : m \in f[o]
  BY <1>2, <1>7, Zenon DEF Range
<1> QED BY <1>1, <1>10, <1>11, <1>12, Zenon

\* The screens of a session that are removed from a receiver.
LEMMA RemovalsOf ==
  ASSUME TrackTypes, NEW us \in Sessions, NEW S \in SUBSET screenTracks(us)
  PROVE  LET q == anOrder({RemoveOf(t) : t \in S}) IN
         q \in Seq(Messages) /\ Range(q) = {RemoveOf(t) : t \in S}
<1> DEFINE f == [i \in 1..NumCPU |-> RemoveOf(Screen(us, outScreen[us], i))]
           R == {RemoveOf(t) : t \in S}
<1>1. IsFiniteSet(1..NumCPU)
  BY TracksAssumption, FS_Interval, SMTT(20)
<1>2. PICK D : D = 1..NumCPU
  OBVIOUS
<1>3. IsFiniteSet(Range(f))
  <2>1. f \in [D -> Range(f)] /\ \A x \in Range(f) : \E i \in D : f[i] = x
    BY <1>2, Zenon DEF Range
  <2> HIDE DEF f
  <2>2. f \in Surjection(D, Range(f))
    BY <2>1, Zenon DEF Surjection
  <2> QED BY <1>1, <1>2, <2>2, FS_Surjection, Zenon
<1>4. R \subseteq Range(f)
  <2> SUFFICES ASSUME NEW t \in S PROVE RemoveOf(t) \in Range(f)
    BY Zenon
  <2>1. PICK i \in 1..NumCPU : t = Screen(us, outScreen[us], i)
    BY Zenon DEF screenTracks
  <2> QED BY <2>1, Zenon DEF Range
<1>5. Range(f) \subseteq Messages
  <2> SUFFICES ASSUME NEW i \in 1..NumCPU PROVE RemoveOf(Screen(us, outScreen[us], i)) \in Messages
    BY Zenon DEF Range
  <2>1. outScreen[us] \in Nat /\ i \in Nat
    BY DEF TrackTypes
  <2> QED BY <2>1, NewTracks, MessageParts
<1> HIDE DEF f, R
<1>6. IsFiniteSet(R)
  BY <1>3, <1>4, FS_Subset
<1>7. anOrder(R) \in Seq(R) /\ Range(anOrder(R)) = R /\ R \subseteq Messages
  BY <1>4, <1>5, <1>6, AnOrderOf
<1>8. anOrder(R) \in Seq(Messages)
  BY <1>7
<1> QED BY <1>7, <1>8 DEF R

-----------------------------------------------------------------------------
(* The types of what is kept.                                              *)

\* The head of a queue, and what is left of it.
LEMMA HeadTaken ==
  ASSUME TrackTypes, NEW s \in Sessions, tracksCh[s] # <<>>, took(s)
  PROVE  /\ tracksCh' \in [Sessions -> Seq(Messages)]
         /\ Head(tracksCh[s]) \in Messages /\ Head(tracksCh[s]).track \in Tracks
         /\ Range(tracksCh[s]) \subseteq {Head(tracksCh[s])} \cup Range(tracksCh'[s])
         /\ Range(tracksCh'[s]) \subseteq Range(tracksCh[s])
         /\ \A r \in Sessions : r # s => tracksCh'[r] = tracksCh[r]
<1>1. tracksCh \in [Sessions -> Seq(Messages)] /\ tracksCh[s] \in Seq(Messages)
  BY DEF TrackTypes
<1>2. /\ Tail(tracksCh[s]) \in Seq(Messages) /\ Head(tracksCh[s]) \in Messages
      /\ Range(tracksCh[s]) \subseteq {Head(tracksCh[s])} \cup Range(Tail(tracksCh[s]))
      /\ Range(Tail(tracksCh[s])) \subseteq Range(tracksCh[s])
  BY <1>1, Taking
<1>3. /\ tracksCh' \in [Sessions -> Seq(Messages)] /\ tracksCh'[s] = Tail(tracksCh[s])
      /\ \A r \in Sessions : r # s => tracksCh'[r] = tracksCh[r]
  BY <1>1, <1>2 DEF took
<1> QED BY <1>2, <1>3, MessageKinds

\* The messages CloseDetach, StartTracks, Announce and ScreenOff send.
LEMMA SentByClose ==
  ASSUME TrackTypes, NEW us \in Sessions, CloseDetach(us)
  PROVE  \E q \in [Sessions -> Seq(Messages)] :
           /\ Enqueue(q)
           /\ \A s \in Sessions : \A m \in Range(q[s]) : \E t \in senders[s] \cap screenTracks(us) : m = RemoveOf(t)
           /\ \A s \in inCall \ {us} : \A t \in senders[s] \cap screenTracks(us) : RemoveOf(t) \in Range(q[s])
<1> DEFINE R(s) == anOrder({RemoveOf(t) : t \in senders[s] \cap screenTracks(us)})
           q == [s \in Sessions |-> IF s \in inCall \ {us} THEN R(s) ELSE <<>>]
<1>1. \A s \in Sessions : R(s) \in Seq(Messages) /\ Range(R(s)) = {RemoveOf(t) : t \in senders[s] \cap screenTracks(us)}
  <2> TAKE s \in Sessions
  <2>1. PICK S \in SUBSET screenTracks(us) : S = senders[s] \cap screenTracks(us)
    OBVIOUS
  <2> QED BY <2>1, RemovalsOf, Zenon
<1>2. Enqueue(q)
  BY Zenon DEF CloseDetach
<1>3. <<>> \in Seq(Messages)
  OBVIOUS
<1> HIDE DEF R
<1>4. q \in [Sessions -> Seq(Messages)]
  BY <1>1, <1>3
<1>5. \A s \in Sessions : q[s] = <<>> \/ q[s] = R(s)
  OBVIOUS
<1>6. \A s \in inCall \ {us} : s \in Sessions /\ q[s] = R(s)
  BY DEF TrackTypes
<1> HIDE DEF q
<1>7. ASSUME NEW s \in Sessions, NEW m \in Range(q[s])
      PROVE  \E t \in senders[s] \cap screenTracks(us) : m = RemoveOf(t)
  BY <1>1, <1>5, <1>7, NoneHeld, ZenonT(20)
<1>8. \A s \in inCall \ {us} : \A t \in senders[s] \cap screenTracks(us) : RemoveOf(t) \in Range(q[s])
  BY <1>1, <1>6, ZenonT(20)
<1> QED BY <1>2, <1>4, <1>7, <1>8, Zenon

\* What OnTrack queues, and for whom.
LEMMA SentByAnnounce ==
  ASSUME TrackTypes, NEW t \in Tracks, Announce(t)
  PROVE  \E q \in [Sessions -> Seq(Messages)] :
           /\ Enqueue(q)
           /\ ~isVideo(t) => \A s \in receivers(t) : AddOf(t) \in Range(q[s])
           /\ \A s \in Sessions : Range(q[s]) \subseteq {AddOf(u) : u \in copies(t)}
           /\ Range(q[t.of]) = {}
<1>1. PICK pick \in [Sessions -> copies(t)] :
        Enqueue([s \in Sessions |-> IF s \in receivers(t) THEN <<AddOf(pick[s])>> ELSE <<>>])
  BY DEF Announce
<1> DEFINE q == [s \in Sessions |-> IF s \in receivers(t) THEN <<AddOf(pick[s])>> ELSE <<>>]
<1>2. \A s \in Sessions : pick[s] \in copies(t) /\ AddOf(pick[s]) \in Messages
  BY CopiesOf, MessageParts
<1>3. q \in [Sessions -> Seq(Messages)]
  BY <1>2
<1>4. ASSUME ~isVideo(t), NEW s \in receivers(t) PROVE AddOf(t) \in Range(q[s])
  <2>1. s \in Sessions
    BY DEF receivers, TrackTypes
  <2>2. pick[s] = t
    BY <1>2, <1>4, <2>1, CopiesOf
  <2>3. q[s] = <<AddOf(t)>>
    BY <2>1, <2>2
  <2> QED BY <2>3, OneHeld
<1>5. ASSUME NEW s \in Sessions PROVE Range(q[s]) \subseteq {AddOf(u) : u \in copies(t)}
  <2>1. q[s] = <<AddOf(pick[s])>> \/ q[s] = <<>>
    OBVIOUS
  <2> HIDE DEF q
  <2>2. Range(q[s]) \subseteq {AddOf(pick[s])}
    BY <2>1, NoneHeld, OneHeld
  <2> QED BY <1>2, <2>2
<1>6. Range(q[t.of]) = {}
  <2>1. q[t.of] = <<>>
    BY DEF receivers, Tracks
  <2> HIDE DEF q
  <2> QED BY <2>1, NoneHeld
<1> QED BY <1>1, <1>3, <1>4, <1>5, <1>6

\* What StartTracks queues, and for whom.
LEMMA SentByStart ==
  ASSUME TrackTypes, NEW s \in Sessions, StartTracks(s)
  PROVE  \E q \in [Sessions -> Seq(Messages)] :
           /\ Enqueue(q)
           /\ \A o \in inCall \ {s} : \A t \in {outVoice[o], outAudio[o]} \ {Nil} : AddOf(t) \in Range(q[s])
           /\ \A r \in Sessions : \A m \in Range(q[r]) : \E o \in inCall \ {r} : \E t \in outTracks(o) : m = AddOf(t)
<1>1. PICK pick \in [Sessions -> 1..NumCPU] : \E p \in visits(inCall \ {s}, pick) :
        Enqueue([r \in Sessions |-> IF r = s THEN p ELSE <<>>])
  BY DEF StartTracks
<1>2. PICK p \in visits(inCall \ {s}, pick) : Enqueue([r \in Sessions |-> IF r = s THEN p ELSE <<>>])
  BY <1>1
<1>3. inCall \ {s} \in SUBSET Sessions
  BY DEF TrackTypes
<1>4. /\ p \in Seq(Messages)
      /\ \A o \in inCall \ {s} : \A t \in {outVoice[o], outAudio[o]} \ {Nil} : AddOf(t) \in Range(p)
      /\ \A m \in Range(p) : \E o \in inCall \ {s} : \E t \in outTracks(o) : m = AddOf(t)
  BY <1>3, VisitsOf
<1> DEFINE q == [r \in Sessions |-> IF r = s THEN p ELSE <<>>]
<1>5. q \in [Sessions -> Seq(Messages)] /\ q[s] = p /\ \A r \in Sessions : r = s \/ q[r] = <<>>
  BY <1>4
<1>6. Enqueue(q)
  BY <1>2
<1> HIDE DEF q
<1>7. \A r \in Sessions : \A m \in Range(q[r]) : \E o \in inCall \ {r} : \E t \in outTracks(o) : m = AddOf(t)
  BY <1>4, <1>5, NoneHeld, Zenon
<1> QED BY <1>4, <1>5, <1>6, <1>7, Zenon

\* What clearScreenState queues: the removal of the screenTrackSender.
LEMMA SentByOff ==
  ASSUME TrackTypes, NEW us \in Sessions, clearScreenState(us)
  PROVE  \/ /\ screenSession # us
            /\ UNCHANGED <<screenSession, outScreen, outAudio, screenSender, tracksCh, marred>>
         \/ /\ screenSession = us
            /\ \E q \in [Sessions -> Seq(Messages)] :
                 /\ Enqueue(q)
                 /\ \A s \in Sessions : \A m \in Range(q[s]) : screenSender[s] # Nil /\ m = RemoveOf(screenSender[s])
                 /\ \A s \in inCall \ {us} : screenSender[s] # Nil => RemoveOf(screenSender[s]) \in Range(q[s])
            /\ outScreen' = [outScreen EXCEPT ![us] = 0]
            /\ outAudio' = [outAudio EXCEPT ![us] = Nil]
            /\ screenSender' = [s \in Sessions |-> IF s \in inCall \ {us} THEN Nil ELSE screenSender[s]]
<1>1. CASE screenSession # us
  BY <1>1 DEF clearScreenState
<1>2. CASE screenSession = us
  <2> DEFINE q == [s \in Sessions |->
                     IF s \in inCall \ {us} /\ screenSender[s] # Nil
                     THEN <<RemoveOf(screenSender[s])>> ELSE <<>>]
  <2>1. /\ Enqueue(q)
        /\ outScreen' = [outScreen EXCEPT ![us] = 0]
        /\ outAudio' = [outAudio EXCEPT ![us] = Nil]
        /\ screenSender' = [s \in Sessions |-> IF s \in inCall \ {us} THEN Nil ELSE screenSender[s]]
    BY <1>2, Zenon DEF clearScreenState
  <2>2. \A s \in Sessions : screenSender[s] # Nil => RemoveOf(screenSender[s]) \in Messages
    BY MessageParts DEF TrackTypes
  <2>3. q \in [Sessions -> Seq(Messages)]
    BY <2>2
  <2>4. \A s \in Sessions : q[s] = <<>> \/ (screenSender[s] # Nil /\ q[s] = <<RemoveOf(screenSender[s])>>)
    OBVIOUS
  <2>5. \A s \in inCall \ {us} : screenSender[s] # Nil => q[s] = <<RemoveOf(screenSender[s])>>
    BY DEF TrackTypes
  <2> HIDE DEF q
  <2>6. \A s \in Sessions : \A m \in Range(q[s]) : screenSender[s] # Nil /\ m = RemoveOf(screenSender[s])
    BY <2>4, NoneHeld, OneHeld
  <2>7. \A s \in inCall \ {us} : screenSender[s] # Nil => RemoveOf(screenSender[s]) \in Range(q[s])
    BY <2>5, OneHeld
  <2> QED BY <1>2, <2>1, <2>3, <2>6, <2>7, Zenon
<1> QED BY <1>1, <1>2

\* OnTrack makes tracks of the session they arrive at.
LEMMA Classified ==
  ASSUME NEW s \in Sessions, NEW kind \in {"voice", "audio", "screen"}, share[s] \in Nat
  PROVE  \A t \in classify(s, kind) : t \in Tracks /\ t.of = s
<1> DEFINE n == share[s]
<1>1. \A t \in classify(s, kind) : t \in {Voice(s), Audio(s, n), Misheard(s, n), Screen(s, n, 1)}
  BY Zenon DEF classify
<1> HIDE DEF n
<1>2. n \in Nat
  BY DEF n
<1> QED BY <1>1, <1>2, NewTracks

\* TrackTypes is inductive.
LEMMA TypesKept ==
  ASSUME TrackTypes, [Next]_vars
  PROVE  TrackTypes'
<1>1. CASE UNCHANGED vars
  BY <1>1 DEF vars, TrackTypes, call, outgoing, receiving, client, history
<1>2. ASSUME NEW s \in Sessions, Join(s) PROVE TrackTypes'
  BY <1>2 DEF Join, TrackTypes, call, outgoing, receiving, client, history
<1>3. ASSUME NEW s \in Sessions, CloseDetach(s) PROVE TrackTypes'
  <2>1. PICK q \in [Sessions -> Seq(Messages)] : Enqueue(q)
    BY <1>3, SentByClose
  <2>2. tracksCh' \in [Sessions -> Seq(Messages)]
    BY <2>1, Enqueues DEF TrackTypes
  <2>3. \A r \in Sessions : sendersWithout(r, s) \subseteq Tracks
    BY DEF sendersWithout, TrackTypes
  <2>4. senders' \in [Sessions -> SUBSET Tracks]
    BY <1>3, <2>3 DEF CloseDetach, TrackTypes
  <2>5. screenSender' \in [Sessions -> Screens \cup {Nil}]
    BY <1>3 DEF CloseDetach, TrackTypes
  <2> QED BY <1>3, <2>2, <2>4, <2>5 DEF CloseDetach, TrackTypes, outgoing
<1>4. ASSUME NEW s \in Sessions, CloseSignal(s) PROVE TrackTypes'
  BY <1>4 DEF CloseSignal, TrackTypes, call, outgoing, receiving, client, history
<1>5. ASSUME NEW s \in Sessions, NEW kind \in {"voice", "audio", "screen"}, OnTrack(s, kind) PROVE TrackTypes'
  <2>1. classify(s, kind) \in SUBSET Tracks
    BY Classified DEF TrackTypes
  <2>2. inFlight' \subseteq Arrivals
    BY <1>5, <2>1 DEF OnTrack, TrackTypes, Arrivals
  <2> QED BY <1>5, <2>2 DEF OnTrack, TrackTypes, call, outgoing, receiving
<1>6. ASSUME NEW s \in Sessions, StartShare(s) PROVE TrackTypes'
  BY <1>6 DEF StartShare, TrackTypes, call, outgoing, receiving, client, history
<1>7. ASSUME NEW s \in Sessions, ScreenOnLookup(s) PROVE TrackTypes'
  BY <1>7 DEF ScreenOnLookup, TrackTypes, call, outgoing, receiving, client, history
<1>8. ASSUME NEW s \in Sessions, ScreenOn(s) PROVE TrackTypes'
  BY <1>8 DEF ScreenOn, TrackTypes, call, outgoing, receiving, client, history
<1>9. ASSUME NEW s \in Sessions, ScreenOffLookup(s) PROVE TrackTypes'
  BY <1>9 DEF ScreenOffLookup, TrackTypes, call, outgoing, receiving, client, history
<1>10. ASSUME NEW s \in Sessions, ScreenOff(s) PROVE TrackTypes'
  <2>1. TrackTypes /\ clearScreenState(s)
    BY <1>10 DEF ScreenOff
  <2>2. /\ tracksCh' \in [Sessions -> Seq(Messages)] /\ outScreen' \in [Sessions -> Nat]
        /\ outAudio' \in [Sessions -> Tracks \cup {Nil}]
        /\ screenSender' \in [Sessions -> Screens \cup {Nil}]
    <3>1. CASE UNCHANGED <<outAudio, outScreen, screenSender, tracksCh, marred>>
      BY <3>1 DEF TrackTypes
    <3>2. ASSUME NEW q \in [Sessions -> Seq(Messages)], Enqueue(q)
          PROVE  tracksCh' \in [Sessions -> Seq(Messages)]
      BY <3>2, Enqueues DEF TrackTypes
    <3>3. CASE /\ outScreen' = [outScreen EXCEPT ![s] = 0]
               /\ outAudio' = [outAudio EXCEPT ![s] = Nil]
               /\ screenSender' = [r \in Sessions |-> IF r \in inCall \ {s} THEN Nil ELSE screenSender[r]]
               /\ \E q \in [Sessions -> Seq(Messages)] : Enqueue(q)
      BY <3>2, <3>3 DEF TrackTypes
    <3> QED BY <2>1, <3>1, <3>3, SentByOff
  <2> QED BY <1>10, <2>2 DEF ScreenOff, TrackTypes
<1>11. ASSUME NEW s \in Sessions, AddRefused(s) PROVE TrackTypes'
  <2>1. tracksCh[s] # <<>> /\ took(s)
    BY <1>11 DEF AddRefused, next
  <2>2. tracksCh' \in [Sessions -> Seq(Messages)] /\ Head(tracksCh[s]) \in Messages
    BY <2>1, HeadTaken
  <2> QED BY <1>11, <2>2 DEF AddRefused, TrackTypes, call, outgoing, receiving, client
<1>12. ASSUME NEW s \in Sessions, AddTrack(s) PROVE TrackTypes'
  <2>1. tracksCh[s] # <<>> /\ took(s)
    BY <1>12 DEF AddTrack, next
  <2>2. tracksCh' \in [Sessions -> Seq(Messages)] /\ Head(tracksCh[s]) \in Messages
    BY <2>1, HeadTaken
  <2>3. /\ Head(tracksCh[s]).track \in Tracks
        /\ AddOf(Head(tracksCh[s]).track) \in Messages
    BY <1>12, <2>2, MessageKinds DEF AddTrack, next
  <2>4. senders' \in [Sessions -> SUBSET Tracks] /\ screenSender' \in [Sessions -> Screens \cup {Nil}]
    BY <1>12, <2>3 DEF AddTrack, TrackTypes
  <2>5. negotiating' \in [Sessions -> Messages \cup {Idle}]
    BY <1>12, <2>3 DEF AddTrack, TrackTypes
  <2> QED BY <1>12, <2>2, <2>4, <2>5 DEF AddTrack, TrackTypes, call, outgoing, client
<1>13. ASSUME NEW s \in Sessions, RemoveTrack(s) PROVE TrackTypes'
  <2>1. tracksCh[s] # <<>> /\ took(s)
    BY <1>13 DEF RemoveTrack, next
  <2>2. tracksCh' \in [Sessions -> Seq(Messages)] /\ Head(tracksCh[s]) \in Messages
    BY <2>1, HeadTaken
  <2>3. /\ Head(tracksCh[s]).track \in Tracks
        /\ RemoveOf(Head(tracksCh[s]).track) \in Messages
    BY <1>13, <2>2, MessageKinds DEF RemoveTrack, next
  <2>4. senders' \in [Sessions -> SUBSET Tracks] /\ screenSender' \in [Sessions -> Screens \cup {Nil}]
    BY <1>13, <2>3 DEF RemoveTrack, TrackTypes
  <2>5. negotiating' \in [Sessions -> Messages \cup {Idle}]
    BY <1>13, <2>3 DEF RemoveTrack, TrackTypes
  <2> QED BY <1>13, <2>2, <2>4, <2>5 DEF RemoveTrack, TrackTypes, call, outgoing, client
<1>14. ASSUME NEW s \in Sessions, TakeFails(s) PROVE TrackTypes'
  <2>1. tracksCh[s] # <<>> /\ took(s)
    BY <1>14 DEF TakeFails, next
  <2>2. tracksCh' \in [Sessions -> Seq(Messages)] /\ Head(tracksCh[s]) \in Messages
    BY <2>1, HeadTaken
  <2> QED BY <1>14, <2>2 DEF TakeFails, TrackTypes, call, outgoing, receiving, client
<1>15. ASSUME NEW s \in Sessions, Answered(s) PROVE TrackTypes'
  <2>1. screenSender' \in [Sessions -> Screens \cup {Nil}]
    <3>1. negotiating[s] \in Messages
      BY <1>15 DEF Answered, TrackTypes
    <3>2. negotiating[s].track \in Tracks
      BY <3>1, MessageKinds
    <3>3. isVideo(negotiating[s].track) => negotiating[s].track \in Screens
      BY <3>2 DEF Screens
    <3> QED BY <1>15, <3>3 DEF Answered, TrackTypes
  <2> QED BY <1>15, <2>1 DEF Answered, TrackTypes, call, outgoing, client
<1>16. ASSUME NEW s \in Sessions, NegotiationFails(s) PROVE TrackTypes'
  <2>1. senders' \in [Sessions -> SUBSET Tracks]
    BY <1>16 DEF NegotiationFails, TrackTypes
  <2> QED BY <1>16, <2>1 DEF NegotiationFails, TrackTypes, call, outgoing, client
<1>17. ASSUME NEW s \in Sessions, NegotiationClosed(s) PROVE TrackTypes'
  BY <1>17 DEF NegotiationClosed, TrackTypes, call, outgoing, receiving, client, history
<1>18. ASSUME NEW s \in Sessions, StartTracks(s) PROVE TrackTypes'
  <2>1. PICK q \in [Sessions -> Seq(Messages)] : Enqueue(q)
    BY <1>18, SentByStart
  <2>2. tracksCh' \in [Sessions -> Seq(Messages)]
    BY <2>1, Enqueues DEF TrackTypes
  <2>3. /\ stage' = [stage EXCEPT ![s] = "tracking"]
        /\ UNCHANGED <<inCall, outgoing, receiving, inFlight, client>>
    BY <1>18 DEF StartTracks
  <2> QED BY <2>2, <2>3 DEF TrackTypes, outgoing, receiving, client
<1>19. ASSUME NEW s \in Sessions, TracksEnd(s) PROVE TrackTypes'
  BY <1>19 DEF TracksEnd, TrackTypes, call, outgoing, receiving, client, history
<1>20. ASSUME NEW t \in Tracks, SetTrack(t) PROVE TrackTypes'
  <2>1. t.of \in Sessions /\ t.share \in Nat /\ [track |-> t, step |-> "announce"] \in Arrivals
    BY DEF Tracks, Arrivals
  <2>2. /\ outVoice' \in [Sessions -> Tracks \cup {Nil}] /\ outAudio' \in [Sessions -> Tracks \cup {Nil}]
        /\ outScreen' \in [Sessions -> Nat] /\ inFlight' \subseteq Arrivals
    BY <1>20, <2>1 DEF SetTrack, TrackTypes
  <2> QED BY <1>20, <2>2 DEF SetTrack, TrackTypes, call, receiving, client
<1>21. ASSUME NEW t \in Tracks, Announce(t) PROVE TrackTypes'
  <2>1. PICK q \in [Sessions -> Seq(Messages)] : Enqueue(q)
    BY <1>21, SentByAnnounce
  <2>2. tracksCh' \in [Sessions -> Seq(Messages)]
    BY <2>1, Enqueues DEF TrackTypes
  <2>3. inFlight' \subseteq inFlight /\ UNCHANGED <<call, outgoing, receiving, client>>
    BY <1>21 DEF Announce
  <2> QED BY <2>2, <2>3 DEF TrackTypes, call, outgoing, receiving, client
<1>22. \A t \in {h.track : h \in inFlight} : t \in Tracks
  BY DEF TrackTypes, Arrivals
<1> QED BY <1>1, <1>2, <1>3, <1>4, <1>5, <1>6, <1>7, <1>8, <1>9, <1>10, <1>11, <1>12, <1>13,
           <1>14, <1>15, <1>16, <1>17, <1>18, <1>19, <1>20, <1>21, <1>22 DEF Next, SessionStep

\* So is ShareTypes.
LEMMA ShareTypesKept ==
  ASSUME TrackTypes, ShareTypes, [Next]_vars
  PROVE  ShareTypes'
<1>1. CASE UNCHANGED vars
  BY <1>1 DEF vars, ShareTypes, call, outgoing, client
<1>2. ASSUME NEW s \in Sessions, Join(s) PROVE ShareTypes'
  <2>1. UNCHANGED <<sharer, screenSession, streamID, reader>>
    BY <1>2 DEF Join, outgoing
  <2>2. coming' \in [Sessions -> SUBSET {"voice", "on", "audio", "screen"}]
    BY <1>2 DEF Join, ShareTypes
  <2> QED BY <2>1, <2>2 DEF ShareTypes
<1>3. ASSUME NEW s \in Sessions, CloseDetach(s) PROVE ShareTypes'
  <2>1. UNCHANGED <<streamID, coming, reader>> /\ sharer' \in {sharer, Nil} /\ screenSession' \in {screenSession, Nil}
    BY <1>3 DEF CloseDetach, outgoing, screenWithout
  <2> QED BY <2>1 DEF ShareTypes
<1>4. ASSUME NEW s \in Sessions, CloseSignal(s) PROVE ShareTypes'
  <2>1. UNCHANGED <<sharer, screenSession, streamID, coming, reader>>
    BY <1>4 DEF CloseSignal, call, outgoing, client
  <2> QED BY <2>1 DEF ShareTypes
<1>5. ASSUME NEW s \in Sessions, NEW kind \in {"voice", "audio", "screen"}, OnTrack(s, kind) PROVE ShareTypes'
  <2>1. UNCHANGED <<sharer, screenSession, streamID, reader>>
    BY <1>5 DEF OnTrack, call, outgoing
  <2>2. coming' \in [Sessions -> SUBSET {"voice", "on", "audio", "screen"}]
    BY <1>5 DEF OnTrack, ShareTypes
  <2> QED BY <2>1, <2>2 DEF ShareTypes
<1>6. ASSUME NEW s \in Sessions, StartShare(s) PROVE ShareTypes'
  <2>1. UNCHANGED <<screenSession, streamID, reader>> /\ sharer' = s
    BY <1>6 DEF StartShare, call, outgoing
  <2>2. coming' \in [Sessions -> SUBSET {"voice", "on", "audio", "screen"}]
    BY <1>6, TracksAssumption DEF StartShare, ShareTypes
  <2> QED BY <2>1, <2>2 DEF ShareTypes
<1>7. ASSUME NEW s \in Sessions, ScreenOnLookup(s) PROVE ShareTypes'
  <2>1. UNCHANGED <<screenSession, streamID, sharer>> /\ reader' \in {onOf(s), Nil}
    BY <1>7 DEF ScreenOnLookup, call, outgoing, onOf
  <2>2. coming' \in [Sessions -> SUBSET {"voice", "on", "audio", "screen"}]
    BY <1>7 DEF ScreenOnLookup, ShareTypes
  <2> QED BY <2>1, <2>2 DEF ShareTypes, Requests, onOf
<1>8. ASSUME NEW s \in Sessions, ScreenOn(s) PROVE ShareTypes'
  <2>1. UNCHANGED <<sharer, coming>> /\ reader' = Nil /\ screenSession' \in {screenSession, s}
    BY <1>8 DEF ScreenOn, setScreenSession, client
  <2>2. streamID' \in [Sessions -> Nat]
    BY <1>8 DEF ScreenOn, ShareTypes, TrackTypes
  <2> QED BY <2>1, <2>2 DEF ShareTypes
<1>9. ASSUME NEW s \in Sessions, ScreenOffLookup(s) PROVE ShareTypes'
  <2>1. UNCHANGED <<sharer, screenSession, streamID, coming>> /\ reader' = offOf(s)
    BY <1>9 DEF ScreenOffLookup, call, outgoing, client, offOf
  <2> QED BY <2>1 DEF ShareTypes, Requests, offOf
<1>10. ASSUME NEW s \in Sessions, ScreenOff(s) PROVE ShareTypes'
  <2>1. UNCHANGED coming /\ reader' = Nil /\ sharer' \in {sharer, Nil} /\ screenSession' \in {screenSession, Nil}
    BY <1>10 DEF ScreenOff, clearScreenState
  <2>2. streamID' \in [Sessions -> Nat]
    BY <1>10 DEF ScreenOff, clearScreenState, ShareTypes
  <2> QED BY <2>1, <2>2 DEF ShareTypes
<1>11. ASSUME NEW s \in Sessions, AddRefused(s) PROVE ShareTypes'
  <2>1. UNCHANGED <<sharer, screenSession, streamID, coming, reader>>
    BY <1>11 DEF AddRefused, call, outgoing, client
  <2> QED BY <2>1 DEF ShareTypes
<1>12. ASSUME NEW s \in Sessions, AddTrack(s) PROVE ShareTypes'
  <2>1. UNCHANGED <<sharer, screenSession, streamID, coming, reader>>
    BY <1>12 DEF AddTrack, call, outgoing, client
  <2> QED BY <2>1 DEF ShareTypes
<1>13. ASSUME NEW s \in Sessions, RemoveTrack(s) PROVE ShareTypes'
  <2>1. UNCHANGED <<sharer, screenSession, streamID, coming, reader>>
    BY <1>13 DEF RemoveTrack, call, outgoing, client
  <2> QED BY <2>1 DEF ShareTypes
<1>14. ASSUME NEW s \in Sessions, TakeFails(s) PROVE ShareTypes'
  <2>1. UNCHANGED <<sharer, screenSession, streamID, coming, reader>>
    BY <1>14 DEF TakeFails, call, outgoing, client
  <2> QED BY <2>1 DEF ShareTypes
<1>15. ASSUME NEW s \in Sessions, Answered(s) PROVE ShareTypes'
  <2>1. UNCHANGED <<sharer, screenSession, streamID, coming, reader>>
    BY <1>15 DEF Answered, call, outgoing, client
  <2> QED BY <2>1 DEF ShareTypes
<1>16. ASSUME NEW s \in Sessions, NegotiationFails(s) PROVE ShareTypes'
  <2>1. UNCHANGED <<sharer, screenSession, streamID, coming, reader>>
    BY <1>16 DEF NegotiationFails, call, outgoing, client
  <2> QED BY <2>1 DEF ShareTypes
<1>17. ASSUME NEW s \in Sessions, NegotiationClosed(s) PROVE ShareTypes'
  <2>1. UNCHANGED <<sharer, screenSession, streamID, coming, reader>>
    BY <1>17 DEF NegotiationClosed, call, outgoing, client
  <2> QED BY <2>1 DEF ShareTypes
<1>18. ASSUME NEW s \in Sessions, StartTracks(s) PROVE ShareTypes'
  <2>1. UNCHANGED <<sharer, screenSession, streamID, coming, reader>>
    BY <1>18 DEF StartTracks, call, outgoing, client
  <2> QED BY <2>1 DEF ShareTypes
<1>19. ASSUME NEW s \in Sessions, TracksEnd(s) PROVE ShareTypes'
  <2>1. UNCHANGED <<sharer, screenSession, streamID, coming, reader>>
    BY <1>19 DEF TracksEnd, call, outgoing, client
  <2> QED BY <2>1 DEF ShareTypes
<1>20. ASSUME NEW t \in Tracks, SetTrack(t) PROVE ShareTypes'
  <2>1. UNCHANGED <<sharer, screenSession, streamID, coming, reader>>
    BY <1>20 DEF SetTrack, call, outgoing, client
  <2> QED BY <2>1 DEF ShareTypes
<1>21. ASSUME NEW t \in Tracks, Announce(t) PROVE ShareTypes'
  <2>1. UNCHANGED <<sharer, screenSession, streamID, coming, reader>>
    BY <1>21 DEF Announce, call, outgoing, client
  <2> QED BY <2>1 DEF ShareTypes
<1>22. \A t \in {h.track : h \in inFlight} : t \in Tracks
  BY DEF TrackTypes, Arrivals
<1> QED BY <1>1, <1>2, <1>3, <1>4, <1>5, <1>6, <1>7, <1>8, <1>9, <1>10, <1>11, <1>12, <1>13,
           <1>14, <1>15, <1>16, <1>17, <1>18, <1>19, <1>20, <1>21, <1>22 DEF Next, SessionStep

\* So is Sharing, given the types.
LEMMA SharingKept ==
  ASSUME TrackTypes, ShareTypes, OwnTracks, Sharing, [Next]_vars
  PROVE  Sharing'
<1>1. CASE UNCHANGED vars
  BY <1>1, Zenon DEF vars, Sharing, Stuck, call, outgoing, client
<1>2. ASSUME NEW s \in Sessions, Join(s) PROVE Sharing'
  <2>1. UNCHANGED <<sharer, screenSession, streamID, share, reader>>
    BY <1>2 DEF Join, outgoing
  <2>2. stage[s] = "out" /\ inCall' = inCall \cup {s} /\ s \notin inCall
    BY <1>2 DEF Join, OwnTracks
  <2>3. \A r \in Sessions : stage'[r] = IF r = s THEN "joined" ELSE stage[r]
    BY <1>2 DEF Join, TrackTypes
  <2>4. "on" \notin coming'[s] /\ coming'[s] \subseteq {"voice"} /\ \A r \in Sessions : r # s => coming'[r] = coming[r]
    BY <1>2 DEF Join, ShareTypes
  <2>5. screenSession # s /\ sharer # s /\ reader # onOf(s) /\ reader # offOf(s)
    BY <2>2, TracksAssumption DEF Sharing, Stuck, ShareTypes
  <2>6. Stuck' <=> Stuck
    BY <2>1, <2>2, <2>5 DEF Stuck
  <2>7. Stuck => screenSession \in Sessions
    BY DEF Stuck, ShareTypes
  <2> QED BY <2>1, <2>2, <2>3, <2>4, <2>5, <2>6, <2>7, ZenonT(20) DEF Sharing
<1>3. ASSUME NEW s \in Sessions, CloseDetach(s) PROVE Sharing'
  <2>1. UNCHANGED <<stage, streamID, coming, share, reader>> /\ s \in inCall /\ inCall' = inCall \ {s}
    BY <1>3 DEF CloseDetach, outgoing
  <2>2. /\ sharer' = IF sharer = s THEN Nil ELSE sharer
        /\ screenSession' = IF screenSession = s THEN Nil ELSE screenSession
    BY <1>3 DEF CloseDetach, screenWithout
  <2>3. stage[s] # "out" /\ s # Nil
    BY <2>1, TracksAssumption DEF OwnTracks
  <2>4. Stuck' <=> Stuck
    BY <2>1, <2>2 DEF Stuck
  <2>5. Stuck => screenSession # s
    BY <2>1 DEF Stuck
  <2>6. Nil \notin inCall /\ \A r \in Sessions : r # Nil
    BY TracksAssumption DEF TrackTypes
  <2>7. (sharer' # Nil => sharer' \in inCall') /\ (screenSession' \in inCall' => screenSession' = sharer')
    BY <2>1, <2>2, <2>6 DEF Sharing
  <2>8. Stuck' => streamID'[screenSession'] # 0 /\ stage'[screenSession'] # "out"
    BY <2>1, <2>2, <2>4, <2>5 DEF Sharing
  <2> QED BY <2>1, <2>2, <2>3, <2>4, <2>6, <2>7, <2>8 DEF Sharing
<1>4. ASSUME NEW s \in Sessions, CloseSignal(s) PROVE Sharing'
  <2>1. UNCHANGED <<sharer, inCall, screenSession, streamID, stage, coming, share, reader>>
    BY <1>4 DEF CloseSignal, call, outgoing, client
  <2> QED BY <2>1, Zenon DEF Sharing, Stuck
<1>5. ASSUME NEW s \in Sessions, NEW kind \in {"voice", "audio", "screen"}, OnTrack(s, kind) PROVE Sharing'
  <2>1. UNCHANGED <<sharer, inCall, screenSession, streamID, stage, share, reader>>
    BY <1>5 DEF OnTrack, call, outgoing
  <2>2. \A r \in Sessions : coming'[r] \subseteq coming[r] /\ ("on" \in coming[r] => "on" \in coming'[r])
    BY <1>5 DEF OnTrack, ShareTypes
  <2>3. Stuck' <=> Stuck
    BY <2>1 DEF Stuck
  <2> QED BY <2>1, <2>2, <2>3 DEF Sharing
<1>6. ASSUME NEW s \in Sessions, StartShare(s) PROVE Sharing'
  <2>1. UNCHANGED <<inCall, screenSession, streamID, stage, reader>> /\ s \in inCall /\ sharer = Nil /\ sharer' = s
    BY <1>6 DEF StartShare, call, outgoing
  <2>2. \A r \in Sessions : /\ r # s => share'[r] = share[r] /\ coming'[r] = coming[r]
                            /\ share[r] # 0 => share'[r] # 0
    BY <1>6 DEF StartShare, ShareTypes, TrackTypes
  <2>3. share'[s] # 0 /\ "on" \in coming'[s]
    BY <1>6 DEF StartShare, ShareTypes, TrackTypes
  <2>4. s # Nil /\ screenSession \notin inCall /\ \A r \in inCall : reader # onOf(r) /\ reader # offOf(r) /\ "on" \notin coming[r]
    BY <2>1, TracksAssumption, ZenonT(20) DEF Sharing, TrackTypes
  <2>5. Stuck' <=> Stuck
    BY <2>1 DEF Stuck
  <2> QED BY <2>1, <2>2, <2>3, <2>4, <2>5 DEF Sharing
<1>7. ASSUME NEW s \in Sessions, ScreenOnLookup(s) PROVE Sharing'
  <2>1. UNCHANGED <<sharer, inCall, screenSession, streamID, stage, share>> /\ "on" \in coming[s]
    BY <1>7 DEF ScreenOnLookup, call, outgoing
  <2>2. /\ "on" \notin coming'[s] /\ coming'[s] \subseteq coming[s]
        /\ \A r \in Sessions : r # s => coming'[r] = coming[r]
    BY <1>7 DEF ScreenOnLookup, ShareTypes
  <2>3. reader' = IF s \in inCall THEN onOf(s) ELSE Nil
    BY <1>7 DEF ScreenOnLookup, onOf
  <2>4. reader = Nil /\ \A r \in Sessions : onOf(r) # Nil /\ offOf(r) # Nil /\ onOf(s) # offOf(r) /\ (onOf(s) = onOf(r) => r = s)
    BY <1>7, TracksAssumption DEF ScreenOnLookup, onOf, offOf, Requests
  <2>5. s \in inCall => sharer = s /\ stage[s] # "out" /\ share[s] # 0
    BY <2>1 DEF Sharing, OwnTracks
  <2>6. s \notin inCall => sharer # s
    BY TracksAssumption DEF Sharing
  <2>7. Stuck' <=> Stuck
    BY <2>1 DEF Stuck
  <2> QED BY <2>1, <2>2, <2>3, <2>4, <2>5, <2>6, <2>7 DEF Sharing
<1>8. ASSUME NEW s \in Sessions, ScreenOn(s) PROVE Sharing'
  <2>1. UNCHANGED <<sharer, inCall, stage, coming, share>> /\ reader = onOf(s) /\ reader' = Nil
    BY <1>8 DEF ScreenOn, client, onOf
  <2>2. screenSession' = IF screenSession = Nil THEN s ELSE screenSession
    BY <1>8 DEF ScreenOn, setScreenSession
  <2>3. \A r \in Sessions : streamID'[r] = IF r = s THEN share[s] ELSE streamID[r]
    BY <1>8 DEF ScreenOn, ShareTypes
  <2>4. \A r \in Sessions : onOf(r) # Nil /\ offOf(r) # Nil
    BY TracksAssumption DEF onOf, offOf, Requests
  <2>5. stage[s] # "out" /\ share[s] # 0 /\ (s \in inCall => sharer = s)
    BY <2>1 DEF Sharing
  <2>6. s # Nil /\ screenSession \in Sessions \cup {Nil}
    BY TracksAssumption DEF ShareTypes
  <2>7. sharer' # Nil => sharer' \in inCall'
    BY <2>1 DEF Sharing
  <2>8. screenSession' \in inCall' => screenSession' = sharer'
    BY <2>1, <2>2, <2>5 DEF Sharing
  <2>9. Stuck' => streamID'[screenSession'] # 0 /\ stage'[screenSession'] # "out"
    BY <2>1, <2>2, <2>3, <2>5, <2>6 DEF Sharing, Stuck
  <2>10. Stuck => Stuck'
    BY <2>1, <2>2 DEF Stuck
  <2>11. \A r \in Sessions : sharer = r /\ "on" \notin coming[r] => screenSession' = r \/ Stuck'
    <3> SUFFICES ASSUME NEW r \in Sessions, sharer = r, "on" \notin coming[r] PROVE screenSession' = r \/ Stuck'
      OBVIOUS
    <3>1. CASE r = s
      BY <2>1, <2>2, <2>5, <2>6, <3>1 DEF Sharing, Stuck
    <3>2. CASE r # s
      <4>1. reader # onOf(r)
        BY <2>1, <3>2 DEF onOf
      <4>2. screenSession = r \/ Stuck
        BY <4>1 DEF Sharing
      <4>3. r # Nil
        BY TracksAssumption
      <4> QED BY <2>2, <2>10, <4>2, <4>3
    <3> QED BY <3>1, <3>2
  <2>12. \A r \in Sessions : /\ coming[r] \cap {"on", "audio", "screen"} # {} => share[r] # 0
                             /\ "on" \in coming[r] /\ r \in inCall => sharer = r
    BY DEF Sharing
  <2> QED BY <2>1, <2>4, <2>7, <2>8, <2>9, <2>11, <2>12 DEF Sharing
<1>9. ASSUME NEW s \in Sessions, ScreenOffLookup(s) PROVE Sharing'
  <2>1. UNCHANGED <<sharer, inCall, screenSession, streamID, stage, coming, share>>
    BY <1>9 DEF ScreenOffLookup, call, outgoing, client
  <2>2. reader = Nil /\ reader' = offOf(s) /\ sharer = s /\ "on" \notin coming[s]
    BY <1>9 DEF ScreenOffLookup, offOf
  <2>3. s \in inCall /\ stage[s] # "out"
    BY <2>2, TracksAssumption DEF Sharing, OwnTracks
  <2>4. \A r \in Sessions : onOf(r) # Nil /\ offOf(s) # onOf(r) /\ (offOf(s) = offOf(r) => r = s)
    BY TracksAssumption DEF onOf, offOf, Requests
  <2>5. Stuck' <=> Stuck
    BY <2>1 DEF Stuck
  <2> QED BY <2>1, <2>2, <2>3, <2>4, <2>5 DEF Sharing
<1>10. ASSUME NEW s \in Sessions, ScreenOff(s) PROVE Sharing'
  <2>1. UNCHANGED <<inCall, stage, coming, share>> /\ reader = offOf(s) /\ reader' = Nil
    BY <1>10 DEF ScreenOff, offOf
  <2>2. sharer' = IF sharer = s THEN Nil ELSE sharer
    BY <1>10 DEF ScreenOff
  <2>3. screenSession' = IF screenSession = s THEN Nil ELSE screenSession
    BY <1>10 DEF ScreenOff, clearScreenState
  <2>4. \A r \in Sessions : r # s \/ screenSession # s => streamID'[r] = streamID[r]
    BY <1>10 DEF ScreenOff, clearScreenState, ShareTypes
  <2>5. \A r \in Sessions : onOf(r) # Nil /\ offOf(r) # Nil /\ onOf(r) # offOf(s) /\ r # Nil
    BY TracksAssumption DEF onOf, offOf, Requests
  <2>6. s \in inCall => sharer = s
    BY <2>1 DEF Sharing
  <2>7. s \notin inCall => screenSession # s
    BY <2>1 DEF Sharing
  <2>8. screenSession \in Sessions \cup {Nil}
    BY DEF ShareTypes
  <2>9. Stuck' <=> Stuck
    BY <2>1, <2>3, <2>7, TracksAssumption DEF Stuck
  <2>10. \A r \in Sessions : /\ coming[r] \cap {"on", "audio", "screen"} # {} => share[r] # 0
                             /\ "on" \in coming[r] /\ r \in inCall => sharer' = r
    BY <2>1, <2>2 DEF Sharing
  <2>11. \A r \in Sessions : sharer' = r /\ "on" \notin coming[r] => screenSession' = r \/ Stuck'
    BY <2>1, <2>2, <2>3, <2>5, <2>9 DEF Sharing
  <2>12. (sharer' # Nil => sharer' \in inCall) /\ (screenSession' \in inCall => screenSession' = sharer')
    BY <2>2, <2>3, <2>6, <2>7, TracksAssumption DEF Sharing, TrackTypes
  <2>13. Stuck' => streamID'[screenSession'] # 0 /\ stage[screenSession'] # "out"
    BY <2>3, <2>4, <2>8, <2>9 DEF Sharing, Stuck
  <2> QED BY <2>1, <2>5, <2>10, <2>11, <2>12, <2>13 DEF Sharing
<1>11. ASSUME NEW s \in Sessions, AddRefused(s) PROVE Sharing'
  <2>1. UNCHANGED <<sharer, inCall, screenSession, streamID, stage, coming, share, reader>>
    BY <1>11 DEF AddRefused, call, outgoing, client
  <2> QED BY <2>1, Zenon DEF Sharing, Stuck
<1>12. ASSUME NEW s \in Sessions, AddTrack(s) PROVE Sharing'
  <2>1. UNCHANGED <<sharer, inCall, screenSession, streamID, stage, coming, share, reader>>
    BY <1>12 DEF AddTrack, call, outgoing, client
  <2> QED BY <2>1, Zenon DEF Sharing, Stuck
<1>13. ASSUME NEW s \in Sessions, RemoveTrack(s) PROVE Sharing'
  <2>1. UNCHANGED <<sharer, inCall, screenSession, streamID, stage, coming, share, reader>>
    BY <1>13 DEF RemoveTrack, call, outgoing, client
  <2> QED BY <2>1, Zenon DEF Sharing, Stuck
<1>14. ASSUME NEW s \in Sessions, TakeFails(s) PROVE Sharing'
  <2>1. UNCHANGED <<sharer, inCall, screenSession, streamID, stage, coming, share, reader>>
    BY <1>14 DEF TakeFails, call, outgoing, client
  <2> QED BY <2>1, Zenon DEF Sharing, Stuck
<1>15. ASSUME NEW s \in Sessions, Answered(s) PROVE Sharing'
  <2>1. UNCHANGED <<sharer, inCall, screenSession, streamID, stage, coming, share, reader>>
    BY <1>15 DEF Answered, call, outgoing, client
  <2> QED BY <2>1, Zenon DEF Sharing, Stuck
<1>16. ASSUME NEW s \in Sessions, NegotiationFails(s) PROVE Sharing'
  <2>1. UNCHANGED <<sharer, inCall, screenSession, streamID, stage, coming, share, reader>>
    BY <1>16 DEF NegotiationFails, call, outgoing, client
  <2> QED BY <2>1, Zenon DEF Sharing, Stuck
<1>17. ASSUME NEW s \in Sessions, NegotiationClosed(s) PROVE Sharing'
  <2>1. UNCHANGED <<sharer, inCall, screenSession, streamID, stage, coming, share, reader>>
    BY <1>17 DEF NegotiationClosed, call, outgoing, client
  <2> QED BY <2>1, Zenon DEF Sharing, Stuck
<1>18. ASSUME NEW s \in Sessions, StartTracks(s) PROVE Sharing'
  <2>1. UNCHANGED <<sharer, inCall, screenSession, streamID, coming, share, reader>>
    BY <1>18 DEF StartTracks, outgoing, client
  <2>2. \A r \in Sessions : stage[r] # "out" => stage'[r] # "out"
    BY <1>18 DEF StartTracks, TrackTypes
  <2>3. Stuck => screenSession \in Sessions
    BY DEF Stuck, ShareTypes
  <2> QED BY <2>1, <2>2, <2>3 DEF Sharing, Stuck
<1>19. ASSUME NEW s \in Sessions, TracksEnd(s) PROVE Sharing'
  <2>1. UNCHANGED <<sharer, inCall, screenSession, streamID, coming, share, reader>>
    BY <1>19 DEF TracksEnd, outgoing, client
  <2>2. \A r \in Sessions : stage[r] # "out" => stage'[r] # "out"
    BY <1>19 DEF TracksEnd, TrackTypes
  <2>3. Stuck => screenSession \in Sessions
    BY DEF Stuck, ShareTypes
  <2> QED BY <2>1, <2>2, <2>3 DEF Sharing, Stuck
<1>20. ASSUME NEW t \in Tracks, SetTrack(t) PROVE Sharing'
  <2>1. UNCHANGED <<sharer, inCall, screenSession, streamID, stage, coming, share, reader>>
    BY <1>20 DEF SetTrack, call, outgoing, client
  <2> QED BY <2>1, Zenon DEF Sharing, Stuck
<1>21. ASSUME NEW t \in Tracks, Announce(t) PROVE Sharing'
  <2>1. UNCHANGED <<sharer, inCall, screenSession, streamID, stage, coming, share, reader>>
    BY <1>21 DEF Announce, call, outgoing, client
  <2> QED BY <2>1, Zenon DEF Sharing, Stuck
<1>22. \A t \in {h.track : h \in inFlight} : t \in Tracks
  BY DEF TrackTypes, Arrivals
<1> QED BY <1>1, <1>2, <1>3, <1>4, <1>5, <1>6, <1>7, <1>8, <1>9, <1>10, <1>11, <1>12, <1>13,
           <1>14, <1>15, <1>16, <1>17, <1>18, <1>19, <1>20, <1>21, <1>22 DEF Next, SessionStep

\* So is OwnTracks.
LEMMA OwnKept ==
  ASSUME TrackTypes, OwnTracks, [Next]_vars
  PROVE  OwnTracks'
<1>1. CASE UNCHANGED vars
  BY <1>1, ZenonT(20) DEF vars, OwnTracks, call, outgoing
<1>2. ASSUME NEW s \in Sessions, Join(s) PROVE OwnTracks'
  <2>1. UNCHANGED <<outVoice, outAudio, closed, inFlight>>
    BY <1>2 DEF Join, outgoing
  <2>2. \A o \in Sessions : o # s => stage'[o] = stage[o] /\ (o \in inCall' => o \in inCall)
    BY <1>2 DEF Join, TrackTypes
  <2>3. stage[s] = "out" /\ stage'[s] = "joined"
    BY <1>2 DEF Join, TrackTypes
  <2> QED BY <2>1, <2>2, <2>3 DEF OwnTracks
<1>3. ASSUME NEW s \in Sessions, CloseDetach(s) PROVE OwnTracks'
  <2>1. UNCHANGED <<stage, outVoice, outAudio, closed, inFlight>> /\ inCall' \subseteq inCall
    BY <1>3 DEF CloseDetach, outgoing
  <2> QED BY <2>1, ZenonT(20) DEF OwnTracks
<1>4. ASSUME NEW s \in Sessions, CloseSignal(s) PROVE OwnTracks'
  <2>1. UNCHANGED <<inCall, stage, outVoice, outAudio, inFlight>>
    BY <1>4 DEF CloseSignal, outgoing
  <2>2. stage[s] # "out" /\ s \notin inCall /\ closed' = closed \cup {s}
    BY <1>4 DEF CloseSignal
  <2> QED BY <2>1, <2>2 DEF OwnTracks
<1>5. ASSUME NEW s \in Sessions, NEW kind \in {"voice", "audio", "screen"}, OnTrack(s, kind) PROVE OwnTracks'
  <2>1. UNCHANGED <<inCall, stage, outVoice, outAudio, closed>> /\ stage[s] # "out"
    BY <1>5 DEF OnTrack, outgoing, call
  <2>2. \A h \in inFlight' : h \in inFlight \/ h.track.of = s
    <3>1. \A t \in classify(s, kind) : t.of = s
      BY Classified DEF TrackTypes
    <3> QED BY <1>5, <3>1 DEF OnTrack
  <2> QED BY <2>1, <2>2 DEF OwnTracks
<1>6. ASSUME NEW s \in Sessions, StartShare(s) PROVE OwnTracks'
  <2>1. UNCHANGED <<inCall, stage, outVoice, outAudio, closed, inFlight>>
    BY <1>6 DEF StartShare, outgoing, call
  <2> QED BY <2>1, ZenonT(20) DEF OwnTracks
<1>7. ASSUME NEW s \in Sessions, ScreenOnLookup(s) PROVE OwnTracks'
  <2>1. UNCHANGED <<inCall, stage, outVoice, outAudio, closed, inFlight>>
    BY <1>7 DEF ScreenOnLookup, outgoing, call
  <2> QED BY <2>1 DEF OwnTracks
<1>8. ASSUME NEW s \in Sessions, ScreenOn(s) PROVE OwnTracks'
  <2>1. UNCHANGED <<inCall, stage, outVoice, outAudio, closed, inFlight>>
    BY <1>8 DEF ScreenOn, outgoing, call
  <2> QED BY <2>1 DEF OwnTracks
<1>9. ASSUME NEW s \in Sessions, ScreenOffLookup(s) PROVE OwnTracks'
  <2>1. UNCHANGED <<inCall, stage, outVoice, outAudio, closed, inFlight>>
    BY <1>9 DEF ScreenOffLookup, outgoing, call
  <2> QED BY <2>1 DEF OwnTracks
<1>10. ASSUME NEW s \in Sessions, ScreenOff(s) PROVE OwnTracks'
  <2>1. UNCHANGED <<inCall, stage, outVoice, closed, inFlight>> /\ clearScreenState(s)
    BY <1>10 DEF ScreenOff
  <2>2. \A o \in Sessions : outAudio'[o] \in {outAudio[o], Nil}
    BY <2>1, SentByOff, ZenonT(20) DEF TrackTypes
  <2> QED BY <2>1, <2>2 DEF OwnTracks
<1>11. ASSUME NEW s \in Sessions, AddRefused(s) PROVE OwnTracks'
  <2>1. UNCHANGED <<inCall, stage, outVoice, outAudio, closed, inFlight>>
    BY <1>11 DEF AddRefused, outgoing, call
  <2> QED BY <2>1 DEF OwnTracks
<1>12. ASSUME NEW s \in Sessions, AddTrack(s) PROVE OwnTracks'
  <2>1. UNCHANGED <<inCall, stage, outVoice, outAudio, closed, inFlight>>
    BY <1>12 DEF AddTrack, outgoing, call
  <2> QED BY <2>1 DEF OwnTracks
<1>13. ASSUME NEW s \in Sessions, RemoveTrack(s) PROVE OwnTracks'
  <2>1. UNCHANGED <<inCall, stage, outVoice, outAudio, closed, inFlight>>
    BY <1>13 DEF RemoveTrack, outgoing, call
  <2> QED BY <2>1 DEF OwnTracks
<1>14. ASSUME NEW s \in Sessions, TakeFails(s) PROVE OwnTracks'
  <2>1. UNCHANGED <<inCall, stage, outVoice, outAudio, closed, inFlight>>
    BY <1>14 DEF TakeFails, outgoing, call
  <2> QED BY <2>1 DEF OwnTracks
<1>15. ASSUME NEW s \in Sessions, Answered(s) PROVE OwnTracks'
  <2>1. UNCHANGED <<inCall, stage, outVoice, outAudio, closed, inFlight>>
    BY <1>15 DEF Answered, outgoing, call
  <2> QED BY <2>1 DEF OwnTracks
<1>16. ASSUME NEW s \in Sessions, NegotiationFails(s) PROVE OwnTracks'
  <2>1. UNCHANGED <<inCall, stage, outVoice, outAudio, closed, inFlight>>
    BY <1>16 DEF NegotiationFails, outgoing, call
  <2> QED BY <2>1 DEF OwnTracks
<1>17. ASSUME NEW s \in Sessions, NegotiationClosed(s) PROVE OwnTracks'
  <2>1. UNCHANGED <<inCall, stage, outVoice, outAudio, closed, inFlight>>
    BY <1>17 DEF NegotiationClosed, outgoing, call
  <2> QED BY <2>1 DEF OwnTracks
<1>18. ASSUME NEW s \in Sessions, StartTracks(s) PROVE OwnTracks'
  <2>1. UNCHANGED <<inCall, outVoice, outAudio, closed, inFlight>>
    BY <1>18 DEF StartTracks, outgoing
  <2>2. stage[s] # "out" /\ stage'[s] # "out" /\ \A o \in Sessions : o # s => stage'[o] = stage[o]
    BY <1>18 DEF StartTracks, TrackTypes
  <2> QED BY <2>1, <2>2 DEF OwnTracks
<1>19. ASSUME NEW s \in Sessions, TracksEnd(s) PROVE OwnTracks'
  <2>1. UNCHANGED <<inCall, outVoice, outAudio, closed, inFlight>>
    BY <1>19 DEF TracksEnd, outgoing
  <2>2. stage[s] # "out" /\ stage'[s] # "out" /\ \A o \in Sessions : o # s => stage'[o] = stage[o]
    BY <1>19 DEF TracksEnd, TrackTypes
  <2> QED BY <2>1, <2>2 DEF OwnTracks
<1>20. ASSUME NEW t \in Tracks, SetTrack(t) PROVE OwnTracks'
  <2>1. UNCHANGED <<inCall, stage, closed>>
    BY <1>20 DEF SetTrack, call
  <2>2. t.of \in Sessions /\ stage[t.of] # "out"
    BY <1>20 DEF SetTrack, OwnTracks, Tracks
  <2>3. \A h \in inFlight' : h \in inFlight \/ h.track.of = t.of
    BY <1>20 DEF SetTrack
  <2>4. \A o \in Sessions : /\ outVoice'[o] = outVoice[o] \/ (o = t.of /\ outVoice'[o] = t /\ t.kind = "voice")
                            /\ outAudio'[o] = outAudio[o] \/ (o = t.of /\ outAudio'[o] = t /\ t.kind = "audio")
    BY <1>20 DEF SetTrack, TrackTypes
  <2>5. \A o \in Sessions : outVoice'[o] # Nil => outVoice'[o].of = o /\ outVoice'[o].kind = "voice"
    <3>1. \A o \in Sessions : outVoice[o] # Nil => outVoice[o].of = o /\ outVoice[o].kind = "voice"
      BY Zenon DEF OwnTracks
    <3> TAKE o \in Sessions
    <3>2. CASE outVoice'[o] = outVoice[o]
      BY <3>1, <3>2
    <3>3. CASE o = t.of /\ outVoice'[o] = t /\ t.kind = "voice"
      BY <3>3
    <3> QED BY <2>4, <3>2, <3>3
  <2>6. \A o \in Sessions : outAudio'[o] # Nil => outAudio'[o].of = o /\ outAudio'[o].kind = "audio"
    <3>1. \A o \in Sessions : outAudio[o] # Nil => outAudio[o].of = o /\ outAudio[o].kind = "audio"
      BY Zenon DEF OwnTracks
    <3> TAKE o \in Sessions
    <3>2. CASE outAudio'[o] = outAudio[o]
      BY <3>1, <3>2
    <3>3. CASE o = t.of /\ outAudio'[o] = t /\ t.kind = "audio"
      BY <3>3
    <3> QED BY <2>4, <3>2, <3>3
  <2>7. \A o \in Sessions : stage[o] = "out" =>
          o \notin inCall /\ outVoice'[o] = Nil /\ outAudio'[o] = Nil /\ \A h \in inFlight' : h.track.of # o
    BY <2>2, <2>3, <2>4 DEF OwnTracks
  <2>8. \A o \in Sessions : o \in closed => o \notin inCall /\ stage[o] # "out"
    BY DEF OwnTracks
  <2> QED BY <2>1, <2>5, <2>6, <2>7, <2>8 DEF OwnTracks
<1>21. ASSUME NEW t \in Tracks, Announce(t) PROVE OwnTracks'
  <2>1. UNCHANGED <<inCall, stage, outVoice, outAudio, closed>> /\ inFlight' \subseteq inFlight
    BY <1>21 DEF Announce, outgoing, call
  <2> QED BY <2>1 DEF OwnTracks
<1>22. \A t \in {h.track : h \in inFlight} : t \in Tracks
  BY DEF TrackTypes, Arrivals
<1> QED BY <1>1, <1>2, <1>3, <1>4, <1>5, <1>6, <1>7, <1>8, <1>9, <1>10, <1>11, <1>12, <1>13,
           <1>14, <1>15, <1>16, <1>17, <1>18, <1>19, <1>20, <1>21, <1>22 DEF Next, SessionStep

\* So is Heard: a voice that is set is announced later, and a session that starts meanwhile
\* finds it set.
LEMMA HeardKept ==
  ASSUME TrackTypes, OwnTracks, Heard, [Next]_vars
  PROVE  Heard'
<1>1. CASE UNCHANGED vars
  BY <1>1 DEF vars, Heard, call, outgoing, receiving, history
<1>2. ASSUME NEW s \in Sessions, Join(s) PROVE Heard'
  <2> SUFFICES ASSUME NEW r \in inCall', NEW o \in inCall', r # o, stage'[r] = "tracking", r \notin marred',
                      NEW u \in {outVoice'[o], outAudio'[o]} \ {Nil}
               PROVE  \/ [track |-> u, step |-> "announce"] \in inFlight'
                      \/ u \in senders'[r]
                      \/ AddOf(u) \in Range(tracksCh'[r])
    BY Zenon DEF Heard
  <2>1. UNCHANGED <<outVoice, outAudio, inFlight, senders, tracksCh, marred>> /\ inCall' = inCall \cup {s}
    BY <1>2 DEF Join, outgoing, receiving, history
  <2>2. stage' = [stage EXCEPT ![s] = "joined"] /\ s # r /\ stage[s] = "out"
    BY <1>2 DEF Join, TrackTypes
  <2>3. s # o
    BY <2>1, <2>2 DEF OwnTracks
  <2>4. r \in inCall /\ o \in inCall /\ stage[r] = "tracking"
    BY <2>1, <2>2, <2>3 DEF TrackTypes
  <2> QED BY <2>1, <2>4 DEF Heard
<1>3. ASSUME NEW s \in Sessions, CloseDetach(s) PROVE Heard'
  <2> SUFFICES ASSUME NEW r \in inCall', NEW o \in inCall', r # o, stage'[r] = "tracking", r \notin marred',
                      NEW u \in {outVoice'[o], outAudio'[o]} \ {Nil}
               PROVE  \/ [track |-> u, step |-> "announce"] \in inFlight'
                      \/ u \in senders'[r]
                      \/ AddOf(u) \in Range(tracksCh'[r])
    BY Zenon DEF Heard
  <2>1. /\ UNCHANGED <<stage, outVoice, outAudio, inFlight>>
        /\ r \in inCall \ {s} /\ o \in inCall \ {s} /\ r \in Sessions /\ o \in Sessions
    BY <1>3 DEF CloseDetach, outgoing, TrackTypes
  <2>2. senders'[r] = sendersWithout(r, s)
    BY <1>3, <2>1 DEF CloseDetach
  <2>3. u.of = o
    BY <2>1 DEF OwnTracks
  <2>4. u \notin outTracks(s)
    <3>1. \A i \in 1..NumCPU : Screen(s, outScreen[s], i).of = s
      BY DEF Screen
    <3>2. \A v \in outTracks(s) : v.of = s
      BY <3>1 DEF outTracks, screenTracks, OwnTracks
    <3> QED BY <2>1, <2>3, <3>2
  <2>5. u \in senders[r] => u \in senders'[r]
    BY <2>2, <2>4 DEF sendersWithout
  <2>6. PICK q \in [Sessions -> Seq(Messages)] : Enqueue(q)
    BY <1>3, SentByClose
  <2>7. marred \subseteq marred' /\ Range(tracksCh[r]) \subseteq Range(tracksCh'[r])
    BY <2>1, <2>6, Enqueues DEF TrackTypes
  <2>8. r \notin marred /\ stage[r] = "tracking" /\ u \in {outVoice[o], outAudio[o]} \ {Nil}
    BY <2>1, <2>7
  <2> QED BY <2>1, <2>5, <2>7, <2>8 DEF Heard
<1>4. ASSUME NEW s \in Sessions, CloseSignal(s) PROVE Heard'
  <2> SUFFICES ASSUME NEW r \in inCall', NEW o \in inCall', r # o, stage'[r] = "tracking", r \notin marred',
                      NEW u \in {outVoice'[o], outAudio'[o]} \ {Nil}
               PROVE  \/ [track |-> u, step |-> "announce"] \in inFlight'
                      \/ u \in senders'[r]
                      \/ AddOf(u) \in Range(tracksCh'[r])
    BY Zenon DEF Heard
  <2>1. UNCHANGED <<inCall, stage, outVoice, outAudio, inFlight, senders, tracksCh, marred>>
    BY <1>4 DEF CloseSignal, call, outgoing, receiving, history
  <2> QED BY <2>1 DEF Heard
<1>5. ASSUME NEW s \in Sessions, NEW kind \in {"voice", "audio", "screen"}, OnTrack(s, kind) PROVE Heard'
  <2> SUFFICES ASSUME NEW r \in inCall', NEW o \in inCall', r # o, stage'[r] = "tracking", r \notin marred',
                      NEW u \in {outVoice'[o], outAudio'[o]} \ {Nil}
               PROVE  \/ [track |-> u, step |-> "announce"] \in inFlight'
                      \/ u \in senders'[r]
                      \/ AddOf(u) \in Range(tracksCh'[r])
    BY Zenon DEF Heard
  <2>1. /\ UNCHANGED <<inCall, stage, outVoice, outAudio, senders, tracksCh, marred>>
        /\ inFlight \subseteq inFlight'
    BY <1>5 DEF OnTrack, call, outgoing, receiving, history
  <2> QED BY <2>1 DEF Heard
<1>6. ASSUME NEW s \in Sessions, StartShare(s) PROVE Heard'
  <2> SUFFICES ASSUME NEW r \in inCall', NEW o \in inCall', r # o, stage'[r] = "tracking", r \notin marred',
                      NEW u \in {outVoice'[o], outAudio'[o]} \ {Nil}
               PROVE  \/ [track |-> u, step |-> "announce"] \in inFlight'
                      \/ u \in senders'[r]
                      \/ AddOf(u) \in Range(tracksCh'[r])
    BY Zenon DEF Heard
  <2>1. UNCHANGED <<inCall, stage, outVoice, outAudio, inFlight, senders, tracksCh, marred>>
    BY <1>6 DEF StartShare, call, outgoing, receiving, history
  <2> QED BY <2>1 DEF Heard
<1>7. ASSUME NEW s \in Sessions, ScreenOnLookup(s) PROVE Heard'
  <2> SUFFICES ASSUME NEW r \in inCall', NEW o \in inCall', r # o, stage'[r] = "tracking", r \notin marred',
                      NEW u \in {outVoice'[o], outAudio'[o]} \ {Nil}
               PROVE  \/ [track |-> u, step |-> "announce"] \in inFlight'
                      \/ u \in senders'[r]
                      \/ AddOf(u) \in Range(tracksCh'[r])
    BY Zenon DEF Heard
  <2>1. UNCHANGED <<inCall, stage, outVoice, outAudio, inFlight, senders, tracksCh, marred>>
    BY <1>7 DEF ScreenOnLookup, call, outgoing, receiving, history
  <2> QED BY <2>1 DEF Heard
<1>8. ASSUME NEW s \in Sessions, ScreenOn(s) PROVE Heard'
  <2> SUFFICES ASSUME NEW r \in inCall', NEW o \in inCall', r # o, stage'[r] = "tracking", r \notin marred',
                      NEW u \in {outVoice'[o], outAudio'[o]} \ {Nil}
               PROVE  \/ [track |-> u, step |-> "announce"] \in inFlight'
                      \/ u \in senders'[r]
                      \/ AddOf(u) \in Range(tracksCh'[r])
    BY Zenon DEF Heard
  <2>1. UNCHANGED <<inCall, stage, outVoice, outAudio, inFlight, senders, tracksCh, marred>>
    BY <1>8 DEF ScreenOn, call, outgoing, receiving, history
  <2> QED BY <2>1 DEF Heard
<1>9. ASSUME NEW s \in Sessions, ScreenOffLookup(s) PROVE Heard'
  <2> SUFFICES ASSUME NEW r \in inCall', NEW o \in inCall', r # o, stage'[r] = "tracking", r \notin marred',
                      NEW u \in {outVoice'[o], outAudio'[o]} \ {Nil}
               PROVE  \/ [track |-> u, step |-> "announce"] \in inFlight'
                      \/ u \in senders'[r]
                      \/ AddOf(u) \in Range(tracksCh'[r])
    BY Zenon DEF Heard
  <2>1. UNCHANGED <<inCall, stage, outVoice, outAudio, inFlight, senders, tracksCh, marred>>
    BY <1>9 DEF ScreenOffLookup, call, outgoing, receiving, history
  <2> QED BY <2>1 DEF Heard
<1>10. ASSUME NEW s \in Sessions, ScreenOff(s) PROVE Heard'
  <2> SUFFICES ASSUME NEW r \in inCall', NEW o \in inCall', r # o, stage'[r] = "tracking", r \notin marred',
                      NEW u \in {outVoice'[o], outAudio'[o]} \ {Nil}
               PROVE  \/ [track |-> u, step |-> "announce"] \in inFlight'
                      \/ u \in senders'[r]
                      \/ AddOf(u) \in Range(tracksCh'[r])
    BY Zenon DEF Heard
  <2>1. UNCHANGED <<inCall, stage, outVoice, senders, inFlight>> /\ clearScreenState(s)
    BY <1>10 DEF ScreenOff
  <2>2. r \in Sessions /\ o \in Sessions
    BY <2>1 DEF TrackTypes
  <2>3. outAudio'[o] \in {outAudio[o], Nil}
    BY <2>1, <2>2 DEF clearScreenState, TrackTypes
  <2>4. marred \subseteq marred' /\ Range(tracksCh[r]) \subseteq Range(tracksCh'[r])
    <3>1. ASSUME NEW q \in [Sessions -> Seq(Messages)], Enqueue(q)
          PROVE  marred \subseteq marred' /\ Range(tracksCh[r]) \subseteq Range(tracksCh'[r])
      BY <2>2, <3>1, Enqueues DEF TrackTypes
    <3>2. (\E q \in [Sessions -> Seq(Messages)] : Enqueue(q)) \/ UNCHANGED <<tracksCh, marred>>
      BY <2>1, SentByOff
    <3> QED BY <3>1, <3>2
  <2>5. r \notin marred /\ u \in {outVoice[o], outAudio[o]} \ {Nil}
    BY <2>1, <2>3, <2>4
  <2> QED BY <2>1, <2>4, <2>5 DEF Heard
<1>11. ASSUME NEW s \in Sessions, AddRefused(s) PROVE Heard'
  <2> SUFFICES ASSUME NEW r \in inCall', NEW o \in inCall', r # o, stage'[r] = "tracking", r \notin marred',
                      NEW u \in {outVoice'[o], outAudio'[o]} \ {Nil}
               PROVE  \/ [track |-> u, step |-> "announce"] \in inFlight'
                      \/ u \in senders'[r]
                      \/ AddOf(u) \in Range(tracksCh'[r])
    BY Zenon DEF Heard
  <2>1. UNCHANGED <<inCall, stage, outVoice, outAudio, inFlight, marred>>
    BY <1>11 DEF AddRefused, call, outgoing, history
  <2>2. r \in Sessions /\ o \in Sessions
    BY <2>1 DEF TrackTypes
  <2>3. \/ [track |-> u, step |-> "announce"] \in inFlight
        \/ u \in senders[r]
        \/ AddOf(u) \in Range(tracksCh[r])
    BY <2>1 DEF Heard
  <2>4. ~isVideo(u)
    BY <2>1, <2>2 DEF OwnTracks, isVideo
  <2>5. tracksCh[s] # <<>> /\ took(s)
    BY <1>11 DEF AddRefused, next
  <2>6. u \in senders'[r] \/ (u \notin senders[r] /\ (AddOf(u) \in Range(tracksCh[r]) => AddOf(u) \in Range(tracksCh'[r])))
    <3>1. senders'[r] = senders[r]
      BY <1>11 DEF AddRefused, receiving
    <3>2. r = s /\ AddOf(u) = Head(tracksCh[s]) => u \in senders[r]
      BY <1>11, <2>4, MessageParts, SMTT(30) DEF AddRefused, refuses
    <3>3. r # s => tracksCh'[r] = tracksCh[r]
      BY <2>2, <2>5, HeadTaken
    <3>4. Range(tracksCh[s]) \subseteq {Head(tracksCh[s])} \cup Range(tracksCh'[s])
      BY <2>5, HeadTaken
    <3> QED BY <3>1, <3>2, <3>3, <3>4
  <2> QED BY <2>1, <2>3, <2>6
<1>12. ASSUME NEW s \in Sessions, AddTrack(s) PROVE Heard'
  <2> SUFFICES ASSUME NEW r \in inCall', NEW o \in inCall', r # o, stage'[r] = "tracking", r \notin marred',
                      NEW u \in {outVoice'[o], outAudio'[o]} \ {Nil}
               PROVE  \/ [track |-> u, step |-> "announce"] \in inFlight'
                      \/ u \in senders'[r]
                      \/ AddOf(u) \in Range(tracksCh'[r])
    BY Zenon DEF Heard
  <2>1. UNCHANGED <<inCall, stage, outVoice, outAudio, inFlight, marred>>
    BY <1>12 DEF AddTrack, call, outgoing, history
  <2>2. r \in Sessions /\ o \in Sessions
    BY <2>1 DEF TrackTypes
  <2>3. \/ [track |-> u, step |-> "announce"] \in inFlight
        \/ u \in senders[r]
        \/ AddOf(u) \in Range(tracksCh[r])
    BY <2>1 DEF Heard
  <2>4. ~isVideo(u)
    BY <2>1, <2>2 DEF OwnTracks, isVideo
  <2>5. tracksCh[s] # <<>> /\ took(s)
    BY <1>12 DEF AddTrack, next
  <2>6. u \in senders'[r] \/ (u \notin senders[r] /\ (AddOf(u) \in Range(tracksCh[r]) => AddOf(u) \in Range(tracksCh'[r])))
    <3>1. senders[r] \subseteq senders'[r]
      BY <1>12, <2>2 DEF AddTrack, TrackTypes
    <3>2. r = s /\ AddOf(u) = Head(tracksCh[s]) => u \in senders'[r]
      BY <1>12, MessageParts, ZenonT(20) DEF AddTrack, TrackTypes
    <3>3. r # s => tracksCh'[r] = tracksCh[r]
      BY <2>2, <2>5, HeadTaken
    <3>4. Range(tracksCh[s]) \subseteq {Head(tracksCh[s])} \cup Range(tracksCh'[s])
      BY <2>5, HeadTaken
    <3> QED BY <3>1, <3>2, <3>3, <3>4
  <2> QED BY <2>1, <2>3, <2>6
<1>13. ASSUME NEW s \in Sessions, RemoveTrack(s) PROVE Heard'
  <2> SUFFICES ASSUME NEW r \in inCall', NEW o \in inCall', r # o, stage'[r] = "tracking", r \notin marred',
                      NEW u \in {outVoice'[o], outAudio'[o]} \ {Nil}
               PROVE  \/ [track |-> u, step |-> "announce"] \in inFlight'
                      \/ u \in senders'[r]
                      \/ AddOf(u) \in Range(tracksCh'[r])
    BY Zenon DEF Heard
  <2>1. UNCHANGED <<inCall, stage, outVoice, outAudio, inFlight, marred>>
    BY <1>13 DEF RemoveTrack, call, outgoing, history
  <2>2. r \in Sessions /\ o \in Sessions
    BY <2>1 DEF TrackTypes
  <2>3. \/ [track |-> u, step |-> "announce"] \in inFlight
        \/ u \in senders[r]
        \/ AddOf(u) \in Range(tracksCh[r])
    BY <2>1 DEF Heard
  <2>4. ~isVideo(u)
    BY <2>1, <2>2 DEF OwnTracks, isVideo
  <2>5. tracksCh[s] # <<>> /\ took(s)
    BY <1>13 DEF RemoveTrack, next
  <2>6. u \in senders'[r] \/ (u \notin senders[r] /\ (AddOf(u) \in Range(tracksCh[r]) => AddOf(u) \in Range(tracksCh'[r])))
    <3>1. u \in senders[r] => u \in senders'[r]
      <4>1. Head(tracksCh[s]) \in Messages /\ Head(tracksCh[s]).action = "remove"
        BY <1>13, <2>5, HeadTaken DEF RemoveTrack, next
      <4>2. isVideo(Head(tracksCh[s]).track)
        BY <4>1, MessageKinds DEF Screens
      <4>3. u # Head(tracksCh[s]).track
        BY <2>4, <4>2
      <4>4. senders' = [senders EXCEPT ![s] = @ \ {Head(tracksCh[s]).track}]
        BY <1>13 DEF RemoveTrack
      <4> QED BY <2>2, <4>3, <4>4 DEF TrackTypes
    <3>2. ~(r = s /\ AddOf(u) = Head(tracksCh[s]))
      BY <1>13, MessageParts DEF RemoveTrack, next
    <3>3. r # s => tracksCh'[r] = tracksCh[r]
      BY <2>2, <2>5, HeadTaken
    <3>4. Range(tracksCh[s]) \subseteq {Head(tracksCh[s])} \cup Range(tracksCh'[s])
      BY <2>5, HeadTaken
    <3> QED BY <3>1, <3>2, <3>3, <3>4
  <2> QED BY <2>1, <2>3, <2>6
<1>14. ASSUME NEW s \in Sessions, TakeFails(s) PROVE Heard'
  <2> SUFFICES ASSUME NEW r \in inCall', NEW o \in inCall', r # o, stage'[r] = "tracking", r \notin marred',
                      NEW u \in {outVoice'[o], outAudio'[o]} \ {Nil}
               PROVE  \/ [track |-> u, step |-> "announce"] \in inFlight'
                      \/ u \in senders'[r]
                      \/ AddOf(u) \in Range(tracksCh'[r])
    BY Zenon DEF Heard
  <2>1. UNCHANGED <<inCall, stage, outVoice, outAudio, inFlight, marred>>
    BY <1>14 DEF TakeFails, call, outgoing, history
  <2>2. r \in Sessions /\ o \in Sessions
    BY <2>1 DEF TrackTypes
  <2>3. \/ [track |-> u, step |-> "announce"] \in inFlight
        \/ u \in senders[r]
        \/ AddOf(u) \in Range(tracksCh[r])
    BY <2>1 DEF Heard
  <2>4. ~isVideo(u)
    BY <2>1, <2>2 DEF OwnTracks, isVideo
  <2>5. tracksCh[s] # <<>> /\ took(s)
    BY <1>14 DEF TakeFails, next
  <2>6. u \in senders'[r] \/ (u \notin senders[r] /\ (AddOf(u) \in Range(tracksCh[r]) => AddOf(u) \in Range(tracksCh'[r])))
    <3>1. senders'[r] = senders[r]
      BY <1>14 DEF TakeFails, receiving
    <3>2. ~(r = s /\ AddOf(u) = Head(tracksCh[s]))
      <4>1. r \notin closed
        BY <2>1, <2>2 DEF OwnTracks
      <4> QED BY <1>14, <4>1, MessageParts DEF TakeFails, next
    <3>3. r # s => tracksCh'[r] = tracksCh[r]
      BY <2>2, <2>5, HeadTaken
    <3>4. Range(tracksCh[s]) \subseteq {Head(tracksCh[s])} \cup Range(tracksCh'[s])
      BY <2>5, HeadTaken
    <3> QED BY <3>1, <3>2, <3>3, <3>4
  <2> QED BY <2>1, <2>3, <2>6
<1>15. ASSUME NEW s \in Sessions, Answered(s) PROVE Heard'
  <2> SUFFICES ASSUME NEW r \in inCall', NEW o \in inCall', r # o, stage'[r] = "tracking", r \notin marred',
                      NEW u \in {outVoice'[o], outAudio'[o]} \ {Nil}
               PROVE  \/ [track |-> u, step |-> "announce"] \in inFlight'
                      \/ u \in senders'[r]
                      \/ AddOf(u) \in Range(tracksCh'[r])
    BY Zenon DEF Heard
  <2>1. UNCHANGED <<inCall, stage, outVoice, outAudio, inFlight, senders, tracksCh, marred>>
    BY <1>15 DEF Answered, call, outgoing, receiving, history
  <2> QED BY <2>1 DEF Heard
<1>16. ASSUME NEW s \in Sessions, NegotiationFails(s) PROVE Heard'
  <2> SUFFICES ASSUME NEW r \in inCall', NEW o \in inCall', r # o, stage'[r] = "tracking", r \notin marred',
                      NEW u \in {outVoice'[o], outAudio'[o]} \ {Nil}
               PROVE  \/ [track |-> u, step |-> "announce"] \in inFlight'
                      \/ u \in senders'[r]
                      \/ AddOf(u) \in Range(tracksCh'[r])
    BY Zenon DEF Heard
  <2>1. UNCHANGED <<inCall, stage, outVoice, outAudio, inFlight, tracksCh>> /\ marred' = marred \cup {s}
    BY <1>16 DEF NegotiationFails, call, outgoing
  <2>2. senders'[r] = senders[r]
    BY <1>16, <2>1 DEF NegotiationFails, TrackTypes
  <2> QED BY <2>1, <2>2 DEF Heard
<1>17. ASSUME NEW s \in Sessions, NegotiationClosed(s) PROVE Heard'
  <2> SUFFICES ASSUME NEW r \in inCall', NEW o \in inCall', r # o, stage'[r] = "tracking", r \notin marred',
                      NEW u \in {outVoice'[o], outAudio'[o]} \ {Nil}
               PROVE  \/ [track |-> u, step |-> "announce"] \in inFlight'
                      \/ u \in senders'[r]
                      \/ AddOf(u) \in Range(tracksCh'[r])
    BY Zenon DEF Heard
  <2>1. UNCHANGED <<inCall, stage, outVoice, outAudio, inFlight, senders, tracksCh, marred>>
    BY <1>17 DEF NegotiationClosed, call, outgoing, receiving, history
  <2> QED BY <2>1 DEF Heard
<1>18. ASSUME NEW s \in Sessions, StartTracks(s) PROVE Heard'
  <2> SUFFICES ASSUME NEW r \in inCall', NEW o \in inCall', r # o, stage'[r] = "tracking", r \notin marred',
                      NEW u \in {outVoice'[o], outAudio'[o]} \ {Nil}
               PROVE  \/ [track |-> u, step |-> "announce"] \in inFlight'
                      \/ u \in senders'[r]
                      \/ AddOf(u) \in Range(tracksCh'[r])
    BY Zenon DEF Heard
  <2>1. UNCHANGED <<inCall, outVoice, outAudio, senders, inFlight>> /\ stage' = [stage EXCEPT ![s] = "tracking"]
    BY <1>18 DEF StartTracks, outgoing, receiving
  <2>2. r \in Sessions /\ o \in Sessions
    BY <2>1 DEF TrackTypes
  <2>3. PICK q \in [Sessions -> Seq(Messages)] :
          /\ Enqueue(q)
          /\ \A p \in inCall \ {s} : \A t \in {outVoice[p], outAudio[p]} \ {Nil} : AddOf(t) \in Range(q[s])
    BY <1>18, SentByStart
  <2>4. /\ marred \subseteq marred' /\ Range(tracksCh[r]) \subseteq Range(tracksCh'[r])
        /\ Range(q[r]) \subseteq Range(tracksCh'[r])
    BY <2>2, <2>3, Enqueues DEF TrackTypes
  <2>5. CASE r = s
    BY <2>1, <2>3, <2>4, <2>5
  <2>6. CASE r # s
    <3>1. stage[r] = "tracking" /\ r \notin marred
      BY <2>1, <2>2, <2>4, <2>6 DEF TrackTypes
    <3> QED BY <2>1, <2>4, <3>1 DEF Heard
  <2> QED BY <2>5, <2>6
<1>19. ASSUME NEW s \in Sessions, TracksEnd(s) PROVE Heard'
  <2> SUFFICES ASSUME NEW r \in inCall', NEW o \in inCall', r # o, stage'[r] = "tracking", r \notin marred',
                      NEW u \in {outVoice'[o], outAudio'[o]} \ {Nil}
               PROVE  \/ [track |-> u, step |-> "announce"] \in inFlight'
                      \/ u \in senders'[r]
                      \/ AddOf(u) \in Range(tracksCh'[r])
    BY Zenon DEF Heard
  <2>1. UNCHANGED <<inCall, outVoice, outAudio, senders, tracksCh, inFlight, marred>> /\ stage' = [stage EXCEPT ![s] = "done"]
    BY <1>19 DEF TracksEnd, outgoing, receiving, history
  <2>2. stage[r] = "tracking"
    BY <2>1 DEF TrackTypes
  <2> QED BY <2>1, <2>2 DEF Heard
<1>20. ASSUME NEW t \in Tracks, SetTrack(t) PROVE Heard'
  <2> SUFFICES ASSUME NEW r \in inCall', NEW o \in inCall', r # o, stage'[r] = "tracking", r \notin marred',
                      NEW u \in {outVoice'[o], outAudio'[o]} \ {Nil}
               PROVE  \/ [track |-> u, step |-> "announce"] \in inFlight'
                      \/ u \in senders'[r]
                      \/ AddOf(u) \in Range(tracksCh'[r])
    BY Zenon DEF Heard
  <2>1. /\ UNCHANGED <<inCall, stage, senders, tracksCh, marred>>
        /\ inFlight' = (inFlight \ {[track |-> t, step |-> "set"]}) \cup {[track |-> t, step |-> "announce"]}
    BY <1>20 DEF SetTrack, call, receiving
  <2>2. o \in Sessions
    BY <2>1 DEF TrackTypes
  <2>3. outVoice'[o] \in {outVoice[o], t} /\ outAudio'[o] \in {outAudio[o], t}
    BY <1>20, <2>2 DEF SetTrack, TrackTypes
  <2>4. CASE u = t
    BY <2>1, <2>4
  <2>5. CASE u # t
    <3>1. u \in {outVoice[o], outAudio[o]} \ {Nil}
      BY <2>3, <2>5
    <3>2. [track |-> u, step |-> "announce"] # [track |-> t, step |-> "set"]
      OBVIOUS
    <3> QED BY <2>1, <3>1, <3>2 DEF Heard
  <2> QED BY <2>4, <2>5
<1>21. ASSUME NEW t \in Tracks, Announce(t) PROVE Heard'
  <2> SUFFICES ASSUME NEW r \in inCall', NEW o \in inCall', r # o, stage'[r] = "tracking", r \notin marred',
                      NEW u \in {outVoice'[o], outAudio'[o]} \ {Nil}
               PROVE  \/ [track |-> u, step |-> "announce"] \in inFlight'
                      \/ u \in senders'[r]
                      \/ AddOf(u) \in Range(tracksCh'[r])
    BY Zenon DEF Heard
  <2>1. /\ UNCHANGED <<inCall, stage, outVoice, outAudio, senders>>
        /\ inFlight' = inFlight \ {[track |-> t, step |-> "announce"]}
    BY <1>21 DEF Announce, call, outgoing, receiving
  <2>2. r \in Sessions /\ o \in Sessions
    BY <2>1 DEF TrackTypes
  <2>3. PICK q \in [Sessions -> Seq(Messages)] :
          Enqueue(q) /\ (~isVideo(t) => \A p \in receivers(t) : AddOf(t) \in Range(q[p]))
    BY <1>21, SentByAnnounce
  <2>4. /\ marred \subseteq marred' /\ Range(tracksCh[r]) \subseteq Range(tracksCh'[r])
        /\ Range(q[r]) \subseteq Range(tracksCh'[r])
    BY <2>2, <2>3, Enqueues DEF TrackTypes
  <2>5. CASE u = t
    <3>1. t.of = o /\ ~isVideo(t)
      BY <2>1, <2>2, <2>5 DEF OwnTracks, isVideo
    <3>2. r \in receivers(t)
      BY <2>1, <3>1 DEF receivers
    <3> QED BY <2>3, <2>4, <2>5, <3>1, <3>2
  <2>6. CASE u # t
    <3>1. [track |-> u, step |-> "announce"] # [track |-> t, step |-> "announce"]
      BY <2>6
    <3>2. r \notin marred
      BY <2>4
    <3> QED BY <2>1, <2>4, <3>1, <3>2 DEF Heard
  <2> QED BY <2>5, <2>6
<1>22. \A t \in {h.track : h \in inFlight} : t \in Tracks
  BY DEF TrackTypes, Arrivals
<1> QED BY <1>1, <1>2, <1>3, <1>4, <1>5, <1>6, <1>7, <1>8, <1>9, <1>10, <1>11, <1>12, <1>13,
           <1>14, <1>15, <1>16, <1>17, <1>18, <1>19, <1>20, <1>21, <1>22 DEF Next, SessionStep

-----------------------------------------------------------------------------
(* What a step does: where new tracks come from, and how tracks go.        *)

\* No step goes back.
LEMMA Onward ==
  ASSUME TrackTypes, OwnTracks, [Next]_vars
  PROVE  Goes
<1>1. CASE UNCHANGED vars
  <2>1. UNCHANGED <<stage, inCall, share, sharer>>
    BY <1>1 DEF vars, call, client
  <2> QED BY <2>1 DEF TrackTypes, Goes
<1>2. ASSUME NEW s \in Sessions, AddRefused(s) \/ AddTrack(s) \/ RemoveTrack(s) \/ TakeFails(s)
      PROVE  Goes
  <2>1. UNCHANGED <<stage, inCall, share, sharer>>
    BY <1>2 DEF AddRefused, AddTrack, RemoveTrack, TakeFails, call, client
  <2> QED BY <2>1 DEF TrackTypes, Goes
<1>3. ASSUME NEW s \in Sessions, Answered(s) \/ NegotiationFails(s) \/ NegotiationClosed(s)
      PROVE  Goes
  <2>1. UNCHANGED <<stage, inCall, share, sharer>>
    BY <1>3 DEF Answered, NegotiationFails, NegotiationClosed, call, client
  <2> QED BY <2>1 DEF TrackTypes, Goes
<1>4. ASSUME NEW s \in Sessions, StartTracks(s)
      PROVE  Goes
  <2>1. UNCHANGED <<inCall, share, sharer>>
    BY <1>4 DEF StartTracks, client
  <2>2. stage' = [stage EXCEPT ![s] = "tracking"]
    BY <1>4 DEF StartTracks
  <2> QED BY <2>1, <2>2 DEF TrackTypes, Goes
<1>5. ASSUME NEW s \in Sessions, TracksEnd(s)
      PROVE  Goes
  <2>1. UNCHANGED <<inCall, share, sharer>>
    BY <1>5 DEF TracksEnd, client
  <2>2. stage' = [stage EXCEPT ![s] = "done"]
    BY <1>5 DEF TracksEnd
  <2> QED BY <2>1, <2>2 DEF TrackTypes, Goes
<1>6. ASSUME NEW s \in Sessions, CloseSignal(s)
      PROVE  Goes
  <2>1. UNCHANGED <<stage, inCall, share, sharer>>
    BY <1>6 DEF CloseSignal, call, client
  <2> QED BY <2>1 DEF TrackTypes, Goes
<1>7. ASSUME NEW s \in Sessions, Join(s)
      PROVE  Goes
  <2>1. UNCHANGED <<share, sharer>> /\ inCall' = inCall \cup {s}
    BY <1>7 DEF Join
  <2>2. stage' = [stage EXCEPT ![s] = "joined"] /\ stage[s] = "out"
    BY <1>7 DEF Join
  <2> QED BY <2>1, <2>2 DEF TrackTypes, Goes
<1>8. ASSUME NEW s \in Sessions, CloseDetach(s)
      PROVE  Goes
  <2>1. UNCHANGED <<stage, share>> /\ inCall' \subseteq inCall /\ sharer' \in {sharer, Nil}
    BY <1>8 DEF CloseDetach
  <2> QED BY <2>1, TracksAssumption DEF TrackTypes, Goes
<1>9. ASSUME NEW s \in Sessions, NEW kind \in {"voice", "audio", "screen"}, OnTrack(s, kind)
      PROVE  Goes
  <2>1. UNCHANGED <<stage, inCall, share, sharer>>
    BY <1>9 DEF OnTrack, call, client
  <2> QED BY <2>1 DEF TrackTypes, Goes
<1>10. ASSUME NEW s \in Sessions, StartShare(s)
      PROVE  Goes
  <2>1. UNCHANGED <<stage, inCall>> /\ sharer' = s /\ share' = [share EXCEPT ![s] = @ + 1]
    BY <1>10 DEF StartShare, call
  <2> QED BY <2>1 DEF TrackTypes, Goes
<1>11. ASSUME NEW s \in Sessions, ScreenOnLookup(s) \/ ScreenOn(s) \/ ScreenOffLookup(s)
      PROVE  Goes
  <2>1. UNCHANGED <<stage, inCall, share, sharer>>
    BY <1>11 DEF ScreenOnLookup, ScreenOn, ScreenOffLookup, call, client
  <2> QED BY <2>1 DEF TrackTypes, Goes
<1>12. ASSUME NEW s \in Sessions, ScreenOff(s)
      PROVE  Goes
  <2>1. UNCHANGED <<stage, inCall, share>> /\ sharer' \in {sharer, Nil}
    BY <1>12 DEF ScreenOff
  <2> QED BY <2>1, TracksAssumption DEF TrackTypes, Goes
<1>13. ASSUME NEW t \in Tracks, SetTrack(t) \/ Announce(t)
      PROVE  Goes
  <2>1. UNCHANGED <<stage, inCall, share, sharer>>
    BY <1>13 DEF SetTrack, Announce, call, client
  <2> QED BY <2>1 DEF TrackTypes, Goes
<1>14. \A t \in {h.track : h \in inFlight} : t \in Tracks
  BY DEF TrackTypes, Arrivals
<1> QED BY <1>1, <1>2, <1>3, <1>4, <1>5, <1>6, <1>7, <1>8, <1>9, <1>10, <1>11, <1>12,
           <1>13, <1>14 DEF Next, SessionStep

\* A queue gets tracks from OnTrack and from StartTracks.
LEMMA NewAdds ==
  ASSUME TrackTypes, [Next]_vars
  PROVE  AddsCome
<1>1. CASE UNCHANGED vars
  <2>1. UNCHANGED tracksCh
    BY <1>1 DEF vars
  <2> QED BY <2>1, Zenon DEF AddsCome
<1>2. ASSUME NEW s \in Sessions, AddRefused(s) PROVE AddsCome
  <2>1. tracksCh[s] # <<>> /\ took(s)
    BY <1>2 DEF AddRefused, next
  <2>2. \A r \in Sessions : Range(tracksCh'[r]) \subseteq Range(tracksCh[r])
    BY <2>1, HeadTaken
  <2> QED BY <2>2 DEF AddsCome
<1>3. ASSUME NEW s \in Sessions, AddTrack(s) PROVE AddsCome
  <2>1. tracksCh[s] # <<>> /\ took(s)
    BY <1>3 DEF AddTrack, next
  <2>2. \A r \in Sessions : Range(tracksCh'[r]) \subseteq Range(tracksCh[r])
    BY <2>1, HeadTaken
  <2> QED BY <2>2 DEF AddsCome
<1>4. ASSUME NEW s \in Sessions, RemoveTrack(s) PROVE AddsCome
  <2>1. tracksCh[s] # <<>> /\ took(s)
    BY <1>4 DEF RemoveTrack, next
  <2>2. \A r \in Sessions : Range(tracksCh'[r]) \subseteq Range(tracksCh[r])
    BY <2>1, HeadTaken
  <2> QED BY <2>2 DEF AddsCome
<1>5. ASSUME NEW s \in Sessions, TakeFails(s) PROVE AddsCome
  <2>1. tracksCh[s] # <<>> /\ took(s)
    BY <1>5 DEF TakeFails, next
  <2>2. \A r \in Sessions : Range(tracksCh'[r]) \subseteq Range(tracksCh[r])
    BY <2>1, HeadTaken
  <2> QED BY <2>2 DEF AddsCome
<1>6. ASSUME NEW s \in Sessions, Answered(s) \/ NegotiationFails(s) \/ NegotiationClosed(s)
      PROVE  AddsCome
  <2>1. UNCHANGED tracksCh
    BY <1>6 DEF Answered, NegotiationFails, NegotiationClosed
  <2> QED BY <2>1, Zenon DEF AddsCome
<1>7. ASSUME NEW s \in Sessions, TracksEnd(s) PROVE AddsCome
  <2>1. UNCHANGED tracksCh
    BY <1>7 DEF TracksEnd
  <2> QED BY <2>1, Zenon DEF AddsCome
<1>8. ASSUME NEW s \in Sessions, StartTracks(s) PROVE AddsCome
  <2>1. PICK q \in [Sessions -> Seq(Messages)] :
          /\ Enqueue(q)
          /\ \A r \in Sessions : \A m \in Range(q[r]) : \E o \in inCall \ {r} : \E t \in outTracks(o) : m = AddOf(t)
    BY <1>8, SentByStart
  <2>2. \A r \in Sessions : Range(tracksCh'[r]) \subseteq Range(tracksCh[r]) \cup Range(q[r])
    BY <2>1, Enqueues DEF TrackTypes
  <2>3. \A r \in Sessions : \A m \in Range(q[r]) : \E o \in inCall \ {r} : m.track \in outTracks(o)
    BY <2>1, MessageParts
  <2> QED BY <1>8, <2>2, <2>3, Zenon DEF AddsCome
<1>9. ASSUME NEW s \in Sessions, Join(s) \/ CloseSignal(s) PROVE AddsCome
  <2>1. UNCHANGED tracksCh
    BY <1>9 DEF Join, CloseSignal
  <2> QED BY <2>1, Zenon DEF AddsCome
<1>10. ASSUME NEW s \in Sessions, CloseDetach(s) PROVE AddsCome
  <2>1. PICK q \in [Sessions -> Seq(Messages)] :
          /\ Enqueue(q)
          /\ \A r \in Sessions : \A m \in Range(q[r]) : \E t \in senders[r] \cap screenTracks(s) : m = RemoveOf(t)
    BY <1>10, SentByClose
  <2>2. \A r \in Sessions : Range(tracksCh'[r]) \subseteq Range(tracksCh[r]) \cup Range(q[r])
    BY <2>1, Enqueues DEF TrackTypes
  <2>3. \A r \in Sessions : \A m \in Range(q[r]) : m.action # "add"
    BY <2>1, MessageParts
  <2> QED BY <2>2, <2>3 DEF AddsCome
<1>11. ASSUME NEW s \in Sessions, NEW kind \in {"voice", "audio", "screen"}, OnTrack(s, kind) \/ StartShare(s)
      PROVE  AddsCome
  <2>1. UNCHANGED tracksCh
    BY <1>11 DEF OnTrack, StartShare
  <2> QED BY <2>1, Zenon DEF AddsCome
<1>12. ASSUME NEW s \in Sessions, ScreenOnLookup(s) \/ ScreenOn(s) \/ ScreenOffLookup(s)
      PROVE  AddsCome
  <2>1. UNCHANGED tracksCh
    BY <1>12 DEF ScreenOnLookup, ScreenOn, ScreenOffLookup
  <2> QED BY <2>1, Zenon DEF AddsCome
<1>13. ASSUME NEW s \in Sessions, ScreenOff(s) PROVE AddsCome
  <2>1. clearScreenState(s)
    BY <1>13 DEF ScreenOff
  <2>2. CASE UNCHANGED tracksCh
    BY <2>2 DEF AddsCome
  <2>3. ASSUME NEW q \in [Sessions -> Seq(Messages)], Enqueue(q),
               \A r \in Sessions : \A m \in Range(q[r]) : screenSender[r] # Nil /\ m = RemoveOf(screenSender[r])
        PROVE  AddsCome
    <3>1. \A r \in Sessions : \A m \in Range(q[r]) : m.action # "add"
      BY <2>3, MessageParts
    <3>2. \A r \in Sessions : Range(tracksCh'[r]) \subseteq Range(tracksCh[r]) \cup Range(q[r])
      BY <2>3, Enqueues DEF TrackTypes
    <3> QED BY <3>1, <3>2 DEF AddsCome
  <2> QED BY <2>1, <2>2, <2>3, SentByOff
<1>14. ASSUME NEW t \in Tracks, SetTrack(t) PROVE AddsCome
  <2>1. UNCHANGED tracksCh
    BY <1>14 DEF SetTrack
  <2> QED BY <2>1, Zenon DEF AddsCome
<1>15. ASSUME NEW t \in Tracks, Announce(t) PROVE AddsCome
  <2>1. PICK q \in [Sessions -> Seq(Messages)] :
          /\ Enqueue(q) /\ Range(q[t.of]) = {}
          /\ \A s \in Sessions : Range(q[s]) \subseteq {AddOf(u) : u \in copies(t)}
    BY <1>15, SentByAnnounce
  <2>2. \A r \in Sessions : Range(tracksCh'[r]) \subseteq Range(tracksCh[r]) \cup Range(q[r])
    BY <2>1, Enqueues DEF TrackTypes
  <2>3. \A r \in Sessions : \A m \in Range(q[r]) : t.of # r /\ m.track \in copies(t)
    <3> SUFFICES ASSUME NEW r \in Sessions, NEW m \in Range(q[r]) PROVE t.of # r /\ m.track \in copies(t)
      OBVIOUS
    <3>1. t.of # r
      BY <2>1, Zenon
    <3>2. PICK u \in copies(t) : m = AddOf(u)
      BY <2>1
    <3> QED BY <3>1, <3>2, MessageParts
  <2> QED BY <1>15, <2>2, <2>3, Zenon DEF AddsCome
<1>16. \A t \in {h.track : h \in inFlight} : t \in Tracks
  BY DEF TrackTypes, Arrivals
<1> QED BY <1>1, <1>2, <1>3, <1>4, <1>5, <1>6, <1>7, <1>8, <1>9, <1>10, <1>11, <1>12,
           <1>13, <1>14, <1>15, <1>16 DEF Next, SessionStep

\* How inFlight grows.
LEMMA NewFlights ==
  ASSUME TrackTypes, [Next]_vars
  PROVE  FlightsCome
<1>1. CASE UNCHANGED vars
  <2>1. UNCHANGED inFlight
    BY <1>1 DEF vars
  <2> QED BY <2>1, Zenon DEF FlightsCome
<1>2. ASSUME NEW s \in Sessions, AddRefused(s) \/ AddTrack(s) \/ RemoveTrack(s) \/ TakeFails(s)
      PROVE  FlightsCome
  <2>1. UNCHANGED inFlight
    BY <1>2 DEF AddRefused, AddTrack, RemoveTrack, TakeFails
  <2> QED BY <2>1, Zenon DEF FlightsCome
<1>3. ASSUME NEW s \in Sessions, Answered(s) \/ NegotiationFails(s) \/ NegotiationClosed(s)
      PROVE  FlightsCome
  <2>1. UNCHANGED inFlight
    BY <1>3 DEF Answered, NegotiationFails, NegotiationClosed
  <2> QED BY <2>1, Zenon DEF FlightsCome
<1>4. ASSUME NEW s \in Sessions, StartTracks(s) \/ TracksEnd(s) PROVE FlightsCome
  <2>1. UNCHANGED inFlight
    BY <1>4 DEF StartTracks, TracksEnd
  <2> QED BY <2>1, Zenon DEF FlightsCome
<1>5. ASSUME NEW s \in Sessions, Join(s) \/ CloseDetach(s) \/ CloseSignal(s) PROVE FlightsCome
  <2>1. UNCHANGED inFlight
    BY <1>5 DEF Join, CloseDetach, CloseSignal
  <2> QED BY <2>1, Zenon DEF FlightsCome
<1>6. ASSUME NEW s \in Sessions, StartShare(s) PROVE FlightsCome
  <2>1. UNCHANGED inFlight
    BY <1>6 DEF StartShare
  <2> QED BY <2>1, Zenon DEF FlightsCome
<1>7. ASSUME NEW s \in Sessions, NEW kind \in {"voice", "audio", "screen"}, OnTrack(s, kind)
      PROVE  FlightsCome
  <2>1. \A h \in inFlight' : h \in inFlight \/ (h.track \in classify(s, kind) /\ h.step = "set")
    BY <1>7 DEF OnTrack
  <2> QED BY <1>7, <2>1, Zenon DEF FlightsCome
<1>8. ASSUME NEW s \in Sessions, ScreenOnLookup(s) \/ ScreenOn(s) \/ ScreenOffLookup(s) \/ ScreenOff(s)
      PROVE  FlightsCome
  <2>1. UNCHANGED inFlight
    BY <1>8 DEF ScreenOnLookup, ScreenOn, ScreenOffLookup, ScreenOff
  <2> QED BY <2>1, Zenon DEF FlightsCome
<1>9. ASSUME NEW t \in Tracks, SetTrack(t) PROVE FlightsCome
  <2>1. \A h \in inFlight' : h \in inFlight \/ h = [track |-> t, step |-> "announce"]
    BY <1>9 DEF SetTrack
  <2> QED BY <1>9, <2>1, Zenon DEF FlightsCome
<1>10. ASSUME NEW t \in Tracks, Announce(t) PROVE FlightsCome
  <2>1. inFlight' \subseteq inFlight
    BY <1>10 DEF Announce
  <2> QED BY <2>1, Zenon DEF FlightsCome
<1>11. \A t \in {h.track : h \in inFlight} : t \in Tracks
  BY DEF TrackTypes, Arrivals
<1> QED BY <1>1, <1>2, <1>3, <1>4, <1>5, <1>6, <1>7, <1>8, <1>9, <1>10, <1>11 DEF Next,
           SessionStep

\* What a session lists is its own.
LEMMA OwnLists ==
  ASSUME TrackTypes, OwnTracks, NEW o \in Sessions, NEW t \in outTracks(o)
  PROVE  /\ t \in Tracks /\ t.of = o
         /\ t \in screenTracks(o) <=> isVideo(t)
         /\ t \in screenTracks(o) => t.share = outScreen[o] /\ outScreen[o] # 0
         /\ t.kind = "voice" => t = outVoice[o] /\ t # Nil
         /\ t.kind = "audio" => t = outAudio[o] /\ t # Nil
<1>1. CASE t \in screenTracks(o)
  <2>1. PICK i \in 1..NumCPU : t = Screen(o, outScreen[o], i) /\ outScreen[o] # 0
    BY <1>1, Zenon DEF screenTracks
  <2>2. outScreen[o] \in Nat /\ i \in Nat
    BY DEF TrackTypes
  <2>3. t \in Screens /\ t.of = o
    BY <2>1, <2>2, NewTracks
  <2>4. t.share = outScreen[o] /\ t.kind = "screen"
    BY <2>1 DEF Screen
  <2> QED BY <1>1, <2>1, <2>3, <2>4 DEF Screens, isVideo
<1>2. CASE t \notin screenTracks(o)
  <2>1. t # Nil /\ t \in {outVoice[o], outAudio[o]}
    BY <1>2 DEF outTracks
  <2>2. /\ t = outVoice[o] => t.kind = "voice" /\ t.of = o /\ t \in Tracks
        /\ t = outAudio[o] => t.kind = "audio" /\ t.of = o /\ t \in Tracks
    BY <2>1 DEF OwnTracks, TrackTypes
  <2> QED BY <1>2, <2>1, <2>2 DEF isVideo
<1> QED BY <1>1, <1>2

\* A screen that is listed is one of the outgoing tracks.
LEMMA InLists ==
  ASSUME NEW o, NEW t
  PROVE  /\ t \in outTracks(o) <=> (t # Nil /\ t \in {outVoice[o], outAudio[o]}) \/ t \in screenTracks(o)
         /\ t \in outTracks(o)' <=> (t # Nil /\ t \in {outVoice'[o], outAudio'[o]}) \/ t \in screenTracks(o)'
BY Zenon DEF outTracks

\* The screens of a session.
LEMMA ScreensOf ==
  ASSUME NEW o
  PROVE  /\ \A t \in screenTracks(o) : isVideo(t) /\ t.of = o /\ t.share = outScreen[o] /\ outScreen[o] # 0
         /\ \A t \in screenTracks(o)' : isVideo(t) /\ t.of = o /\ t.share = outScreen'[o] /\ outScreen'[o] # 0
<1>1. \A n, i : isVideo(Screen(o, n, i)) /\ Screen(o, n, i).of = o /\ Screen(o, n, i).share = n
  BY DEF Screen, isVideo
<1>2. /\ \A t \in screenTracks(o) : outScreen[o] # 0 /\ \E i \in 1..NumCPU : t = Screen(o, outScreen[o], i)
      /\ \A t \in screenTracks(o)' : outScreen'[o] # 0 /\ \E i \in 1..NumCPU : t = Screen(o, outScreen'[o], i)
  BY Zenon DEF screenTracks
<1> QED BY <1>1, <1>2

\* The screens of a session are the copies of one.
LEMMA ScreenCopies ==
  ASSUME NEW u \in Tracks, isVideo(u)
  PROVE  copies(u) = {Screen(u.of, u.share, i) : i \in 1..NumCPU}
<1>1. \A i \in 1..NumCPU : [u EXCEPT !.copy = i] = Screen(u.of, u.share, i)
  BY DEF Tracks, isVideo, Screen
<1> QED BY <1>1, Zenon DEF copies

\* What a session lists once SetTrack is done.
LEMMA SetLists ==
  ASSUME TrackTypes, OwnTracks, NEW u \in Tracks, SetTrack(u), isVideo(u) => u.share # 0
  PROVE  /\ \A o \in Sessions : o # u.of => outTracks(o)' = outTracks(o)
         /\ outTracks(u.of)' \subseteq outTracks(u.of) \cup copies(u)
         /\ outTracks(u.of) \subseteq outTracks(u.of)' \cup orphaned'
         /\ copies(u) \subseteq outTracks(u.of)'
<1> DEFINE o == u.of
<1>1. o \in Sessions /\ u.kind \in {"voice", "audio", "screen"} /\ u # Nil
  BY TracksAssumption DEF Tracks
<1>2. \A r \in Sessions : r # o => outTracks(r)' = outTracks(r)
  <2>1. \A r \in Sessions : r # o => outVoice'[r] = outVoice[r] /\ outAudio'[r] = outAudio[r] /\ outScreen'[r] = outScreen[r]
    BY DEF SetTrack, TrackTypes
  <2> QED BY <2>1, ZenonT(20) DEF outTracks, screenTracks
<1>3. \A v \in outTracks(o) : v \in copies(u) \/ v.kind # u.kind \/ v \in orphaned'
  BY DEF SetTrack
<1>4. \A v \in outTracks(o) : /\ v \in screenTracks(o) <=> v.kind = "screen"
                              /\ v.kind = "voice" <=> v = outVoice[o] /\ v # Nil /\ v \notin screenTracks(o)
                              /\ v.kind = "audio" <=> v = outAudio[o] /\ v # Nil /\ v \notin screenTracks(o)
  BY <1>1, OwnLists, InLists, SMTT(30) DEF isVideo, OwnTracks
<1> HIDE DEF o
<1>5. CASE u.kind = "voice"
  <2>1. outVoice'[o] = u /\ outAudio'[o] = outAudio[o] /\ outScreen'[o] = outScreen[o]
    BY <1>1, <1>5 DEF SetTrack, TrackTypes, isVideo, o
  <2>2. copies(u) = {u} /\ screenTracks(o)' = screenTracks(o)
    BY <1>5, <2>1, CopiesOf DEF isVideo, screenTracks
  <2> QED BY <1>1, <1>2, <1>3, <1>4, <1>5, <2>1, <2>2, InLists DEF o
<1>6. CASE u.kind = "audio"
  <2>1. outAudio'[o] = u /\ outVoice'[o] = outVoice[o] /\ outScreen'[o] = outScreen[o]
    BY <1>1, <1>6 DEF SetTrack, TrackTypes, isVideo, o
  <2>2. copies(u) = {u} /\ screenTracks(o)' = screenTracks(o)
    BY <1>6, <2>1, CopiesOf DEF isVideo, screenTracks
  <2> QED BY <1>1, <1>2, <1>3, <1>4, <1>6, <2>1, <2>2, InLists DEF o
<1>7. CASE u.kind = "screen"
  <2>1. outAudio'[o] = outAudio[o] /\ outVoice'[o] = outVoice[o] /\ outScreen'[o] = u.share
    BY <1>1, <1>7 DEF SetTrack, TrackTypes, isVideo, o
  <2>2. copies(u) = {Screen(o, u.share, i) : i \in 1..NumCPU}
    BY <1>7, ScreenCopies DEF isVideo, o
  <2>3. screenTracks(o)' = copies(u)
    BY <1>7, <2>1, <2>2 DEF screenTracks, isVideo
  <2> QED BY <1>1, <1>2, <1>3, <1>4, <1>7, <2>1, <2>3, InLists DEF o, isVideo
<1> QED BY <1>1, <1>5, <1>6, <1>7

\* Only SetTrack lists a track.
LEMMA NewLists ==
  ASSUME TrackTypes, OwnTracks, KnownTracks, [Next]_vars
  PROVE  ListsCome
<1>1. CASE UNCHANGED vars
  <2>1. UNCHANGED <<outVoice, outAudio, outScreen>>
    BY <1>1 DEF vars, outgoing
  <2> QED BY <2>1, Zenon DEF ListsCome, outTracks, screenTracks
<1>2. ASSUME NEW s \in Sessions, AddRefused(s) \/ AddTrack(s) \/ RemoveTrack(s) \/ TakeFails(s)
      PROVE  ListsCome
  <2>1. UNCHANGED <<outVoice, outAudio, outScreen>>
    BY <1>2 DEF AddRefused, AddTrack, RemoveTrack, TakeFails, outgoing
  <2> QED BY <2>1, Zenon DEF ListsCome, outTracks, screenTracks
<1>3. ASSUME NEW s \in Sessions, Answered(s) \/ NegotiationFails(s) \/ NegotiationClosed(s)
      PROVE  ListsCome
  <2>1. UNCHANGED <<outVoice, outAudio, outScreen>>
    BY <1>3 DEF Answered, NegotiationFails, NegotiationClosed, outgoing
  <2> QED BY <2>1, Zenon DEF ListsCome, outTracks, screenTracks
<1>4. ASSUME NEW s \in Sessions, StartTracks(s) \/ TracksEnd(s) PROVE ListsCome
  <2>1. UNCHANGED <<outVoice, outAudio, outScreen>>
    BY <1>4 DEF StartTracks, TracksEnd, outgoing
  <2> QED BY <2>1, Zenon DEF ListsCome, outTracks, screenTracks
<1>5. ASSUME NEW s \in Sessions, Join(s) \/ CloseDetach(s) \/ CloseSignal(s) PROVE ListsCome
  <2>1. UNCHANGED <<outVoice, outAudio, outScreen>>
    BY <1>5 DEF Join, CloseDetach, CloseSignal, outgoing
  <2> QED BY <2>1, Zenon DEF ListsCome, outTracks, screenTracks
<1>6. ASSUME NEW s \in Sessions, NEW kind \in {"voice", "audio", "screen"}, OnTrack(s, kind) \/ StartShare(s)
      PROVE  ListsCome
  <2>1. UNCHANGED <<outVoice, outAudio, outScreen>>
    BY <1>6 DEF OnTrack, StartShare, outgoing
  <2> QED BY <2>1, Zenon DEF ListsCome, outTracks, screenTracks
<1>7. ASSUME NEW s \in Sessions, ScreenOnLookup(s) \/ ScreenOn(s) \/ ScreenOffLookup(s)
      PROVE  ListsCome
  <2>1. UNCHANGED <<outVoice, outAudio, outScreen>>
    BY <1>7 DEF ScreenOnLookup, ScreenOn, ScreenOffLookup, outgoing
  <2> QED BY <2>1, Zenon DEF ListsCome, outTracks, screenTracks
<1>8. ASSUME NEW s \in Sessions, ScreenOff(s) PROVE ListsCome
  <2>1. clearScreenState(s) /\ outVoice' = outVoice
    BY <1>8 DEF ScreenOff
  <2>2. \A r \in Sessions : \/ outAudio'[r] = outAudio[r] /\ outScreen'[r] = outScreen[r]
                            \/ r = s /\ screenSession = s /\ outAudio'[r] = Nil /\ outScreen'[r] = 0
    BY <2>1, SentByOff, SMTT(30) DEF TrackTypes
  <2>3. \A r \in Sessions : outTracks(r)' \subseteq outTracks(r)
    BY <2>1, <2>2 DEF outTracks, screenTracks
  <2> QED BY <2>3 DEF ListsCome
<1>9. ASSUME NEW t \in Tracks, Announce(t) PROVE ListsCome
  <2>1. UNCHANGED <<outVoice, outAudio, outScreen>>
    BY <1>9 DEF Announce, outgoing
  <2> QED BY <2>1, Zenon DEF ListsCome, outTracks, screenTracks
<1>10. ASSUME NEW t \in Tracks, SetTrack(t) PROVE ListsCome
  <2>1. isVideo(t) => t.share # 0
    BY <1>10 DEF SetTrack, KnownTracks, Known, isVideo
  <2>2. t.of \in Sessions
    BY DEF Tracks
  <2> QED BY <1>10, <2>1, <2>2, SetLists DEF ListsCome
<1>11. \A t \in {h.track : h \in inFlight} : t \in Tracks
  BY DEF TrackTypes, Arrivals
<1> QED BY <1>1, <1>2, <1>3, <1>4, <1>5, <1>6, <1>7, <1>8, <1>9, <1>10, <1>11 DEF Next,
           SessionStep

\* How a track goes from the lists.
LEMMA OldLists ==
  ASSUME TrackTypes, OwnTracks, KnownTracks, [Next]_vars
  PROVE  ListsGo
<1>1. CASE UNCHANGED vars
  <2>1. UNCHANGED <<outVoice, outAudio, outScreen>>
    BY <1>1 DEF vars, outgoing
  <2> QED BY <2>1, Zenon DEF ListsGo, outTracks, screenTracks
<1>2. ASSUME NEW s \in Sessions, AddRefused(s) \/ AddTrack(s) \/ RemoveTrack(s) \/ TakeFails(s)
      PROVE  ListsGo
  <2>1. UNCHANGED <<outVoice, outAudio, outScreen>>
    BY <1>2 DEF AddRefused, AddTrack, RemoveTrack, TakeFails, outgoing
  <2> QED BY <2>1, Zenon DEF ListsGo, outTracks, screenTracks
<1>3. ASSUME NEW s \in Sessions, Answered(s) \/ NegotiationFails(s) \/ NegotiationClosed(s)
      PROVE  ListsGo
  <2>1. UNCHANGED <<outVoice, outAudio, outScreen>>
    BY <1>3 DEF Answered, NegotiationFails, NegotiationClosed, outgoing
  <2> QED BY <2>1, Zenon DEF ListsGo, outTracks, screenTracks
<1>4. ASSUME NEW s \in Sessions, StartTracks(s) \/ TracksEnd(s) PROVE ListsGo
  <2>1. UNCHANGED <<outVoice, outAudio, outScreen>>
    BY <1>4 DEF StartTracks, TracksEnd, outgoing
  <2> QED BY <2>1, Zenon DEF ListsGo, outTracks, screenTracks
<1>5. ASSUME NEW s \in Sessions, Join(s) \/ CloseDetach(s) \/ CloseSignal(s) PROVE ListsGo
  <2>1. UNCHANGED <<outVoice, outAudio, outScreen>>
    BY <1>5 DEF Join, CloseDetach, CloseSignal, outgoing
  <2> QED BY <2>1, Zenon DEF ListsGo, outTracks, screenTracks
<1>6. ASSUME NEW s \in Sessions, NEW kind \in {"voice", "audio", "screen"}, OnTrack(s, kind) \/ StartShare(s)
      PROVE  ListsGo
  <2>1. UNCHANGED <<outVoice, outAudio, outScreen>>
    BY <1>6 DEF OnTrack, StartShare, outgoing
  <2> QED BY <2>1, Zenon DEF ListsGo, outTracks, screenTracks
<1>7. ASSUME NEW s \in Sessions, ScreenOnLookup(s) \/ ScreenOn(s) \/ ScreenOffLookup(s)
      PROVE  ListsGo
  <2>1. UNCHANGED <<outVoice, outAudio, outScreen>>
    BY <1>7 DEF ScreenOnLookup, ScreenOn, ScreenOffLookup, outgoing
  <2> QED BY <2>1, Zenon DEF ListsGo, outTracks, screenTracks
<1>8. ASSUME NEW s \in Sessions, ScreenOff(s) PROVE ListsGo
  <2>1. clearScreenState(s) /\ outVoice' = outVoice
    BY <1>8 DEF ScreenOff
  <2>2. \A r \in Sessions : \/ outAudio'[r] = outAudio[r] /\ outScreen'[r] = outScreen[r]
                            \/ r = s /\ screenSession = s /\ outAudio'[r] = Nil /\ outScreen'[r] = 0
    BY <2>1, SentByOff, SMTT(30) DEF TrackTypes
  <2>3. ASSUME NEW r \in Sessions, NEW t \in outTracks(r), t \notin outTracks(r)'
        PROVE  r = s /\ screenSession = s /\ t.kind # "voice"
    <3>1. ~(outAudio'[r] = outAudio[r] /\ outScreen'[r] = outScreen[r])
      BY <2>1, <2>3 DEF outTracks, screenTracks
    <3>2. t.kind = "voice" => t = outVoice[r] /\ t # Nil
      BY OwnLists
    <3>3. t.kind = "voice" => t \in outTracks(r)'
      BY <2>1, <3>2, InLists
    <3> QED BY <2>2, <2>3, <3>1, <3>3
  <2> QED BY <1>8, <2>3, Zenon DEF ListsGo
<1>9. ASSUME NEW t \in Tracks, Announce(t) PROVE ListsGo
  <2>1. UNCHANGED <<outVoice, outAudio, outScreen>>
    BY <1>9 DEF Announce, outgoing
  <2> QED BY <2>1, Zenon DEF ListsGo, outTracks, screenTracks
<1>10. ASSUME NEW t \in Tracks, SetTrack(t) PROVE ListsGo
  <2>1. isVideo(t) => t.share # 0
    BY <1>10 DEF SetTrack, KnownTracks, Known, isVideo
  <2>2. t.of \in Sessions
    BY DEF Tracks
  <2> QED BY <1>10, <2>1, <2>2, SetLists DEF ListsGo
<1>11. \A t \in {h.track : h \in inFlight} : t \in Tracks
  BY DEF TrackTypes, Arrivals
<1> QED BY <1>1, <1>2, <1>3, <1>4, <1>5, <1>6, <1>7, <1>8, <1>9, <1>10, <1>11 DEF Next,
           SessionStep

\* Only handleSessionClose takes a session out of the call.
LEMMA CallsLeft ==
  ASSUME TrackTypes, [Next]_vars
  PROVE  CallsEnd
<1>1. CASE UNCHANGED vars
  <2>1. UNCHANGED inCall
    BY <1>1 DEF vars, call
  <2> QED BY <2>1 DEF CallsEnd
<1>2. ASSUME NEW s \in Sessions, AddRefused(s) \/ AddTrack(s) \/ RemoveTrack(s) \/ TakeFails(s)
      PROVE  CallsEnd
  <2>1. UNCHANGED inCall
    BY <1>2 DEF AddRefused, AddTrack, RemoveTrack, TakeFails, call
  <2> QED BY <2>1 DEF CallsEnd
<1>3. ASSUME NEW s \in Sessions, Answered(s) \/ NegotiationFails(s) \/ NegotiationClosed(s)
      PROVE  CallsEnd
  <2>1. UNCHANGED inCall
    BY <1>3 DEF Answered, NegotiationFails, NegotiationClosed, call
  <2> QED BY <2>1 DEF CallsEnd
<1>4. ASSUME NEW s \in Sessions, StartTracks(s) \/ TracksEnd(s) PROVE CallsEnd
  <2>1. UNCHANGED inCall
    BY <1>4 DEF StartTracks, TracksEnd, call
  <2> QED BY <2>1 DEF CallsEnd
<1>5. ASSUME NEW s \in Sessions, CloseSignal(s) PROVE CallsEnd
  <2>1. UNCHANGED inCall
    BY <1>5 DEF CloseSignal, call
  <2> QED BY <2>1 DEF CallsEnd
<1>6. ASSUME NEW s \in Sessions, Join(s) PROVE CallsEnd
  BY <1>6 DEF Join, CallsEnd
<1>7. ASSUME NEW s \in Sessions, CloseDetach(s) PROVE CallsEnd
  <2>1. inCall' = inCall \ {s}
    BY <1>7 DEF CloseDetach
  <2> QED BY <1>7, <2>1, Zenon DEF CallsEnd
<1>8. ASSUME NEW s \in Sessions, NEW kind \in {"voice", "audio", "screen"}, OnTrack(s, kind) \/ StartShare(s)
      PROVE  CallsEnd
  <2>1. UNCHANGED inCall
    BY <1>8 DEF OnTrack, StartShare, call
  <2> QED BY <2>1 DEF CallsEnd
<1>9. ASSUME NEW s \in Sessions, ScreenOnLookup(s) \/ ScreenOn(s) \/ ScreenOffLookup(s) \/ ScreenOff(s)
      PROVE  CallsEnd
  <2>1. UNCHANGED inCall
    BY <1>9 DEF ScreenOnLookup, ScreenOn, ScreenOffLookup, ScreenOff, call
  <2> QED BY <2>1 DEF CallsEnd
<1>10. ASSUME NEW t \in Tracks, SetTrack(t) \/ Announce(t) PROVE CallsEnd
  <2>1. UNCHANGED inCall
    BY <1>10 DEF SetTrack, Announce, call
  <2> QED BY <2>1 DEF CallsEnd
<1>11. \A t \in {h.track : h \in inFlight} : t \in Tracks
  BY DEF TrackTypes, Arrivals
<1> QED BY <1>1, <1>2, <1>3, <1>4, <1>5, <1>6, <1>7, <1>8, <1>9, <1>10, <1>11 DEF Next,
           SessionStep

\* What happened, happened.
LEMMA HistoryKept ==
  ASSUME TrackTypes, [Next]_vars
  PROVE  HistoryGrows
<1>1. CASE UNCHANGED vars
  <2>1. UNCHANGED <<orphaned, marred>>
    BY <1>1 DEF vars, history
  <2> QED BY <2>1 DEF HistoryGrows
<1>2. ASSUME NEW s \in Sessions, AddRefused(s) \/ AddTrack(s) \/ RemoveTrack(s) \/ TakeFails(s)
      PROVE  HistoryGrows
  <2>1. UNCHANGED <<orphaned, marred>>
    BY <1>2 DEF AddRefused, AddTrack, RemoveTrack, TakeFails, history
  <2> QED BY <2>1 DEF HistoryGrows
<1>3. ASSUME NEW s \in Sessions, Answered(s) \/ NegotiationClosed(s) PROVE HistoryGrows
  <2>1. UNCHANGED <<orphaned, marred>>
    BY <1>3 DEF Answered, NegotiationClosed, history
  <2> QED BY <2>1 DEF HistoryGrows
<1>4. ASSUME NEW s \in Sessions, NegotiationFails(s) PROVE HistoryGrows
  BY <1>4 DEF NegotiationFails, HistoryGrows
<1>5. ASSUME NEW s \in Sessions, TracksEnd(s) PROVE HistoryGrows
  <2>1. UNCHANGED <<orphaned, marred>>
    BY <1>5 DEF TracksEnd, history
  <2> QED BY <2>1 DEF HistoryGrows
<1>6. ASSUME NEW s \in Sessions, StartTracks(s) PROVE HistoryGrows
  <2>1. PICK q \in [Sessions -> Seq(Messages)] : Enqueue(q)
    BY <1>6, SentByStart
  <2>2. marred \subseteq marred'
    BY <2>1, Enqueues DEF TrackTypes
  <2> QED BY <1>6, <2>2 DEF StartTracks, HistoryGrows
<1>7. ASSUME NEW s \in Sessions, Join(s) \/ CloseSignal(s) PROVE HistoryGrows
  <2>1. UNCHANGED <<orphaned, marred>>
    BY <1>7 DEF Join, CloseSignal, history
  <2> QED BY <2>1 DEF HistoryGrows
<1>8. ASSUME NEW s \in Sessions, CloseDetach(s) PROVE HistoryGrows
  <2>1. PICK q \in [Sessions -> Seq(Messages)] : Enqueue(q)
    BY <1>8, SentByClose
  <2>2. marred \subseteq marred'
    BY <2>1, Enqueues DEF TrackTypes
  <2> QED BY <1>8, <2>2 DEF CloseDetach, HistoryGrows
<1>9. ASSUME NEW s \in Sessions, NEW kind \in {"voice", "audio", "screen"}, OnTrack(s, kind) \/ StartShare(s)
      PROVE  HistoryGrows
  <2>1. UNCHANGED <<orphaned, marred>>
    BY <1>9 DEF OnTrack, StartShare, history
  <2> QED BY <2>1 DEF HistoryGrows
<1>10. ASSUME NEW s \in Sessions, ScreenOnLookup(s) \/ ScreenOn(s) \/ ScreenOffLookup(s)
      PROVE  HistoryGrows
  <2>1. UNCHANGED <<orphaned, marred>>
    BY <1>10 DEF ScreenOnLookup, ScreenOn, ScreenOffLookup, history
  <2> QED BY <2>1 DEF HistoryGrows
<1>11. ASSUME NEW s \in Sessions, ScreenOff(s) PROVE HistoryGrows
  <2>1. clearScreenState(s)
    BY <1>11 DEF ScreenOff
  <2>2. UNCHANGED marred \/ \E q \in [Sessions -> Seq(Messages)] : Enqueue(q)
    BY <2>1, SentByOff
  <2>3. marred \subseteq marred'
    BY <2>2, Enqueues DEF TrackTypes
  <2> QED BY <1>11, <2>3 DEF ScreenOff, HistoryGrows
<1>12. ASSUME NEW t \in Tracks, SetTrack(t) PROVE HistoryGrows
  BY <1>12 DEF SetTrack, HistoryGrows
<1>13. ASSUME NEW t \in Tracks, Announce(t) PROVE HistoryGrows
  <2>1. PICK q \in [Sessions -> Seq(Messages)] : Enqueue(q)
    BY <1>13, SentByAnnounce
  <2>2. marred \subseteq marred'
    BY <2>1, Enqueues DEF TrackTypes
  <2> QED BY <1>13, <2>2 DEF Announce, HistoryGrows
<1>14. \A t \in {h.track : h \in inFlight} : t \in Tracks
  BY DEF TrackTypes, Arrivals
<1> QED BY <1>1, <1>2, <1>3, <1>4, <1>5, <1>6, <1>7, <1>8, <1>9, <1>10, <1>11, <1>12,
           <1>13, <1>14 DEF Next, SessionStep

\* What is known of a track stays so, and a stray track stays stray.
LEMMA KnownStays ==
  ASSUME TrackTypes, Goes, NEW t \in Tracks, Known(t)
  PROVE  Known(t)'
<1>1. t.of \in Sessions /\ t.share \in Nat /\ share[t.of] \in Nat
  BY DEF Tracks, TrackTypes
<1>2. stage'[t.of] # "out" /\ share'[t.of] \in Nat /\ share[t.of] <= share'[t.of]
  BY <1>1 DEF Goes, Known
<1> QED BY <1>1, <1>2 DEF Known

\* A share that is over stays over.
LEMMA StrayStays ==
  ASSUME TrackTypes, Goes, NEW t \in Tracks, Known(t), stray(t)
  PROVE  stray(t)'
<1>1. t.of \in Sessions /\ t.share \in Nat /\ share[t.of] \in Nat /\ t.share <= share[t.of] /\ stage[t.of] # "out"
  BY DEF Tracks, TrackTypes, Known
<1>2. /\ t.of \in inCall' => t.of \in inCall
      /\ sharer' = t.of => (sharer = t.of /\ share'[t.of] = share[t.of]) \/ share'[t.of] = share[t.of] + 1
  BY <1>1 DEF Goes
<1> QED BY <1>1, <1>2 DEF stray

-----------------------------------------------------------------------------
(* Tracks that are queued are known, and listed.                           *)

\* KnownTracks is inductive.
LEMMA KnownKept ==
  ASSUME TrackTypes, ShareTypes, OwnTracks, Sharing, KnownTracks, [Next]_vars
  PROVE  KnownTracks'
<1>1. Goes /\ AddsCome /\ FlightsCome /\ ListsCome
  BY Onward, NewAdds, NewFlights, NewLists
<1>2. ASSUME NEW o \in Sessions, NEW t \in outTracks(o) PROVE t \in Tracks /\ Known(t)'
  <2>1. t \in Tracks /\ Known(t)
    BY OwnLists DEF KnownTracks
  <2> QED BY <1>1, <2>1, KnownStays
<1>3. ASSUME NEW h \in inFlight PROVE h.track \in Tracks /\ Known(h.track)'
  <2>1. h.track \in Tracks /\ Known(h.track)
    BY DEF KnownTracks, TrackTypes, Arrivals
  <2> QED BY <1>1, <2>1, KnownStays
<1>4. ASSUME NEW u \in Tracks, Known(u)', NEW t \in copies(u) PROVE Known(t)'
  <2>1. t.of = u.of /\ t.kind = u.kind /\ t.share = u.share
    BY CopiesOf
  <2> QED BY <1>4, <2>1 DEF Known
<1>5. ASSUME NEW h \in inFlight' PROVE Known(h.track)'
  <2>1. CASE h \in inFlight
    BY <1>3, <2>1
  <2>2. ASSUME NEW s \in Sessions, NEW kind \in {"voice", "audio", "screen"},
               OnTrack(s, kind), h.track \in classify(s, kind)
        PROVE  Known(h.track)'
    <3>1. h.track \in Tracks /\ h.track.of = s /\ share[s] \in Nat
      BY <2>2, Classified DEF TrackTypes
    <3>2. kind # "voice" => share[s] # 0
      BY <2>2 DEF OnTrack, Sharing
    <3>3. stage[s] # "out"
      BY <2>2 DEF OnTrack
    <3>4. h.track.share \in {0, share[s]} /\ (h.track.kind # "voice" => h.track.share = share[s] /\ kind # "voice")
      BY <2>2 DEF classify, Voice, Audio, Misheard, Screen
    <3>5. Known(h.track)
      BY <3>1, <3>2, <3>3, <3>4 DEF Known
    <3> QED BY <1>1, <3>1, <3>5, KnownStays
  <2>3. ASSUME NEW t \in Tracks, SetTrack(t), h = [track |-> t, step |-> "announce"] PROVE Known(h.track)'
    <3>1. [track |-> t, step |-> "set"] \in inFlight
      BY <2>3 DEF SetTrack
    <3> QED BY <1>3, <2>3, <3>1
  <2> QED BY <1>1, <2>1, <2>2, <2>3 DEF FlightsCome
<1>6. ASSUME NEW s \in Sessions, NEW m \in Range(tracksCh'[s]), m.action = "add" PROVE Known(m.track)'
  <2>1. CASE m \in Range(tracksCh[s])
    <3>1. m \in Messages
      BY <2>1, FiniteRange DEF TrackTypes
    <3>2. m.track \in Tracks /\ Known(m.track)
      BY <1>6, <2>1, <3>1, MessageKinds DEF KnownTracks
    <3> QED BY <1>1, <3>2, KnownStays
  <2>2. ASSUME NEW t \in Tracks, Announce(t), m.track \in copies(t) PROVE Known(m.track)'
    <3>1. [track |-> t, step |-> "announce"] \in inFlight
      BY <2>2 DEF Announce
    <3>2. Known(t)'
      BY <1>3, <3>1
    <3> QED BY <1>4, <2>2, <3>2
  <2>3. ASSUME NEW o \in inCall, m.track \in outTracks(o) PROVE Known(m.track)'
    BY <1>2, <2>3 DEF TrackTypes
  <2> QED BY <1>1, <1>6, <2>1, <2>2, <2>3 DEF AddsCome
<1>7. ASSUME NEW o \in Sessions, NEW t \in outTracks(o)' PROVE Known(t)'
  <2>1. ASSUME NEW u \in Tracks, SetTrack(u), t \in copies(u) PROVE Known(t)'
    <3>1. [track |-> u, step |-> "set"] \in inFlight
      BY <2>1 DEF SetTrack
    <3>2. Known(u)'
      BY <1>3, <3>1
    <3> QED BY <1>4, <2>1, <3>2
  <2> QED BY <1>1, <1>2, <2>1 DEF ListsCome
<1> QED BY <1>5, <1>6, <1>7, Zenon DEF KnownTracks

\* A track that is listed stays so, or is orphaned, or goes with a share or with
\* its session.
LEMMA ListedStays ==
  ASSUME TrackTypes, ShareTypes, OwnTracks, KnownTracks, [Next]_vars, NEW t \in Tracks, Listed(t)
  PROVE  \/ Listed(t)'
         \/ t \in orphaned'
         \/ CloseDetach(t.of)
         \/ ScreenOff(t.of) /\ screenSession = t.of /\ t.kind # "voice"
<1>1. t.of \in Sessions
  BY DEF Tracks
<1>2. t.of \in inCall' \/ CloseDetach(t.of)
  BY CallsLeft DEF Listed, CallsEnd
<1>3. t \in outTracks(t.of)' \/ t \in orphaned' \/ (ScreenOff(t.of) /\ screenSession = t.of /\ t.kind # "voice")
  BY <1>1, OldLists DEF ListsGo, Listed
<1> QED BY <1>2, <1>3 DEF Listed

\* What becomes of a share that ends in good order.
LEMMA OffEnds ==
  ASSUME TrackTypes, Sharing, NEW s \in Sessions, ScreenOff(s), screenSession = s
  PROVE  sharer = s /\ sharer' = Nil /\ s \in inCall
<1>1. reader = offOf(s)
  BY DEF ScreenOff, offOf
<1>2. s \in inCall
  BY <1>1 DEF Sharing
<1> QED BY <1>2 DEF Sharing, ScreenOff

\* So is QueuedListed.
LEMMA QueuedKept ==
  ASSUME TrackTypes, ShareTypes, OwnTracks, Sharing, KnownTracks, QueuedListed, [Next]_vars
  PROVE  QueuedListed'
<1>1. Goes /\ AddsCome /\ FlightsCome /\ HistoryGrows
  BY Onward, NewAdds, NewFlights, HistoryKept
<1>2. ASSUME NEW s \in Sessions, NEW m \in Range(tracksCh'[s]), m.action = "add"
      PROVE  m.track \in orphaned' \/ Listed(m.track)'
  <2>1. CASE m \in Range(tracksCh[s])
    <3>1. m \in Messages
      BY <2>1, FiniteRange DEF TrackTypes
    <3>2. m.track \in Tracks /\ Known(m.track) /\ (m.track \in orphaned \/ Listed(m.track))
      BY <1>2, <2>1, <3>1, MessageKinds DEF KnownTracks, QueuedListed
    <3>3. m.track \in queued
      BY <1>2, <2>1, Zenon DEF queued
    <3>4. CloseDetach(m.track.of) => m.track \in orphaned'
      BY <3>3 DEF CloseDetach
    <3>5. ScreenOff(m.track.of) /\ m.track.kind # "voice" => m.track \in orphaned'
      BY <3>2, <3>3 DEF ScreenOff, Known
    <3> QED BY <1>1, <3>2, <3>4, <3>5, ListedStays DEF HistoryGrows
  <2>2. ASSUME NEW t \in Tracks, Announce(t), m.track \in copies(t) PROVE m.track \in orphaned' \/ Listed(m.track)'
    <3>1. [track |-> t, step |-> "announce"] \in inFlight
      BY <2>2 DEF Announce
    <3>2. stray(t) \/ m.track \in orphaned \/ m.track \in outTracks(t.of)
      BY <2>2, <3>1 DEF QueuedListed
    <3>3. stray(t) => m.track \in orphaned'
      BY <2>2 DEF Announce, strayCopies
    <3>4. UNCHANGED <<inCall, outVoice, outAudio, outScreen>>
      BY <2>2 DEF Announce, call, outgoing
    <3>5. outTracks(t.of)' = outTracks(t.of)
      BY <3>4 DEF outTracks, screenTracks
    <3>6. m.track.of = t.of
      BY <2>2, CopiesOf
    <3>7. ~stray(t) => t.of \in inCall
      BY DEF stray
    <3> QED BY <1>1, <3>2, <3>3, <3>4, <3>5, <3>6, <3>7 DEF HistoryGrows, Listed
  <2>3. ASSUME NEW r \in Sessions, StartTracks(r), NEW o \in inCall, m.track \in outTracks(o) PROVE Listed(m.track)'
    <3>1. UNCHANGED <<inCall, outVoice, outAudio, outScreen>>
      BY <2>3 DEF StartTracks, outgoing
    <3>2. outTracks(o)' = outTracks(o)
      BY <3>1 DEF outTracks, screenTracks
    <3>3. m.track.of = o
      BY <2>3, OwnLists DEF TrackTypes
    <3> QED BY <2>3, <3>1, <3>2, <3>3 DEF Listed
  <2> QED BY <1>1, <1>2, <2>1, <2>2, <2>3 DEF AddsCome
<1>3. ASSUME NEW h \in inFlight', h.step = "announce"
      PROVE  stray(h.track)' \/ \A u \in copies(h.track) : u \in orphaned' \/ u \in outTracks(h.track.of)'
  <2>1. CASE h \in inFlight
    <3>1. h.track \in Tracks /\ Known(h.track) /\ h.track.of \in Sessions
      BY <2>1 DEF KnownTracks, TrackTypes, Arrivals, Tracks
    <3>2. CASE stray(h.track)
      BY <1>1, <3>1, <3>2, StrayStays
    <3>3. CASE ScreenOff(h.track.of) /\ screenSession = h.track.of /\ h.track.kind # "voice"
      <4>1. sharer' = Nil
        BY <3>1, <3>3, OffEnds
      <4>2. h.track.share # 0 /\ h.track.of # Nil
        BY <3>1, <3>3, TracksAssumption DEF Known
      <4> QED BY <4>1, <4>2 DEF stray
    <3>4. ASSUME \A u \in copies(h.track) : u \in orphaned \/ u \in outTracks(h.track.of),
                 ~(ScreenOff(h.track.of) /\ screenSession = h.track.of /\ h.track.kind # "voice")
          PROVE  \A u \in copies(h.track) : u \in orphaned' \/ u \in outTracks(h.track.of)'
      <4>1. \A u \in copies(h.track) : u.kind = h.track.kind
        BY <3>1, CopiesOf
      <4>2. \A u \in outTracks(h.track.of) : \/ u \in outTracks(h.track.of)' \/ u \in orphaned'
                                             \/ ScreenOff(h.track.of) /\ screenSession = h.track.of /\ u.kind # "voice"
        BY <3>1, OldLists DEF ListsGo
      <4> QED BY <1>1, <3>4, <4>1, <4>2 DEF HistoryGrows
    <3> QED BY <1>3, <2>1, <3>2, <3>3, <3>4 DEF QueuedListed
  <2>2. ASSUME NEW t \in Tracks, SetTrack(t), h = [track |-> t, step |-> "announce"]
        PROVE  \A u \in copies(h.track) : u \in outTracks(h.track.of)'
    <3>1. isVideo(t) => t.share # 0
      BY <2>2 DEF SetTrack, KnownTracks, Known, isVideo
    <3>2. copies(t) \subseteq outTracks(t.of)'
      BY <2>2, <3>1, SetLists
    <3> QED BY <2>2, <3>2
  <2>3. h.step # "set"
    BY <1>3
  <2> QED BY <1>1, <2>1, <2>2, <2>3 DEF FlightsCome
<1> QED BY <1>2, <1>3, Zenon DEF QueuedListed

-----------------------------------------------------------------------------
(* The screens that are listed.                                            *)

\* How a share ends.
LEMMA SharesEnded ==
  ASSUME TrackTypes, [Next]_vars
  PROVE  SharesEnd
<1>1. CASE UNCHANGED vars
  <2>1. UNCHANGED <<sharer, share>>
    BY <1>1 DEF vars, client
  <2> QED BY <2>1 DEF SharesEnd
<1>2. ASSUME NEW s \in Sessions, AddRefused(s) \/ AddTrack(s) \/ RemoveTrack(s) \/ TakeFails(s)
      PROVE  SharesEnd
  <2>1. UNCHANGED <<sharer, share>>
    BY <1>2 DEF AddRefused, AddTrack, RemoveTrack, TakeFails, client
  <2> QED BY <2>1 DEF SharesEnd
<1>3. ASSUME NEW s \in Sessions, Answered(s) \/ NegotiationFails(s) \/ NegotiationClosed(s)
      PROVE  SharesEnd
  <2>1. UNCHANGED <<sharer, share>>
    BY <1>3 DEF Answered, NegotiationFails, NegotiationClosed, client
  <2> QED BY <2>1 DEF SharesEnd
<1>4. ASSUME NEW s \in Sessions, StartTracks(s) \/ TracksEnd(s) PROVE SharesEnd
  <2>1. UNCHANGED <<sharer, share>>
    BY <1>4 DEF StartTracks, TracksEnd, client
  <2> QED BY <2>1 DEF SharesEnd
<1>5. ASSUME NEW s \in Sessions, Join(s) \/ CloseSignal(s) PROVE SharesEnd
  <2>1. UNCHANGED <<sharer, share>>
    BY <1>5 DEF Join, CloseSignal, client
  <2> QED BY <2>1 DEF SharesEnd
<1>6. ASSUME NEW s \in Sessions, CloseDetach(s) PROVE SharesEnd
  <2>1. share' = share /\ sharer' = IF sharer = s THEN Nil ELSE sharer
    BY <1>6 DEF CloseDetach
  <2> QED BY <1>6, <2>1, Zenon DEF SharesEnd
<1>7. ASSUME NEW s \in Sessions, NEW kind \in {"voice", "audio", "screen"}, OnTrack(s, kind)
      PROVE  SharesEnd
  <2>1. UNCHANGED <<sharer, share>>
    BY <1>7 DEF OnTrack, client
  <2> QED BY <2>1 DEF SharesEnd
<1>8. ASSUME NEW s \in Sessions, StartShare(s) PROVE SharesEnd
  <2>1. sharer = Nil
    BY <1>8 DEF StartShare
  <2> QED BY <2>1, TracksAssumption DEF SharesEnd
<1>9. ASSUME NEW s \in Sessions, ScreenOnLookup(s) \/ ScreenOn(s) \/ ScreenOffLookup(s)
      PROVE  SharesEnd
  <2>1. UNCHANGED <<sharer, share>>
    BY <1>9 DEF ScreenOnLookup, ScreenOn, ScreenOffLookup, client
  <2> QED BY <2>1 DEF SharesEnd
<1>10. ASSUME NEW s \in Sessions, ScreenOff(s) PROVE SharesEnd
  <2>1. share' = share /\ sharer' = IF sharer = s THEN Nil ELSE sharer
    BY <1>10 DEF ScreenOff
  <2> QED BY <1>10, <2>1, Zenon DEF SharesEnd
<1>11. ASSUME NEW t \in Tracks, SetTrack(t) \/ Announce(t) PROVE SharesEnd
  <2>1. UNCHANGED <<sharer, share>>
    BY <1>11 DEF SetTrack, Announce, client
  <2> QED BY <2>1 DEF SharesEnd
<1>12. \A t \in {h.track : h \in inFlight} : t \in Tracks
  BY DEF TrackTypes, Arrivals
<1> QED BY <1>1, <1>2, <1>3, <1>4, <1>5, <1>6, <1>7, <1>8, <1>9, <1>10, <1>11, <1>12 DEF Next,
           SessionStep

\* Nothing but the session itself takes it from screenSession.
LEMMA StuckKept ==
  ASSUME TrackTypes, Sharing, [Next]_vars
  PROVE  StuckLasts
<1>1. CASE UNCHANGED vars
  <2>1. UNCHANGED screenSession
    BY <1>1 DEF vars, call
  <2> QED BY <2>1 DEF StuckLasts
<1>2. ASSUME NEW s \in Sessions, AddRefused(s) \/ AddTrack(s) \/ RemoveTrack(s) \/ TakeFails(s)
      PROVE  StuckLasts
  <2>1. UNCHANGED screenSession
    BY <1>2 DEF AddRefused, AddTrack, RemoveTrack, TakeFails, call
  <2> QED BY <2>1 DEF StuckLasts
<1>3. ASSUME NEW s \in Sessions, Answered(s) \/ NegotiationFails(s) \/ NegotiationClosed(s)
      PROVE  StuckLasts
  <2>1. UNCHANGED screenSession
    BY <1>3 DEF Answered, NegotiationFails, NegotiationClosed, call
  <2> QED BY <2>1 DEF StuckLasts
<1>4. ASSUME NEW s \in Sessions, StartTracks(s) \/ TracksEnd(s) PROVE StuckLasts
  <2>1. UNCHANGED screenSession
    BY <1>4 DEF StartTracks, TracksEnd, call
  <2> QED BY <2>1 DEF StuckLasts
<1>5. ASSUME NEW s \in Sessions, Join(s) \/ CloseSignal(s) PROVE StuckLasts
  <2>1. UNCHANGED screenSession
    BY <1>5 DEF Join, CloseSignal, call
  <2> QED BY <2>1 DEF StuckLasts
<1>6. ASSUME NEW s \in Sessions, CloseDetach(s) PROVE StuckLasts
  <2>1. s \in inCall /\ screenSession' = IF screenSession = s THEN Nil ELSE screenSession
    BY <1>6 DEF CloseDetach, screenWithout
  <2> QED BY <2>1 DEF StuckLasts, Stuck
<1>7. ASSUME NEW s \in Sessions, NEW kind \in {"voice", "audio", "screen"}, OnTrack(s, kind) \/ StartShare(s)
      PROVE  StuckLasts
  <2>1. UNCHANGED screenSession
    BY <1>7 DEF OnTrack, StartShare, call
  <2> QED BY <2>1 DEF StuckLasts
<1>8. ASSUME NEW s \in Sessions, ScreenOnLookup(s) \/ ScreenOffLookup(s) PROVE StuckLasts
  <2>1. UNCHANGED screenSession
    BY <1>8 DEF ScreenOnLookup, ScreenOffLookup, call
  <2> QED BY <2>1 DEF StuckLasts
<1>9. ASSUME NEW s \in Sessions, ScreenOn(s) PROVE StuckLasts
  <2>1. screenSession' = IF screenSession = Nil THEN s ELSE screenSession
    BY <1>9 DEF ScreenOn, setScreenSession
  <2> QED BY <2>1 DEF StuckLasts, Stuck
<1>10. ASSUME NEW s \in Sessions, ScreenOff(s) PROVE StuckLasts
  <2>1. screenSession # s => screenSession' = screenSession
    BY <1>10 DEF ScreenOff, clearScreenState
  <2>2. screenSession = s => s \in inCall
    BY <1>10, OffEnds
  <2> QED BY <2>1, <2>2 DEF StuckLasts, Stuck
<1>11. ASSUME NEW t \in Tracks, SetTrack(t) \/ Announce(t) PROVE StuckLasts
  <2>1. UNCHANGED screenSession
    BY <1>11 DEF SetTrack, Announce, call
  <2> QED BY <2>1 DEF StuckLasts
<1>12. \A t \in {h.track : h \in inFlight} : t \in Tracks
  BY DEF TrackTypes, Arrivals
<1> QED BY <1>1, <1>2, <1>3, <1>4, <1>5, <1>6, <1>7, <1>8, <1>9, <1>10, <1>11, <1>12 DEF Next,
           SessionStep

\* A screen session that left the call stays the screen session.
LEMMA StuckStays ==
  ASSUME TrackTypes, ShareTypes, OwnTracks, Sharing, Stuck, [Next]_vars
  PROVE  Stuck' /\ screenSession' = screenSession /\ screenSession \in Sessions
<1>1. screenSession \in Sessions /\ stage[screenSession] # "out" /\ screenSession # Nil
  BY DEF Stuck, ShareTypes, Sharing
<1>2. screenSession' = screenSession
  BY StuckKept DEF StuckLasts
<1>3. screenSession \notin inCall'
  BY <1>1, Onward DEF Goes, Stuck
<1> QED BY <1>1, <1>2, <1>3 DEF Stuck

\* Nobody shares: no screen is of the share that is on.
LEMMA QuietAfter ==
  ASSUME TrackTypes', KnownTracks', OwnTracks', sharer' = Nil
  PROVE  Quiet'
<1>1. ASSUME NEW t, t.of \in Sessions, isVideo(t), Known(t)' PROVE stray(t)'
  <2>1. t.share # 0 /\ t.of # Nil
    BY <1>1, TracksAssumption DEF Known, isVideo
  <2> QED BY <2>1 DEF stray
<1>2. \A h \in inFlight' : h.track.of \in Sessions /\ Known(h.track)'
  BY DEF TrackTypes, Arrivals, Tracks, KnownTracks
<1>3. ASSUME NEW s \in Sessions, NEW m \in Range(tracksCh'[s]), m.action = "add"
      PROVE  m.track.of \in Sessions /\ Known(m.track)'
  <2>1. m \in Messages
    BY FiniteRange DEF TrackTypes
  <2> QED BY <1>3, <2>1, MessageKinds DEF Tracks, KnownTracks
<1>4. ASSUME NEW o \in Sessions, NEW t \in screenTracks(o)' PROVE t.of \in Sessions /\ isVideo(t) /\ Known(t)'
  <2>1. t \in outTracks(o)'
    BY InLists
  <2>2. PICK i \in 1..NumCPU : t = Screen(o, outScreen'[o], i)
    BY Zenon DEF screenTracks
  <2> QED BY <2>1, <2>2 DEF KnownTracks, Screen, isVideo
<1> QED BY <1>1, <1>2, <1>3, <1>4 DEF Quiet

\* Once the screen session is stuck, OnTrack turns every screen down.
LEMMA QuietStays ==
  ASSUME TrackTypes, ShareTypes, OwnTracks, Sharing, KnownTracks, Stuck, Quiet, [Next]_vars
  PROVE  Quiet'
<1>1. Goes /\ AddsCome /\ FlightsCome /\ ListsCome
  BY Onward, NewAdds, NewFlights, NewLists
<1>2. ASSUME NEW h \in inFlight, isVideo(h.track) PROVE h.track \in Tracks /\ stray(h.track)'
  <2>1. h.track \in Tracks /\ Known(h.track) /\ stray(h.track)
    BY <1>2 DEF KnownTracks, TrackTypes, Arrivals, Quiet
  <2> QED BY <1>1, <2>1, StrayStays
<1>3. ASSUME NEW o \in Sessions, NEW t \in outTracks(o), isVideo(t) PROVE stray(t)'
  <2>1. t \in Tracks /\ Known(t) /\ t \in screenTracks(o)
    BY <1>3, OwnLists DEF KnownTracks
  <2> QED BY <1>1, <2>1, StrayStays DEF Quiet
<1>4. ASSUME NEW u \in Tracks, NEW t \in copies(u) PROVE (isVideo(t) <=> isVideo(u)) /\ (stray(u)' => stray(t)')
  <2>1. t.of = u.of /\ t.share = u.share /\ t.kind = u.kind
    BY CopiesOf
  <2> QED BY <2>1 DEF stray, isVideo
<1>5. ASSUME NEW h \in inFlight', isVideo(h.track) PROVE stray(h.track)'
  <2>1. CASE h \in inFlight
    BY <1>2, <1>5, <2>1
  <2>2. ASSUME NEW s \in Sessions, NEW kind \in {"voice", "audio", "screen"},
               OnTrack(s, kind), h.track \in classify(s, kind)
        PROVE  stray(h.track)'
    <3>1. screenStream = <<screenSession, streamID[screenSession]>> /\ screenStream # Nil
      <4>1. screenSession # Nil /\ streamID[screenSession] # 0 /\ screenSession \in Sessions
        BY DEF Stuck, Sharing, ShareTypes
      <4>2. screenStream = <<screenSession, streamID[screenSession]>>
        BY <4>1, Zenon DEF screenStream
      <4>3. <<screenSession, streamID[screenSession]>> \in Sessions \X Nat
        BY <4>1 DEF ShareTypes
      <4> QED BY <4>2, <4>3, TracksAssumption
    <3>2. kind = "screen"
      BY <1>5, <2>2 DEF classify, isVideo, Voice, Audio, Misheard
    <3>3. screenStream = <<s, share[s]>>
      BY <2>2, <3>1, <3>2 DEF classify
    <3>4. s \notin inCall
      BY <3>1, <3>3 DEF Stuck
    <3>5. h.track.of = s
      BY <2>2, Classified DEF TrackTypes
    <3>6. inCall' = inCall
      BY <2>2 DEF OnTrack, call
    <3> QED BY <3>4, <3>5, <3>6 DEF stray
  <2>3. ASSUME NEW t \in Tracks, SetTrack(t), h = [track |-> t, step |-> "announce"] PROVE stray(h.track)'
    <3>1. [track |-> t, step |-> "set"] \in inFlight
      BY <2>3 DEF SetTrack
    <3> QED BY <1>2, <1>5, <2>3, <3>1
  <2> QED BY <1>1, <2>1, <2>2, <2>3 DEF FlightsCome
<1>6. ASSUME NEW s \in Sessions, NEW m \in Range(tracksCh'[s]), m.action = "add", isVideo(m.track) PROVE stray(m.track)'
  <2>1. CASE m \in Range(tracksCh[s])
    <3>1. m \in Messages
      BY <2>1, FiniteRange DEF TrackTypes
    <3>2. m.track \in Tracks /\ Known(m.track) /\ stray(m.track)
      BY <1>6, <2>1, <3>1, MessageKinds DEF KnownTracks, Quiet
    <3> QED BY <1>1, <3>2, StrayStays
  <2>2. ASSUME NEW t \in Tracks, Announce(t), m.track \in copies(t) PROVE stray(m.track)'
    <3>1. [track |-> t, step |-> "announce"] \in inFlight /\ isVideo(t)
      BY <1>4, <1>6, <2>2 DEF Announce
    <3>2. stray(t)'
      BY <1>2, <3>1
    <3> QED BY <1>4, <2>2, <3>2
  <2>3. ASSUME NEW o \in inCall, m.track \in outTracks(o) PROVE stray(m.track)'
    BY <1>3, <1>6, <2>3 DEF TrackTypes
  <2> QED BY <1>1, <1>6, <2>1, <2>2, <2>3 DEF AddsCome
<1>7. ASSUME NEW o \in Sessions, NEW t \in screenTracks(o)' PROVE stray(t)'
  <2>1. t \in outTracks(o)'
    BY InLists
  <2>2. isVideo(t)
    BY ScreensOf
  <2>3. ASSUME NEW u \in Tracks, SetTrack(u), t \in copies(u) PROVE stray(t)'
    <3>1. [track |-> u, step |-> "set"] \in inFlight /\ isVideo(u)
      BY <1>4, <2>2, <2>3 DEF SetTrack
    <3>2. stray(u)'
      BY <1>2, <3>1
    <3> QED BY <1>4, <2>3, <3>2
  <2> QED BY <1>1, <1>3, <2>1, <2>2, <2>3 DEF ListsCome
<1> QED BY <1>5, <1>6, <1>7, Zenon DEF Quiet

\* ScreensCurrent is inductive: clearScreenState does nothing for a session that shares only
\* when the screen session is stuck.
LEMMA ScreensKept ==
  ASSUME TrackTypes, ShareTypes, OwnTracks, Sharing, KnownTracks, ScreensCurrent, [Next]_vars
  PROVE  ScreensCurrent'
<1>1. CASE Stuck /\ Quiet
  BY <1>1, StuckStays, QuietStays DEF ScreensCurrent
<1>2. CASE \A o \in inCall : \A t \in screenTracks(o) \ orphaned : Current(t)
  <2> SUFFICES ASSUME NEW o \in inCall', NEW t \in screenTracks(o)' \ orphaned', ~Current(t)' PROVE Stuck' /\ Quiet'
    BY Zenon DEF ScreensCurrent
  <2>1. TrackTypes' /\ OwnTracks' /\ KnownTracks' /\ Goes /\ ListsCome /\ HistoryGrows /\ SharesEnd
    BY TypesKept, OwnKept, KnownKept, Onward, NewLists, HistoryKept, SharesEnded
  <2>2. o \in Sessions /\ t \in outTracks(o)'
    BY <2>1, InLists DEF TrackTypes
  <2>3. isVideo(t) /\ t.of = o /\ t.share = outScreen'[o] /\ outScreen'[o] # 0
    BY ScreensOf
  <2>4. ~\E u \in Tracks : SetTrack(u) /\ u.of = o /\ t \in copies(u)
    <3> SUFFICES ASSUME NEW u \in Tracks, SetTrack(u), u.of = o, t \in copies(u) PROVE FALSE
      OBVIOUS
    <3>1. t.share = u.share
      BY CopiesOf
    <3>2. ~stray(u)
      BY DEF SetTrack, strayCopies
    <3>3. sharer = o /\ share[o] = t.share
      BY <2>3, <3>1, <3>2 DEF stray
    <3>4. UNCHANGED <<sharer, share>>
      BY DEF SetTrack, client
    <3> QED BY <2>3, <3>3, <3>4 DEF Current
  <2>5. t \in outTracks(o) /\ t \in screenTracks(o) /\ Known(t)
    <3>1. t \in outTracks(o)
      BY <2>1, <2>2, <2>4 DEF ListsCome
    <3> QED BY <2>2, <2>3, <3>1, OwnLists DEF KnownTracks
  <2>6. o \in inCall /\ t \notin orphaned
    BY <2>1, <2>2, <2>3, <2>5 DEF Goes, Known, HistoryGrows
  <2>7. sharer = o /\ share[o] = t.share
    BY <1>2, <2>3, <2>5, <2>6 DEF Current
  <2>8. ~CloseDetach(o)
    BY DEF CloseDetach
  <2>9. ScreenOff(o) /\ sharer' = Nil
    BY <2>1, <2>2, <2>3, <2>7, <2>8 DEF SharesEnd, Current
  <2>10. screenSession # o
    <3>1. screenSession = o => outScreen' = [outScreen EXCEPT ![o] = 0]
      BY <2>9, Zenon DEF ScreenOff, clearScreenState
    <3> QED BY <2>2, <2>3, <3>1 DEF TrackTypes
  <2>11. Stuck
    <3>1. reader = offOf(o) /\ offOf(o) # onOf(o)
      BY <2>9 DEF ScreenOff, offOf, onOf
    <3>2. "on" \notin coming[o]
      BY <2>2, <2>6, <3>1 DEF Sharing
    <3> QED BY <2>2, <2>7, <2>10, <3>1, <3>2 DEF Sharing
  <2> QED BY <2>1, <2>9, <2>11, StuckStays, QuietAfter
<1> QED BY <1>1, <1>2 DEF ScreensCurrent

-----------------------------------------------------------------------------
(* The senders of a session.                                               *)

\* Only addTrack makes a sender.
LEMMA NewSenders ==
  ASSUME TrackTypes, [Next]_vars
  PROVE  SendersCome
<1>1. CASE UNCHANGED vars
  <2>1. UNCHANGED senders
    BY <1>1 DEF vars, receiving
  <2> QED BY <2>1 DEF SendersCome
<1>2. ASSUME NEW s \in Sessions, AddRefused(s) \/ TakeFails(s) PROVE SendersCome
  <2>1. UNCHANGED senders
    BY <1>2 DEF AddRefused, TakeFails, receiving
  <2> QED BY <2>1 DEF SendersCome
<1>3. ASSUME NEW s \in Sessions, AddTrack(s) PROVE SendersCome
  <2>1. senders' = [senders EXCEPT ![s] = @ \cup {Head(tracksCh[s]).track}]
    BY <1>3 DEF AddTrack
  <2> QED BY <1>3, <2>1 DEF SendersCome, TrackTypes
<1>4. ASSUME NEW s \in Sessions, RemoveTrack(s) PROVE SendersCome
  <2>1. senders' = [senders EXCEPT ![s] = @ \ {Head(tracksCh[s]).track}]
    BY <1>4 DEF RemoveTrack
  <2> QED BY <2>1 DEF SendersCome, TrackTypes
<1>5. ASSUME NEW s \in Sessions, Answered(s) \/ NegotiationClosed(s) PROVE SendersCome
  <2>1. UNCHANGED senders
    BY <1>5 DEF Answered, NegotiationClosed, receiving
  <2> QED BY <2>1 DEF SendersCome
<1>6. ASSUME NEW s \in Sessions, NegotiationFails(s) PROVE SendersCome
  <2>1. senders' = senders \/ senders' = [senders EXCEPT ![s] = @ \ {negotiating[s].track}]
    BY <1>6 DEF NegotiationFails
  <2> QED BY <2>1, ZenonT(20) DEF SendersCome, TrackTypes
<1>7. ASSUME NEW s \in Sessions, StartTracks(s) \/ TracksEnd(s) PROVE SendersCome
  <2>1. UNCHANGED senders
    BY <1>7 DEF StartTracks, TracksEnd, receiving
  <2> QED BY <2>1 DEF SendersCome
<1>8. ASSUME NEW s \in Sessions, Join(s) \/ CloseSignal(s) PROVE SendersCome
  <2>1. UNCHANGED senders
    BY <1>8 DEF Join, CloseSignal, receiving
  <2> QED BY <2>1 DEF SendersCome
<1>9. ASSUME NEW s \in Sessions, CloseDetach(s) PROVE SendersCome
  <2>1. \A r \in Sessions : senders'[r] \in {{}, sendersWithout(r, s), senders[r]}
    BY <1>9 DEF CloseDetach
  <2>2. \A r \in Sessions : sendersWithout(r, s) \subseteq senders[r]
    BY DEF sendersWithout
  <2> QED BY <2>1, <2>2 DEF SendersCome
<1>10. ASSUME NEW s \in Sessions, NEW kind \in {"voice", "audio", "screen"}, OnTrack(s, kind) \/ StartShare(s)
      PROVE  SendersCome
  <2>1. UNCHANGED senders
    BY <1>10 DEF OnTrack, StartShare, receiving
  <2> QED BY <2>1 DEF SendersCome
<1>11. ASSUME NEW s \in Sessions, ScreenOnLookup(s) \/ ScreenOn(s) \/ ScreenOffLookup(s) \/ ScreenOff(s)
      PROVE  SendersCome
  <2>1. UNCHANGED senders
    BY <1>11 DEF ScreenOnLookup, ScreenOn, ScreenOffLookup, ScreenOff, receiving
  <2> QED BY <2>1 DEF SendersCome
<1>12. ASSUME NEW t \in Tracks, SetTrack(t) \/ Announce(t) PROVE SendersCome
  <2>1. UNCHANGED senders
    BY <1>12 DEF SetTrack, Announce, receiving
  <2> QED BY <2>1 DEF SendersCome
<1>13. \A t \in {h.track : h \in inFlight} : t \in Tracks
  BY DEF TrackTypes, Arrivals
<1> QED BY <1>1, <1>2, <1>3, <1>4, <1>5, <1>6, <1>7, <1>8, <1>9, <1>10, <1>11, <1>12, <1>13 DEF
           Next, SessionStep

\* A removal that is taken removes the sender, or there was none.
LEMMA RemovalsKept ==
  ASSUME TrackTypes, OwnTracks, [Next]_vars
  PROVE  RemovalsStay
<1>1. CASE UNCHANGED vars
  <2>1. UNCHANGED tracksCh
    BY <1>1 DEF vars
  <2> QED BY <2>1, Zenon DEF RemovalsStay
<1>2. ASSUME NEW s \in Sessions, AddRefused(s) PROVE RemovalsStay
  <2>1. tracksCh[s] # <<>> /\ took(s) /\ Head(tracksCh[s]).action = "add"
    BY <1>2 DEF AddRefused, next
  <2> QED BY <2>1, HeadTaken, MessageParts, ZenonT(20) DEF RemovalsStay, TrackTypes
<1>3. ASSUME NEW s \in Sessions, AddTrack(s) PROVE RemovalsStay
  <2>1. tracksCh[s] # <<>> /\ took(s) /\ Head(tracksCh[s]).action = "add"
    BY <1>3 DEF AddTrack, next
  <2> QED BY <2>1, HeadTaken, MessageParts DEF RemovalsStay, TrackTypes
<1>4. ASSUME NEW s \in Sessions, RemoveTrack(s) PROVE RemovalsStay
  <2>1. tracksCh[s] # <<>> /\ took(s) /\ senders'[s] = senders[s] \ {Head(tracksCh[s]).track}
    BY <1>4 DEF RemoveTrack, next, TrackTypes
  <2>2. \A t \in senders'[s] : RemoveOf(t) # Head(tracksCh[s])
    BY <2>1, MessageParts
  <2> QED BY <2>1, <2>2, HeadTaken DEF RemovalsStay, TrackTypes
<1>5. ASSUME NEW s \in Sessions, TakeFails(s) PROVE RemovalsStay
  <2>1. tracksCh[s] # <<>> /\ took(s) /\ senders' = senders
    BY <1>5 DEF TakeFails, next, receiving
  <2>2. s \in inCall => Head(tracksCh[s]).track \notin senders[s]
    BY <1>5 DEF TakeFails, OwnTracks, TrackTypes
  <2>3. s \in inCall => \A t \in senders'[s] : RemoveOf(t) # Head(tracksCh[s])
    BY <2>1, <2>2, MessageParts
  <2> QED BY <2>1, <2>3, HeadTaken DEF RemovalsStay, TrackTypes
<1>6. ASSUME NEW s \in Sessions, Answered(s) \/ NegotiationFails(s) \/ NegotiationClosed(s)
      PROVE  RemovalsStay
  <2>1. UNCHANGED tracksCh
    BY <1>6 DEF Answered, NegotiationFails, NegotiationClosed
  <2> QED BY <2>1, Zenon DEF RemovalsStay
<1>7. ASSUME NEW s \in Sessions, TracksEnd(s) PROVE RemovalsStay
  <2>1. UNCHANGED tracksCh
    BY <1>7 DEF TracksEnd
  <2> QED BY <2>1, Zenon DEF RemovalsStay
<1>8. ASSUME NEW s \in Sessions, StartTracks(s) PROVE RemovalsStay
  <2>1. PICK q \in [Sessions -> Seq(Messages)] : Enqueue(q)
    BY <1>8, SentByStart
  <2> QED BY <2>1, Enqueues DEF RemovalsStay, TrackTypes
<1>9. ASSUME NEW s \in Sessions, Join(s) \/ CloseSignal(s) PROVE RemovalsStay
  <2>1. UNCHANGED tracksCh
    BY <1>9 DEF Join, CloseSignal
  <2> QED BY <2>1, Zenon DEF RemovalsStay
<1>10. ASSUME NEW s \in Sessions, CloseDetach(s) PROVE RemovalsStay
  <2>1. PICK q \in [Sessions -> Seq(Messages)] : Enqueue(q)
    BY <1>10, SentByClose
  <2> QED BY <2>1, Enqueues DEF RemovalsStay, TrackTypes
<1>11. ASSUME NEW s \in Sessions, NEW kind \in {"voice", "audio", "screen"}, OnTrack(s, kind) \/ StartShare(s)
      PROVE  RemovalsStay
  <2>1. UNCHANGED tracksCh
    BY <1>11 DEF OnTrack, StartShare
  <2> QED BY <2>1, Zenon DEF RemovalsStay
<1>12. ASSUME NEW s \in Sessions, ScreenOnLookup(s) \/ ScreenOn(s) \/ ScreenOffLookup(s)
      PROVE  RemovalsStay
  <2>1. UNCHANGED tracksCh
    BY <1>12 DEF ScreenOnLookup, ScreenOn, ScreenOffLookup
  <2> QED BY <2>1, Zenon DEF RemovalsStay
<1>13. ASSUME NEW s \in Sessions, ScreenOff(s) PROVE RemovalsStay
  <2>1. clearScreenState(s)
    BY <1>13 DEF ScreenOff
  <2>2. UNCHANGED tracksCh \/ \E q \in [Sessions -> Seq(Messages)] : Enqueue(q)
    BY <2>1, SentByOff
  <2> QED BY <2>2, Enqueues DEF RemovalsStay, TrackTypes
<1>14. ASSUME NEW t \in Tracks, SetTrack(t) PROVE RemovalsStay
  <2>1. UNCHANGED tracksCh
    BY <1>14 DEF SetTrack
  <2> QED BY <2>1, Zenon DEF RemovalsStay
<1>15. ASSUME NEW t \in Tracks, Announce(t) PROVE RemovalsStay
  <2>1. PICK q \in [Sessions -> Seq(Messages)] : Enqueue(q)
    BY <1>15, SentByAnnounce
  <2> QED BY <2>1, Enqueues DEF RemovalsStay, TrackTypes
<1>16. \A t \in {h.track : h \in inFlight} : t \in Tracks
  BY DEF TrackTypes, Arrivals
<1> QED BY <1>1, <1>2, <1>3, <1>4, <1>5, <1>6, <1>7, <1>8, <1>9, <1>10, <1>11, <1>12,
           <1>13, <1>14, <1>15, <1>16 DEF Next, SessionStep

\* FromOthers is inductive.
LEMMA OthersKept ==
  ASSUME TrackTypes, OwnTracks, FromOthers, [Next]_vars
  PROVE  FromOthers'
<1>1. AddsCome /\ SendersCome
  BY NewAdds, NewSenders
<1>2. ASSUME NEW s \in Sessions, NEW t \in senders'[s] PROVE t.of # s
  <2>1. ASSUME AddTrack(s), t = Head(tracksCh[s]).track PROVE t.of # s
    <3>1. tracksCh[s] # <<>> /\ Head(tracksCh[s]).action = "add"
      BY <2>1 DEF AddTrack, next
    <3>2. Head(tracksCh[s]) \in Range(tracksCh[s])
      BY <3>1, Taking DEF TrackTypes
    <3> QED BY <2>1, <3>1, <3>2 DEF FromOthers
  <2> QED BY <1>1, <2>1 DEF SendersCome, FromOthers
<1>3. ASSUME NEW s \in Sessions, NEW m \in Range(tracksCh'[s]), m.action = "add" PROVE m.track.of # s
  <2>1. CASE m \in Range(tracksCh[s])
    BY <1>3, <2>1 DEF FromOthers
  <2>2. ASSUME NEW t \in Tracks, t.of # s, m.track \in copies(t) PROVE m.track.of # s
    BY <2>2, CopiesOf
  <2>3. ASSUME NEW o \in inCall \ {s}, m.track \in outTracks(o) PROVE m.track.of # s
    BY <2>3, OwnLists DEF TrackTypes
  <2> QED BY <1>1, <1>3, <2>1, <2>2, <2>3 DEF AddsCome
<1> QED BY <1>2, <1>3, Zenon DEF FromOthers

\* SenderPart of a session that a step leaves alone.
LEMMA PartSame ==
  ASSUME NEW r, SenderPart(r), stage'[r] = "out" => stage[r] = "out", r \in inCall' => r \in inCall,
         senders'[r] = senders[r], screenSender'[r] = screenSender[r], negotiating'[r] = negotiating[r]
  PROVE  SenderPart(r)'
BY DEF SenderPart

\* The actions of the messages and of Idle.
LEMMA MessageActions ==
  /\ Idle.action = "idle"
  /\ \A t : AddOf(t).action = "add" /\ AddOf(t).track = t /\ RemoveOf(t).action = "remove"
BY DEF Idle, AddOf, RemoveOf

\* screenTrackSender is of a screen.
LEMMA SenderIsScreen ==
  ASSUME TrackTypes, NEW s \in Sessions, screenSender[s] # Nil
  PROVE  screenSender[s] \in Tracks /\ isVideo(screenSender[s])
BY DEF TrackTypes, Screens

\* SenderParts is inductive.
LEMMA PartsKept ==
  ASSUME TrackTypes, OwnTracks, SenderParts, [Next]_vars
  PROVE  SenderParts'
<1>1. CASE UNCHANGED vars
  <2>1. UNCHANGED <<stage, inCall, senders, screenSender, negotiating>>
    BY <1>1 DEF vars, call, receiving
  <2> QED BY <2>1 DEF SenderParts, SenderPart
<1>2. ASSUME NEW s \in Sessions, AddRefused(s) \/ TakeFails(s) PROVE SenderParts'
  <2>1. UNCHANGED <<stage, inCall, senders, screenSender, negotiating>>
    BY <1>2 DEF AddRefused, TakeFails, call, receiving
  <2> QED BY <2>1 DEF SenderParts, SenderPart
<1>3. ASSUME NEW s \in Sessions, AddTrack(s) PROVE SenderParts'
  <2>1. /\ stage[s] = "tracking" /\ stage' = stage /\ inCall' = inCall
        /\ senders' = [senders EXCEPT ![s] = @ \cup {Head(tracksCh[s]).track}]
        /\ screenSender' = screenSender
        /\ negotiating' = [negotiating EXCEPT ![s] = AddOf(Head(tracksCh[s]).track)]
        /\ isVideo(Head(tracksCh[s]).track) => screenSender[s] = Nil
    BY <1>3 DEF AddTrack, atLoop, refuses, call
  <2>2. SenderPart(s)'
    BY <2>1, MessageActions DEF SenderParts, SenderPart, TrackTypes
  <2>3. \A r \in Sessions : r # s => SenderPart(r)'
    BY <2>1, PartSame DEF SenderParts, TrackTypes
  <2> QED BY <2>2, <2>3 DEF SenderParts
<1>4. ASSUME NEW s \in Sessions, RemoveTrack(s) PROVE SenderParts'
  <2>1. /\ stage[s] = "tracking" /\ stage' = stage /\ inCall' = inCall
        /\ senders' = [senders EXCEPT ![s] = @ \ {Head(tracksCh[s]).track}]
        /\ screenSender' = [screenSender EXCEPT ![s] = IF @ = Head(tracksCh[s]).track THEN Nil ELSE @]
        /\ negotiating' = [negotiating EXCEPT ![s] = RemoveOf(Head(tracksCh[s]).track)]
    BY <1>4 DEF RemoveTrack, atLoop, call
  <2>2. SenderPart(s)'
    BY <2>1, MessageActions DEF SenderParts, SenderPart, TrackTypes
  <2>3. \A r \in Sessions : r # s => SenderPart(r)'
    BY <2>1, PartSame DEF SenderParts, TrackTypes
  <2> QED BY <2>2, <2>3 DEF SenderParts
<1>5. ASSUME NEW s \in Sessions, Answered(s) PROVE SenderParts'
  <2>1. /\ stage' = stage /\ inCall' = inCall /\ senders' = senders
        /\ negotiating' = [negotiating EXCEPT ![s] = Idle] /\ negotiating[s] # Idle
        /\ \/ /\ negotiating[s].action = "add"
              /\ screenSender' = [screenSender EXCEPT ![s] = IF isVideo(negotiating[s].track) THEN negotiating[s].track ELSE @]
           \/ screenSender' = screenSender
    BY <1>5 DEF Answered, call
  <2>2. SenderPart(s)'
    BY <2>1, MessageActions, ZenonT(20) DEF SenderParts, SenderPart, TrackTypes
  <2>3. \A r \in Sessions : r # s => SenderPart(r)'
    BY <2>1, PartSame DEF SenderParts, TrackTypes
  <2> QED BY <2>2, <2>3 DEF SenderParts
<1>6. ASSUME NEW s \in Sessions, NegotiationFails(s) PROVE SenderParts'
  <2>1. /\ stage' = stage /\ inCall' = inCall /\ screenSender' = screenSender
        /\ negotiating' = [negotiating EXCEPT ![s] = Idle] /\ negotiating[s] # Idle
        /\ \/ /\ negotiating[s].action = "add"
              /\ senders' = [senders EXCEPT ![s] = @ \ {negotiating[s].track}]
           \/ senders' = senders
    BY <1>6 DEF NegotiationFails, call, signalingFails
  <2>2. SenderPart(s)'
    <3>1. stage'[s] = stage[s] /\ screenSender'[s] = screenSender[s] /\ (s \in inCall' <=> s \in inCall)
      BY <2>1
    <3>2. negotiating'[s] = Idle /\ negotiating'[s].action = "idle" /\ stage[s] # "out"
      BY <2>1, MessageActions DEF SenderParts, SenderPart, TrackTypes
    <3>3. senders'[s] = senders[s] \/ (negotiating[s].action = "add" /\ senders'[s] = senders[s] \ {negotiating[s].track})
      BY <2>1 DEF TrackTypes
    <3>4. screenSender[s] # Nil /\ negotiating[s].action = "add" => screenSender[s] # negotiating[s].track
      BY SenderIsScreen DEF SenderParts, SenderPart
    <3>5. SenderPart(s)
      BY DEF SenderParts
    <3> QED BY <3>1, <3>2, <3>3, <3>4, <3>5 DEF SenderPart
  <2>3. \A r \in Sessions : r # s => SenderPart(r)'
    BY <2>1, PartSame DEF SenderParts, TrackTypes
  <2> QED BY <2>2, <2>3 DEF SenderParts
<1>7. ASSUME NEW s \in Sessions, NegotiationClosed(s) PROVE SenderParts'
  <2>1. /\ stage' = stage /\ inCall' = inCall /\ screenSender' = screenSender /\ senders' = senders
        /\ negotiating' = [negotiating EXCEPT ![s] = Idle]
    BY <1>7 DEF NegotiationClosed, call
  <2>2. SenderPart(s)'
    BY <2>1, MessageActions DEF SenderParts, SenderPart, TrackTypes
  <2>3. \A r \in Sessions : r # s => SenderPart(r)'
    BY <2>1, PartSame DEF SenderParts, TrackTypes
  <2> QED BY <2>2, <2>3 DEF SenderParts
<1>8. ASSUME NEW s \in Sessions, StartTracks(s) PROVE SenderParts'
  <2>1. /\ stage' = [stage EXCEPT ![s] = "tracking"] /\ inCall' = inCall
        /\ senders' = senders /\ screenSender' = screenSender /\ negotiating' = negotiating
    BY <1>8 DEF StartTracks, receiving
  <2>2. SenderPart(s)'
    BY <2>1, PartSame DEF SenderParts, TrackTypes
  <2>3. \A r \in Sessions : r # s => SenderPart(r)'
    BY <2>1, PartSame DEF SenderParts, TrackTypes
  <2> QED BY <2>2, <2>3 DEF SenderParts
<1>9. ASSUME NEW s \in Sessions, TracksEnd(s) PROVE SenderParts'
  <2>1. /\ stage' = [stage EXCEPT ![s] = "done"] /\ inCall' = inCall
        /\ senders' = senders /\ screenSender' = screenSender /\ negotiating' = negotiating
    BY <1>9 DEF TracksEnd, receiving
  <2>2. SenderPart(s)'
    BY <2>1, PartSame DEF SenderParts, TrackTypes
  <2>3. \A r \in Sessions : r # s => SenderPart(r)'
    BY <2>1, PartSame DEF SenderParts, TrackTypes
  <2> QED BY <2>2, <2>3 DEF SenderParts
<1>10. ASSUME NEW s \in Sessions, CloseSignal(s) PROVE SenderParts'
  <2>1. UNCHANGED <<stage, inCall, senders, screenSender, negotiating>>
    BY <1>10 DEF CloseSignal, call, receiving
  <2> QED BY <2>1 DEF SenderParts, SenderPart
<1>11. ASSUME NEW s \in Sessions, Join(s) PROVE SenderParts'
  <2>1. /\ stage[s] = "out" /\ stage' = [stage EXCEPT ![s] = "joined"] /\ inCall' = inCall \cup {s}
        /\ senders' = senders /\ screenSender' = screenSender /\ negotiating' = negotiating
    BY <1>11 DEF Join, receiving
  <2>2. SenderPart(s)'
    BY <2>1, MessageActions DEF SenderParts, SenderPart, TrackTypes
  <2>3. \A r \in Sessions : r # s => SenderPart(r)'
    BY <2>1, PartSame DEF SenderParts, TrackTypes
  <2> QED BY <2>2, <2>3 DEF SenderParts
<1>12. ASSUME NEW s \in Sessions, CloseDetach(s) PROVE SenderParts'
  <2>1. s \in inCall /\ inCall' = inCall \ {s} /\ stage' = stage /\ negotiating' = negotiating
    BY <1>12 DEF CloseDetach
  <2>2. \A r \in Sessions : screenSender'[r] \in {screenSender[r], Nil}
    BY <1>12 DEF CloseDetach, TrackTypes
  <2>3. ASSUME NEW r \in Sessions \ inCall PROVE SenderPart(r)'
    <3>1. senders'[r] = senders[r] /\ r # s
      BY <1>12, <2>1 DEF CloseDetach
    <3> QED BY <2>1, <2>2, <3>1 DEF SenderParts, SenderPart
  <2>4. ASSUME NEW r \in inCall \ {s} PROVE SenderPart(r)'
    <3>1. senders'[r] = sendersWithout(r, s) /\ r \in Sessions
      BY <1>12, <2>4 DEF CloseDetach, TrackTypes
    <3>2. \A t \in senders[r] : isVideo(t) => t \in senders'[r]
      BY <3>1 DEF sendersWithout
    <3>3. stage[r] # "out"
      BY <2>4, <3>1 DEF OwnTracks
    <3> QED BY <2>1, <2>2, <3>1, <3>2, <3>3, SenderIsScreen DEF SenderParts, SenderPart
  <2>5. SenderPart(s)'
    <3>1. stage[s] # "out"
      BY <2>1 DEF OwnTracks
    <3> QED BY <2>1, <2>2, <3>1 DEF SenderParts, SenderPart
  <2> QED BY <2>3, <2>4, <2>5 DEF SenderParts
<1>13. ASSUME NEW s \in Sessions, NEW kind \in {"voice", "audio", "screen"}, OnTrack(s, kind) \/ StartShare(s)
      PROVE  SenderParts'
  <2>1. UNCHANGED <<stage, inCall, senders, screenSender, negotiating>>
    BY <1>13 DEF OnTrack, StartShare, call, receiving
  <2> QED BY <2>1 DEF SenderParts, SenderPart
<1>14. ASSUME NEW s \in Sessions, ScreenOnLookup(s) \/ ScreenOn(s) \/ ScreenOffLookup(s)
      PROVE  SenderParts'
  <2>1. UNCHANGED <<stage, inCall, senders, screenSender, negotiating>>
    BY <1>14 DEF ScreenOnLookup, ScreenOn, ScreenOffLookup, call, receiving
  <2> QED BY <2>1 DEF SenderParts, SenderPart
<1>15. ASSUME NEW s \in Sessions, ScreenOff(s) PROVE SenderParts'
  <2>1. inCall' = inCall /\ stage' = stage /\ negotiating' = negotiating /\ senders' = senders
    BY <1>15 DEF ScreenOff
  <2>2. \A r \in Sessions : screenSender'[r] \in {screenSender[r], Nil}
    BY <1>15, ZenonT(20) DEF ScreenOff, clearScreenState, TrackTypes
  <2> QED BY <2>1, <2>2 DEF SenderParts, SenderPart
<1>16. ASSUME NEW t \in Tracks, SetTrack(t) \/ Announce(t) PROVE SenderParts'
  <2>1. UNCHANGED <<stage, inCall, senders, screenSender, negotiating>>
    BY <1>16 DEF SetTrack, Announce, call, receiving
  <2> QED BY <2>1 DEF SenderParts, SenderPart
<1>17. \A t \in {h.track : h \in inFlight} : t \in Tracks
  BY DEF TrackTypes, Arrivals
<1> QED BY <1>1, <1>2, <1>3, <1>4, <1>5, <1>6, <1>7, <1>8, <1>9, <1>10, <1>11, <1>12,
           <1>13, <1>14, <1>15, <1>16, <1>17 DEF Next, SessionStep

\* How a screenTrackSender is cleared.
LEMMA ScreenCleared ==
  ASSUME TrackTypes, [Next]_vars
  PROVE  ScreenClears
<1>1. CASE UNCHANGED vars
  <2>1. UNCHANGED screenSender
    BY <1>1 DEF vars, receiving
  <2> QED BY <2>1, Zenon DEF ScreenClears
<1>2. ASSUME NEW s \in Sessions, AddRefused(s) \/ AddTrack(s) \/ TakeFails(s)
      PROVE  ScreenClears
  <2>1. UNCHANGED screenSender
    BY <1>2 DEF AddRefused, AddTrack, TakeFails, receiving
  <2> QED BY <2>1, Zenon DEF ScreenClears
<1>3. ASSUME NEW s \in Sessions, RemoveTrack(s) PROVE ScreenClears
  <2>1. /\ screenSender' = [screenSender EXCEPT ![s] = IF @ = Head(tracksCh[s]).track THEN Nil ELSE @]
        /\ senders' = [senders EXCEPT ![s] = @ \ {Head(tracksCh[s]).track}]
    BY <1>3 DEF RemoveTrack
  <2>2. \A r \in Sessions : screenSender'[r] = screenSender[r] \/ screenSender[r] \notin senders'[r]
    BY <2>1 DEF TrackTypes
  <2> QED BY <2>2, Zenon DEF ScreenClears
<1>4. ASSUME NEW s \in Sessions, NegotiationFails(s) \/ NegotiationClosed(s) PROVE ScreenClears
  <2>1. UNCHANGED screenSender
    BY <1>4 DEF NegotiationFails, NegotiationClosed, receiving
  <2> QED BY <2>1, Zenon DEF ScreenClears
<1>5. ASSUME NEW s \in Sessions, Answered(s) PROVE ScreenClears
  <2>1. \/ /\ negotiating[s].action = "add"
           /\ screenSender' = [screenSender EXCEPT ![s] = IF isVideo(negotiating[s].track) THEN negotiating[s].track ELSE @]
        \/ screenSender' = screenSender
    BY <1>5 DEF Answered
  <2>2. \A r \in Sessions : screenSender'[r] = screenSender[r]
          \/ (r = s /\ negotiating[s].action = "add" /\ isVideo(negotiating[s].track))
    BY <2>1, ZenonT(20) DEF TrackTypes
  <2> QED BY <1>5, <2>2, Zenon DEF ScreenClears
<1>6. ASSUME NEW s \in Sessions, StartTracks(s) \/ TracksEnd(s) PROVE ScreenClears
  <2>1. UNCHANGED screenSender
    BY <1>6 DEF StartTracks, TracksEnd, receiving
  <2> QED BY <2>1, Zenon DEF ScreenClears
<1>7. ASSUME NEW s \in Sessions, Join(s) \/ CloseSignal(s) PROVE ScreenClears
  <2>1. UNCHANGED screenSender
    BY <1>7 DEF Join, CloseSignal, receiving
  <2> QED BY <2>1, Zenon DEF ScreenClears
<1>8. ASSUME NEW s \in Sessions, CloseDetach(s) PROVE ScreenClears
  <2>1. \A r \in Sessions : screenSender'[r] = screenSender[r] \/ (screenSession = s /\ r # s)
    BY <1>8 DEF CloseDetach, TrackTypes
  <2> QED BY <1>8, <2>1, Zenon DEF ScreenClears
<1>9. ASSUME NEW s \in Sessions, NEW kind \in {"voice", "audio", "screen"}, OnTrack(s, kind) \/ StartShare(s)
      PROVE  ScreenClears
  <2>1. UNCHANGED screenSender
    BY <1>9 DEF OnTrack, StartShare, receiving
  <2> QED BY <2>1, Zenon DEF ScreenClears
<1>10. ASSUME NEW s \in Sessions, ScreenOnLookup(s) \/ ScreenOn(s) \/ ScreenOffLookup(s)
      PROVE  ScreenClears
  <2>1. UNCHANGED screenSender
    BY <1>10 DEF ScreenOnLookup, ScreenOn, ScreenOffLookup, receiving
  <2> QED BY <2>1, Zenon DEF ScreenClears
<1>11. ASSUME NEW s \in Sessions, ScreenOff(s) PROVE ScreenClears
  <2>1. \A r \in Sessions : screenSender'[r] = screenSender[r] \/ (screenSession = s /\ r # s)
    BY <1>11 DEF ScreenOff, clearScreenState, TrackTypes
  <2> QED BY <1>11, <2>1, Zenon DEF ScreenClears
<1>12. ASSUME NEW t \in Tracks, SetTrack(t) \/ Announce(t) PROVE ScreenClears
  <2>1. UNCHANGED screenSender
    BY <1>12 DEF SetTrack, Announce, receiving
  <2> QED BY <2>1, Zenon DEF ScreenClears
<1>13. \A t \in {h.track : h \in inFlight} : t \in Tracks
  BY DEF TrackTypes, Arrivals
<1> QED BY <1>1, <1>2, <1>3, <1>4, <1>5, <1>6, <1>7, <1>8, <1>9, <1>10, <1>11, <1>12, <1>13 DEF
           Next, SessionStep

\* How an addition ends.
LEMMA AddEnded ==
  ASSUME TrackTypes, [Next]_vars
  PROVE  AddEnds
<1>1. CASE UNCHANGED vars
  <2>1. UNCHANGED negotiating
    BY <1>1 DEF vars, receiving
  <2> QED BY <2>1, Zenon DEF AddEnds
<1>2. ASSUME NEW s \in Sessions, AddRefused(s) \/ TakeFails(s) PROVE AddEnds
  <2>1. UNCHANGED negotiating
    BY <1>2 DEF AddRefused, TakeFails, receiving
  <2> QED BY <2>1, Zenon DEF AddEnds
<1>3. ASSUME NEW s \in Sessions, AddTrack(s) PROVE AddEnds
  <2>1. negotiating' = [negotiating EXCEPT ![s] = AddOf(Head(tracksCh[s]).track)] /\ negotiating[s] = Idle
    BY <1>3 DEF AddTrack, atLoop
  <2>2. \A r \in Sessions : negotiating[r].action = "add" => negotiating'[r] = negotiating[r]
    BY <2>1, MessageActions DEF TrackTypes
  <2> QED BY <2>2, Zenon DEF AddEnds
<1>4. ASSUME NEW s \in Sessions, RemoveTrack(s) PROVE AddEnds
  <2>1. negotiating' = [negotiating EXCEPT ![s] = RemoveOf(Head(tracksCh[s]).track)] /\ negotiating[s] = Idle
    BY <1>4 DEF RemoveTrack, atLoop
  <2>2. \A r \in Sessions : negotiating[r].action = "add" => negotiating'[r] = negotiating[r]
    BY <2>1, MessageActions DEF TrackTypes
  <2> QED BY <2>2, Zenon DEF AddEnds
<1>5. ASSUME NEW s \in Sessions, Answered(s) PROVE AddEnds
  <2>1. negotiating' = [negotiating EXCEPT ![s] = Idle]
    BY <1>5 DEF Answered
  <2>2. negotiating[s].action = "add" /\ isVideo(negotiating[s].track) => screenSender'[s] = negotiating[s].track
    BY <1>5 DEF Answered, TrackTypes
  <2>3. \A r \in Sessions : r # s => negotiating'[r] = negotiating[r]
    BY <2>1 DEF TrackTypes
  <2> QED BY <1>5, <2>2, <2>3, Zenon DEF AddEnds
<1>6. ASSUME NEW s \in Sessions, NegotiationFails(s) PROVE AddEnds
  <2>1. negotiating' = [negotiating EXCEPT ![s] = Idle] /\ s \in marred'
    BY <1>6 DEF NegotiationFails
  <2> QED BY <2>1 DEF AddEnds, TrackTypes
<1>7. ASSUME NEW s \in Sessions, NegotiationClosed(s) PROVE AddEnds
  <2>1. negotiating' = [negotiating EXCEPT ![s] = Idle] /\ s \in closed
    BY <1>7 DEF NegotiationClosed
  <2> QED BY <2>1 DEF AddEnds, TrackTypes
<1>8. ASSUME NEW s \in Sessions, StartTracks(s) \/ TracksEnd(s) PROVE AddEnds
  <2>1. UNCHANGED negotiating
    BY <1>8 DEF StartTracks, TracksEnd, receiving
  <2> QED BY <2>1, Zenon DEF AddEnds
<1>9. ASSUME NEW s \in Sessions, Join(s) \/ CloseDetach(s) \/ CloseSignal(s) PROVE AddEnds
  <2>1. UNCHANGED negotiating
    BY <1>9 DEF Join, CloseDetach, CloseSignal, receiving
  <2> QED BY <2>1, Zenon DEF AddEnds
<1>10. ASSUME NEW s \in Sessions, NEW kind \in {"voice", "audio", "screen"}, OnTrack(s, kind) \/ StartShare(s)
      PROVE  AddEnds
  <2>1. UNCHANGED negotiating
    BY <1>10 DEF OnTrack, StartShare, receiving
  <2> QED BY <2>1, Zenon DEF AddEnds
<1>11. ASSUME NEW s \in Sessions, ScreenOnLookup(s) \/ ScreenOn(s) \/ ScreenOffLookup(s) \/ ScreenOff(s)
      PROVE  AddEnds
  <2>1. UNCHANGED negotiating
    BY <1>11 DEF ScreenOnLookup, ScreenOn, ScreenOffLookup, ScreenOff, receiving
  <2> QED BY <2>1, Zenon DEF AddEnds
<1>12. ASSUME NEW t \in Tracks, SetTrack(t) \/ Announce(t) PROVE AddEnds
  <2>1. UNCHANGED negotiating
    BY <1>12 DEF SetTrack, Announce, receiving
  <2> QED BY <2>1, Zenon DEF AddEnds
<1>13. \A t \in {h.track : h \in inFlight} : t \in Tracks
  BY DEF TrackTypes, Arrivals
<1> QED BY <1>1, <1>2, <1>3, <1>4, <1>5, <1>6, <1>7, <1>8, <1>9, <1>10, <1>11, <1>12, <1>13 DEF
           Next, SessionStep

\* A sender was there before, on a session of the call, or is being added.
LEMMA SendersWere ==
  ASSUME TrackTypes, OwnTracks, SenderParts, [Next]_vars,
         NEW s \in inCall' \ marred', NEW t \in senders'[s] \ orphaned'
  PROVE  /\ s \in Sessions /\ t \in Tracks /\ t \notin orphaned
         /\ \/ s \in inCall \ marred /\ t \in senders[s]
            \/ /\ AddTrack(s) /\ negotiating'[s] = AddOf(t)
               /\ AddOf(t) \in Range(tracksCh[s])
<1>1. Goes /\ SendersCome /\ HistoryGrows /\ TrackTypes'
  BY Onward, NewSenders, HistoryKept, TypesKept
<1>2. s \in Sessions /\ t \in Tracks /\ t \notin orphaned /\ s \notin marred
  BY <1>1 DEF TrackTypes, HistoryGrows
<1>3. CASE t \in senders[s]
  <2>1. stage[s] # "out"
    BY <1>2, <1>3 DEF SenderParts, SenderPart
  <2> QED BY <1>1, <1>2, <1>3, <2>1 DEF Goes
<1>4. CASE AddTrack(s) /\ t = Head(tracksCh[s]).track
  <2>1. negotiating'[s] = AddOf(t) /\ tracksCh[s] # <<>> /\ Head(tracksCh[s]).action = "add"
    BY <1>2, <1>4 DEF AddTrack, next, TrackTypes
  <2>2. Head(tracksCh[s]) \in Range(tracksCh[s]) /\ Head(tracksCh[s]) \in Messages
    BY <1>2, <2>1, Taking DEF TrackTypes
  <2>3. Head(tracksCh[s]) = AddOf(t)
    BY <1>4, <2>1, <2>2, MessageKinds
  <2> QED BY <1>2, <1>4, <2>1, <2>2, <2>3
<1> QED BY <1>1, <1>2, <1>3, <1>4 DEF SendersCome

\* ScreenSenders is inductive: whoever clears a screenTrackSender queues its removal.
LEMMA ScreenSendersKept ==
  ASSUME TrackTypes, ShareTypes, OwnTracks, Sharing, ScreensCurrent, SendersListed,
         SenderParts, ScreenSenders, [Next]_vars
  PROVE  ScreenSenders'
<1> SUFFICES ASSUME NEW s \in inCall' \ marred', NEW t \in senders'[s] \ orphaned', isVideo(t)
             PROVE  \/ screenSender'[s] = t \/ negotiating'[s] = AddOf(t)
                    \/ RemoveOf(t) \in Range(tracksCh'[s])
  BY Zenon DEF ScreenSenders
<1>1. s \in Sessions /\ t \in Tracks /\ t \notin orphaned
  BY SendersWere
<1>2. CASE AddTrack(s) /\ negotiating'[s] = AddOf(t)
  BY <1>2
<1>3. CASE s \in inCall \ marred /\ t \in senders[s]
  <2>1. CASE RemoveOf(t) \in Range(tracksCh[s])
    BY <1>3, <2>1, RemovalsKept DEF RemovalsStay
  <2>2. CASE negotiating[s] = AddOf(t)
    <3>1. negotiating[s].action = "add" /\ negotiating[s].track = t
      BY <2>2, MessageActions
    <3>2. s \notin closed
      BY <1>1, <1>3 DEF OwnTracks
    <3> QED BY <1>1, <2>2, <3>1, <3>2, AddEnded DEF AddEnds
  <2>3. CASE screenSender[s] = t /\ RemoveOf(t) \notin Range(tracksCh[s])
    <3>1. t # Nil /\ t.of \in Sessions
      BY <1>1, TracksAssumption DEF Tracks
    <3>2. ~(negotiating[s].action = "add" /\ isVideo(negotiating[s].track))
      BY <1>1, <2>3, <3>1 DEF SenderParts, SenderPart
    <3>3. ASSUME NEW us \in Sessions \ {s}, CloseDetach(us), screenSession = us
          PROVE  RemoveOf(t) \in Range(tracksCh'[s])
      <4>1. us \in inCall
        BY <3>3 DEF CloseDetach
      <4>2. sharer = us /\ ~Stuck
        BY <3>3, <4>1 DEF Sharing, Stuck
      <4>3. t.of \in inCall /\ t \in outTracks(t.of)
        BY <1>1, <1>3, <2>3 DEF SendersListed
      <4>4. t \in screenTracks(t.of)
        BY <3>1, <4>3, OwnLists
      <4>5. t.of = us
        BY <1>1, <4>2, <4>3, <4>4 DEF ScreensCurrent, Current
      <4>6. PICK q \in [Sessions -> Seq(Messages)] :
              /\ Enqueue(q)
              /\ \A r \in inCall \ {us} : \A u \in senders[r] \cap screenTracks(us) : RemoveOf(u) \in Range(q[r])
        BY <3>3, SentByClose
      <4>7. RemoveOf(t) \in Range(q[s])
        BY <1>3, <3>3, <4>4, <4>5, <4>6
      <4> QED BY <1>1, <4>6, <4>7, Enqueues DEF TrackTypes
    <3>4. ASSUME NEW us \in Sessions \ {s}, ScreenOff(us), screenSession = us
          PROVE  RemoveOf(t) \in Range(tracksCh'[s])
      <4>1. clearScreenState(us)
        BY <3>4 DEF ScreenOff
      <4>2. PICK q \in [Sessions -> Seq(Messages)] :
              /\ Enqueue(q)
              /\ \A r \in inCall \ {us} : screenSender[r] # Nil => RemoveOf(screenSender[r]) \in Range(q[r])
        BY <3>4, <4>1, SentByOff
      <4>3. RemoveOf(t) \in Range(q[s])
        BY <1>3, <2>3, <3>1, <3>4, <4>2
      <4> QED BY <1>1, <4>2, <4>3, Enqueues DEF TrackTypes
    <3> QED BY <1>1, <2>3, <3>1, <3>2, <3>3, <3>4, ScreenCleared DEF ScreenClears
  <2> QED BY <1>1, <1>3, <2>1, <2>2, <2>3 DEF ScreenSenders
<1> QED BY <1>2, <1>3, SendersWere

\* So is SendersListed: a session that lets go of a track queues its removal.
LEMMA SendersListedKept ==
  ASSUME TrackTypes, ShareTypes, OwnTracks, KnownTracks, QueuedListed, FromOthers,
         SenderParts, SendersListed, ScreenSenders, [Next]_vars
  PROVE  SendersListed'
<1> SUFFICES ASSUME NEW s \in inCall' \ marred', NEW t \in senders'[s] \ orphaned',
                    RemoveOf(t) \notin Range(tracksCh'[s])
             PROVE  Listed(t)'
  BY Zenon DEF SendersListed, Listed
<1>1. s \in Sessions /\ t \in Tracks /\ t \notin orphaned
  BY SendersWere
<1>2. Listed(t)
  <2>1. CASE s \in inCall \ marred /\ t \in senders[s]
    <3>1. RemoveOf(t) \notin Range(tracksCh[s])
      BY <2>1, RemovalsKept DEF RemovalsStay
    <3> QED BY <1>1, <2>1, <3>1 DEF SendersListed, Listed
  <2>2. CASE AddOf(t) \in Range(tracksCh[s])
    BY <1>1, <2>2, MessageActions DEF QueuedListed
  <2> QED BY <2>1, <2>2, SendersWere
<1>3. t.of \in Sessions /\ t.of \in inCall /\ t \in outTracks(t.of)
  BY <1>1, <1>2 DEF Tracks, Listed
<1>4. Known(t)
  BY <1>3 DEF KnownTracks
<1>5. ~CloseDetach(t.of)
  <2> SUFFICES ASSUME CloseDetach(t.of) PROVE FALSE
    OBVIOUS
  <2>1. s \in inCall \ {t.of} /\ t \in sendersWithout(s, t.of)
    BY <1>1 DEF CloseDetach
  <2>2. t \in senders[s] /\ t \in screenTracks(t.of)
    BY <1>3, <2>1, OwnLists DEF sendersWithout
  <2>3. PICK q \in [Sessions -> Seq(Messages)] :
          /\ Enqueue(q)
          /\ \A r \in inCall \ {t.of} : \A u \in senders[r] \cap screenTracks(t.of) : RemoveOf(u) \in Range(q[r])
    BY <1>3, SentByClose
  <2>4. RemoveOf(t) \in Range(q[s])
    BY <2>1, <2>2, <2>3
  <2> QED BY <1>1, <2>3, <2>4, Enqueues DEF TrackTypes
<1>6. ~(ScreenOff(t.of) /\ screenSession = t.of /\ t.kind # "voice")
  <2> SUFFICES ASSUME ScreenOff(t.of), screenSession = t.of, t.kind # "voice" PROVE FALSE
    OBVIOUS
  <2>1. s \in inCall \ marred /\ t \in senders[s] /\ t.of # s
    <3>1. ~AddTrack(s)
      <4>1. negotiating' = negotiating
        BY DEF ScreenOff
      <4>2. AddTrack(s) => negotiating[s] = Idle /\ negotiating'[s] = AddOf(Head(tracksCh[s]).track)
        BY <1>1 DEF AddTrack, atLoop, TrackTypes
      <4> QED BY <4>1, <4>2, MessageParts
    <3>2. s \in inCall \ marred /\ t \in senders[s]
      BY <3>1, SendersWere
    <3> QED BY <1>1, <3>2 DEF FromOthers
  <2>2. isVideo(t)
    <3>1. t.kind = "audio" => t = outAudio[t.of] /\ t # Nil
      BY <1>3, OwnLists
    <3>2. t.kind # "audio"
      BY <3>1 DEF ScreenOff
    <3> QED BY <1>1, <3>2 DEF Tracks, isVideo
  <2>3. negotiating[s] # AddOf(t)
    <3> SUFFICES ASSUME negotiating[s] = AddOf(t) PROVE FALSE
      OBVIOUS
    <3>1. t \in adding
      BY <1>1, MessageActions DEF adding
    <3>2. t.share # 0
      BY <1>4 DEF Known
    <3> QED BY <3>1, <3>2 DEF ScreenOff
  <2>4. screenSender[s] = t
    <3>1. RemoveOf(t) \notin Range(tracksCh[s])
      BY <2>1, RemovalsKept DEF RemovalsStay
    <3> QED BY <1>1, <2>1, <2>2, <2>3, <3>1 DEF ScreenSenders
  <2>5. clearScreenState(t.of) /\ t # Nil
    BY <1>1, TracksAssumption DEF ScreenOff
  <2>6. PICK q \in [Sessions -> Seq(Messages)] :
          /\ Enqueue(q)
          /\ \A r \in inCall \ {t.of} : screenSender[r] # Nil => RemoveOf(screenSender[r]) \in Range(q[r])
    BY <1>3, <2>5, SentByOff
  <2>7. RemoveOf(t) \in Range(q[s])
    BY <2>1, <2>4, <2>5, <2>6
  <2> QED BY <1>1, <2>6, <2>7, Enqueues DEF TrackTypes
<1> QED BY <1>1, <1>2, <1>5, <1>6, ListedStays

-----------------------------------------------------------------------------
(* A share that ended does not keep the next one out.                      *)

\* A message keeps its place in a queue, and the new ones follow.
LEMMA Places ==
  ASSUME NEW S, NEW ch \in Seq(S), NEW q \in Seq(S), NEW i \in DOMAIN (ch \o room(ch, q))
  PROVE  LET p == ch \o room(ch, q) IN
         /\ i \in DOMAIN ch => p[i] = ch[i]
         /\ i \notin DOMAIN ch => p[i] \in Range(q) /\ \A j \in DOMAIN ch : j < i
         /\ \A j \in DOMAIN p : j < i /\ i \in DOMAIN ch => j \in DOMAIN ch
<1> DEFINE k == Len(ch)
           m == Len(q)
           n == Min({m, TracksChSize - k})
           r == SubSeq(q, 1, n)
           p == ch \o r
<1>1. k \in Nat /\ m \in Nat /\ TracksChSize \in Nat
  BY TracksAssumption, SMTT(20)
<1> HIDE DEF k, m
<1>2. n \in Int /\ n <= m
  <2>1. TracksChSize - k \in Int /\ m \in Int
    BY <1>1, SMTT(20)
  <2> HIDE DEF n
  <2> QED BY <2>1, MinOfTwo DEF n
<1>3. r \in Seq(S) /\ \A x \in DOMAIN r : r[x] \in Range(q)
  <2> HIDE DEF n
  <2>1. r \in Seq(S) /\ Len(r) = IF n >= 1 THEN n ELSE 0
    BY <1>1, <1>2, SMTT(20) DEF m
  <2>2. \A x \in DOMAIN r : x \in DOMAIN q /\ r[x] = q[x]
    BY <1>1, <1>2, <2>1, SMTT(20) DEF m
  <2> HIDE DEF r
  <2> QED BY <2>1, <2>2 DEF Range
<1>4. p = ch \o room(ch, q)
  BY DEF room, k, m
<1> HIDE DEF r
<1>5. /\ DOMAIN ch = 1..k /\ DOMAIN p = 1..(k + Len(r)) /\ Len(r) \in Nat /\ DOMAIN r = 1..Len(r)
      /\ \A x \in 1..k : p[x] = ch[x]
      /\ \A x \in 1..Len(r) : p[k + x] = r[x]
  BY <1>1, <1>3, SMTT(20) DEF k
<1>6. i \in DOMAIN p
  BY <1>4
<1> HIDE DEF p
<1>7. ASSUME i \notin DOMAIN ch PROVE p[i] \in Range(q) /\ \A j \in DOMAIN ch : j < i
  <2>1. i \in Nat /\ i > k /\ i - k \in 1..Len(r) /\ i = k + (i - k)
    BY <1>1, <1>5, <1>6, <1>7
  <2>2. p[i] = r[i - k]
    BY <1>5, <2>1
  <2> QED BY <1>1, <1>3, <1>5, <2>1, <2>2
<1>8. \A j \in DOMAIN p : j < i /\ i \in DOMAIN ch => j \in DOMAIN ch
  BY <1>1, <1>5, <1>6
<1> QED BY <1>4, <1>5, <1>7, <1>8

\* The messages of a queue once the first one is taken.
LEMMA PlacesLeft ==
  ASSUME NEW S, NEW ch \in Seq(S), ch # <<>>, NEW i \in DOMAIN Tail(ch)
  PROVE  i \in Nat /\ i + 1 \in DOMAIN ch /\ Tail(ch)[i] = ch[i + 1]
BY SMTT(20)

\* The messages at i and j of a queue that is added to.
LEMMA EnqueuePlaces ==
  ASSUME TrackTypes, NEW q \in [Sessions -> Seq(Messages)], Enqueue(q), NEW s \in Sessions,
         NEW i \in DOMAIN tracksCh'[s], NEW j \in DOMAIN tracksCh'[s], j < i
  PROVE  \/ /\ i \in DOMAIN tracksCh[s] /\ tracksCh'[s][i] = tracksCh[s][i]
            /\ j \in DOMAIN tracksCh[s] /\ tracksCh'[s][j] = tracksCh[s][j]
         \/ /\ tracksCh'[s][i] \in Range(q[s])
            /\ tracksCh'[s][j] \in Range(tracksCh[s]) \cup Range(q[s])
<1>1. tracksCh'[s] = tracksCh[s] \o room(tracksCh[s], q[s])
  BY DEF Enqueue
<1>2. tracksCh[s] \in Seq(Messages) /\ q[s] \in Seq(Messages)
  BY DEF TrackTypes
<1>3. PICK ch \in Seq(Messages) : ch = tracksCh[s]
  BY <1>2
<1>4. PICK b \in Seq(Messages) : b = q[s]
  BY <1>2
<1>5. PICK p : p = ch \o room(ch, b)
  OBVIOUS
<1>6. p = tracksCh'[s] /\ i \in DOMAIN p /\ j \in DOMAIN p
  BY <1>1, <1>3, <1>4, <1>5
<1>7. \A x \in DOMAIN p :
        /\ x \in DOMAIN ch => p[x] = ch[x]
        /\ x \notin DOMAIN ch => p[x] \in Range(b)
        /\ \A y \in DOMAIN p : y < x /\ x \in DOMAIN ch => y \in DOMAIN ch
  BY <1>5, Places
<1>8. /\ i \in DOMAIN ch => p[i] = ch[i] /\ j \in DOMAIN ch
      /\ i \notin DOMAIN ch => p[i] \in Range(b)
      /\ j \in DOMAIN ch => p[j] = ch[j]
  BY <1>6, <1>7
<1>9. tracksCh'[s][j] \in Range(tracksCh'[s])
  BY Zenon DEF Range
<1>10. Range(tracksCh'[s]) \subseteq Range(tracksCh[s]) \cup Range(q[s])
  BY Enqueues DEF TrackTypes
<1> QED BY <1>3, <1>4, <1>6, <1>8, <1>9, <1>10

\* A removal overtakes no addition.
LEMMA OrderStays ==
  ASSUME TrackTypes, [Next]_vars
  PROVE  OrderKept
<1> SUFFICES ASSUME NEW r \in Sessions, NEW i \in DOMAIN tracksCh'[r], NEW j \in DOMAIN tracksCh'[r],
                    j < i, tracksCh'[r][i].action = "remove", tracksCh'[r][j].action = "add"
             PROVE  Kept(r, i, j)
  BY Zenon DEF OrderKept
<1>1. CASE UNCHANGED vars
  <2>1. UNCHANGED tracksCh
    BY <1>1 DEF vars
  <2> QED BY <2>1, Zenon DEF Kept
<1>2. ASSUME NEW s \in Sessions, AddRefused(s) PROVE Kept(r, i, j)
  <2>1. tracksCh[s] # <<>> /\ took(s)
    BY <1>2 DEF AddRefused, next
  <2>2. CASE r = s
    <3>1. tracksCh'[s] = Tail(tracksCh[s]) /\ tracksCh[s] \in Seq(Messages)
      BY <2>1 DEF took, TrackTypes
    <3>2. /\ i + 1 \in DOMAIN tracksCh[s] /\ tracksCh'[s][i] = tracksCh[s][i + 1] /\ i \in Nat
          /\ j + 1 \in DOMAIN tracksCh[s] /\ tracksCh'[s][j] = tracksCh[s][j + 1] /\ j \in Nat
      BY <2>1, <2>2, <3>1, PlacesLeft
    <3>3. j + 1 < i + 1
      BY <3>2
    <3> QED BY <2>2, <3>2, <3>3, Zenon DEF Kept
  <2>3. CASE r # s
    <3>1. tracksCh'[r] = tracksCh[r]
      BY <2>1, <2>3, HeadTaken
    <3> QED BY <3>1, Zenon DEF Kept
  <2> QED BY <2>2, <2>3
<1>3. ASSUME NEW s \in Sessions, AddTrack(s) PROVE Kept(r, i, j)
  <2>1. tracksCh[s] # <<>> /\ took(s)
    BY <1>3 DEF AddTrack, next
  <2>2. CASE r = s
    <3>1. tracksCh'[s] = Tail(tracksCh[s]) /\ tracksCh[s] \in Seq(Messages)
      BY <2>1 DEF took, TrackTypes
    <3>2. /\ i + 1 \in DOMAIN tracksCh[s] /\ tracksCh'[s][i] = tracksCh[s][i + 1] /\ i \in Nat
          /\ j + 1 \in DOMAIN tracksCh[s] /\ tracksCh'[s][j] = tracksCh[s][j + 1] /\ j \in Nat
      BY <2>1, <2>2, <3>1, PlacesLeft
    <3>3. j + 1 < i + 1
      BY <3>2
    <3> QED BY <2>2, <3>2, <3>3, Zenon DEF Kept
  <2>3. CASE r # s
    <3>1. tracksCh'[r] = tracksCh[r]
      BY <2>1, <2>3, HeadTaken
    <3> QED BY <3>1, Zenon DEF Kept
  <2> QED BY <2>2, <2>3
<1>4. ASSUME NEW s \in Sessions, RemoveTrack(s) PROVE Kept(r, i, j)
  <2>1. tracksCh[s] # <<>> /\ took(s)
    BY <1>4 DEF RemoveTrack, next
  <2>2. CASE r = s
    <3>1. tracksCh'[s] = Tail(tracksCh[s]) /\ tracksCh[s] \in Seq(Messages)
      BY <2>1 DEF took, TrackTypes
    <3>2. /\ i + 1 \in DOMAIN tracksCh[s] /\ tracksCh'[s][i] = tracksCh[s][i + 1] /\ i \in Nat
          /\ j + 1 \in DOMAIN tracksCh[s] /\ tracksCh'[s][j] = tracksCh[s][j + 1] /\ j \in Nat
      BY <2>1, <2>2, <3>1, PlacesLeft
    <3>3. j + 1 < i + 1
      BY <3>2
    <3> QED BY <2>2, <3>2, <3>3, Zenon DEF Kept
  <2>3. CASE r # s
    <3>1. tracksCh'[r] = tracksCh[r]
      BY <2>1, <2>3, HeadTaken
    <3> QED BY <3>1, Zenon DEF Kept
  <2> QED BY <2>2, <2>3
<1>5. ASSUME NEW s \in Sessions, TakeFails(s) PROVE Kept(r, i, j)
  <2>1. tracksCh[s] # <<>> /\ took(s)
    BY <1>5 DEF TakeFails, next
  <2>2. CASE r = s
    <3>1. tracksCh'[s] = Tail(tracksCh[s]) /\ tracksCh[s] \in Seq(Messages)
      BY <2>1 DEF took, TrackTypes
    <3>2. /\ i + 1 \in DOMAIN tracksCh[s] /\ tracksCh'[s][i] = tracksCh[s][i + 1] /\ i \in Nat
          /\ j + 1 \in DOMAIN tracksCh[s] /\ tracksCh'[s][j] = tracksCh[s][j + 1] /\ j \in Nat
      BY <2>1, <2>2, <3>1, PlacesLeft
    <3>3. j + 1 < i + 1
      BY <3>2
    <3> QED BY <2>2, <3>2, <3>3, Zenon DEF Kept
  <2>3. CASE r # s
    <3>1. tracksCh'[r] = tracksCh[r]
      BY <2>1, <2>3, HeadTaken
    <3> QED BY <3>1, Zenon DEF Kept
  <2> QED BY <2>2, <2>3
<1>6. ASSUME NEW s \in Sessions, Answered(s) \/ NegotiationFails(s) \/ NegotiationClosed(s)
      PROVE  Kept(r, i, j)
  <2>1. UNCHANGED tracksCh
    BY <1>6 DEF Answered, NegotiationFails, NegotiationClosed
  <2> QED BY <2>1, Zenon DEF Kept
<1>7. ASSUME NEW s \in Sessions, TracksEnd(s) PROVE Kept(r, i, j)
  <2>1. UNCHANGED tracksCh
    BY <1>7 DEF TracksEnd
  <2> QED BY <2>1, Zenon DEF Kept
<1>8. ASSUME NEW s \in Sessions, StartTracks(s) PROVE Kept(r, i, j)
  <2>1. PICK q \in [Sessions -> Seq(Messages)] :
          /\ Enqueue(q)
          /\ \A p \in Sessions : \A m \in Range(q[p]) : \E o \in inCall \ {p} : \E t \in outTracks(o) : m = AddOf(t)
    BY <1>8, SentByStart, ZenonT(20)
  <2>2. \A m \in Range(q[r]) : m.action # "remove"
    BY <2>1, MessageActions
  <2> QED BY <2>1, <2>2, EnqueuePlaces, Zenon DEF Kept
<1>9. ASSUME NEW s \in Sessions, Join(s) \/ CloseSignal(s) PROVE Kept(r, i, j)
  <2>1. UNCHANGED tracksCh
    BY <1>9 DEF Join, CloseSignal
  <2> QED BY <2>1, Zenon DEF Kept
<1>10. ASSUME NEW s \in Sessions, CloseDetach(s) PROVE Kept(r, i, j)
  <2>1. PICK q \in [Sessions -> Seq(Messages)] :
          /\ Enqueue(q)
          /\ \A p \in Sessions : \A m \in Range(q[p]) : \E t \in senders[p] \cap screenTracks(s) : m = RemoveOf(t)
    BY <1>10, SentByClose
  <2>2. \A m \in Range(q[r]) : m.action # "add" /\ m.track \in screenTracks(s)
    BY <2>1, MessageParts
  <2> QED BY <1>10, <2>1, <2>2, EnqueuePlaces DEF Kept
<1>11. ASSUME NEW s \in Sessions, NEW kind \in {"voice", "audio", "screen"}, OnTrack(s, kind) \/ StartShare(s)
      PROVE  Kept(r, i, j)
  <2>1. UNCHANGED tracksCh
    BY <1>11 DEF OnTrack, StartShare
  <2> QED BY <2>1, Zenon DEF Kept
<1>12. ASSUME NEW s \in Sessions, ScreenOnLookup(s) \/ ScreenOn(s) \/ ScreenOffLookup(s)
      PROVE  Kept(r, i, j)
  <2>1. UNCHANGED tracksCh
    BY <1>12 DEF ScreenOnLookup, ScreenOn, ScreenOffLookup
  <2> QED BY <2>1, Zenon DEF Kept
<1>13. ASSUME NEW s \in Sessions, ScreenOff(s) PROVE Kept(r, i, j)
  <2>1. clearScreenState(s)
    BY <1>13 DEF ScreenOff
  <2>2. CASE UNCHANGED tracksCh
    BY <2>2, Zenon DEF Kept
  <2>3. ASSUME screenSession = s, NEW q \in [Sessions -> Seq(Messages)], Enqueue(q),
               \A p \in Sessions : \A m \in Range(q[p]) : screenSender[p] # Nil /\ m = RemoveOf(screenSender[p])
        PROVE  Kept(r, i, j)
    <3>1. \A m \in Range(q[r]) : m.action # "add"
      BY <2>3, MessageParts
    <3> QED BY <1>13, <2>3, <3>1, EnqueuePlaces DEF Kept
  <2> QED BY <2>1, <2>2, <2>3, SentByOff
<1>14. ASSUME NEW t \in Tracks, SetTrack(t) PROVE Kept(r, i, j)
  <2>1. UNCHANGED tracksCh
    BY <1>14 DEF SetTrack
  <2> QED BY <2>1, Zenon DEF Kept
<1>15. ASSUME NEW t \in Tracks, Announce(t) PROVE Kept(r, i, j)
  <2>1. PICK q \in [Sessions -> Seq(Messages)] :
          /\ Enqueue(q)
          /\ \A p \in Sessions : Range(q[p]) \subseteq {AddOf(u) : u \in copies(t)}
    BY <1>15, SentByAnnounce
  <2>2. \A m \in Range(q[r]) : m.action # "remove"
    BY <2>1, MessageActions
  <2> QED BY <2>1, <2>2, EnqueuePlaces, Zenon DEF Kept
<1>16. \A t \in {h.track : h \in inFlight} : t \in Tracks
  BY ZenonT(20) DEF TrackTypes, Arrivals
<1> QED BY <1>1, <1>2, <1>3, <1>4, <1>5, <1>6, <1>7, <1>8, <1>9, <1>10, <1>11, <1>12,
           <1>13, <1>14, <1>15, <1>16 DEF Next, SessionStep

\* RemovedFirst is inductive.
LEMMA RemovedFirstKept ==
  ASSUME TrackTypes, ShareTypes, OwnTracks, Sharing, KnownTracks, ScreensCurrent, RemovedFirst, [Next]_vars
  PROVE  RemovedFirst'
<1> SUFFICES ASSUME NEW s \in Sessions, NEW i \in DOMAIN tracksCh'[s], NEW j \in DOMAIN tracksCh'[s],
                    j < i, tracksCh'[s][i].action = "remove", tracksCh'[s][j].action = "add",
                    isVideo(tracksCh'[s][j].track)
             PROVE  stray(tracksCh[s][j].track)' \/ tracksCh'[s][i].track \in orphaned'
  BY Zenon DEF RemovedFirst
<1>0. PICK t, u : t = tracksCh'[s][j].track /\ u = tracksCh'[s][i].track
  OBVIOUS
<1>1. Goes /\ HistoryGrows
  BY Onward, HistoryKept
<1>2. ASSUME tracksCh'[s][j] \in Range(tracksCh[s]) PROVE t \in Tracks /\ Known(t) /\ (stray(t) => stray(t)')
  <2>1. tracksCh'[s][j] \in Messages
    BY <1>2, FiniteRange DEF TrackTypes
  <2>2. t \in Tracks /\ Known(t)
    BY <1>0, <1>2, <2>1, MessageKinds DEF KnownTracks
  <2> QED BY <1>1, <2>2, StrayStays
<1>3. ASSUME tracksCh'[s][j] \in Range(tracksCh[s]), sharer' = Nil PROVE stray(t)'
  <2>1. t.share # 0 /\ t.of \in Sessions
    BY <1>0, <1>2, <1>3 DEF Known, isVideo, Tracks
  <2> QED BY <1>3, <2>1, TracksAssumption DEF stray
<1>4. ASSUME NEW x \in DOMAIN tracksCh[s], NEW y \in DOMAIN tracksCh[s], y < x,
             tracksCh[s][x] = tracksCh'[s][i], tracksCh[s][y] = tracksCh'[s][j]
      PROVE  stray(t)' \/ u \in orphaned'
  <2>1. tracksCh'[s][j] \in Range(tracksCh[s])
    BY <1>4, Zenon DEF Range
  <2>2. stray(t) \/ u \in orphaned
    BY <1>0, <1>4 DEF RemovedFirst
  <2> QED BY <1>1, <1>2, <2>1, <2>2 DEF HistoryGrows
<1>5. ASSUME tracksCh'[s][j] \in Range(tracksCh[s]), NEW us \in Sessions, CloseDetach(us), u \in screenTracks(us)
      PROVE  stray(t)' \/ u \in orphaned'
  <2>1. us \in inCall
    BY <1>5 DEF CloseDetach
  <2>2. CASE u \in orphaned
    BY <1>1, <2>2 DEF HistoryGrows
  <2>3. CASE Stuck /\ Quiet
    BY <1>0, <1>2, <1>5, <2>3 DEF Quiet
  <2>4. CASE Current(u)
    <3>1. u.of = us
      BY <1>5, ScreensOf
    <3>2. sharer' = Nil
      BY <1>5, <2>4, <3>1 DEF Current, CloseDetach
    <3> QED BY <1>3, <1>5, <3>2
  <2> QED BY <1>5, <2>1, <2>2, <2>3, <2>4 DEF ScreensCurrent
<1>6. ASSUME tracksCh'[s][j] \in Range(tracksCh[s]), NEW us \in Sessions, ScreenOff(us), screenSession = us
      PROVE  stray(t)'
  BY <1>3, <1>6, OffEnds
<1>7. stray(t)' \/ u \in orphaned'
  <2>1. Kept(s, i, j)
    BY OrderStays DEF OrderKept
  <2> QED BY <1>0, <1>4, <1>5, <1>6, <2>1 DEF Kept
<1> QED BY <1>0, <1>7 DEF stray

\* A screen that is refused, although its share is on, is refused for a track
\* that was orphaned: the one removed later would be queued first.
LEMMA RefusedForOrphan ==
  ASSUME TrackTypes, OwnTracks, KnownTracks, ScreensCurrent, SenderParts, SendersListed, RemovedFirst,
         NEW s \in Sessions, s \in inCall \ marred, AddRefused(s),
         Head(tracksCh[s]).track \notin senders[s], ~stray(Head(tracksCh[s]).track),
         ~sameShare(Head(tracksCh[s]).track, screenSender[s])
  PROVE  screenSender[s] \in orphaned
<1> DEFINE m == Head(tracksCh[s])
           t == m.track
           u == screenSender[s]
<1>1. tracksCh[s] # <<>> /\ m.action = "add" /\ isVideo(t) /\ u # Nil
  BY DEF AddRefused, next, refuses
<1>2. m \in Range(tracksCh[s]) /\ m = tracksCh[s][1] /\ 1 \in DOMAIN tracksCh[s] /\ m \in Messages
  <2>1. tracksCh[s] \in Seq(Messages)
    BY DEF TrackTypes
  <2>2. tracksCh[s][1] = Head(tracksCh[s]) /\ 1 \in DOMAIN tracksCh[s]
    BY <1>1, <2>1, SMTT(20)
  <2> QED BY <1>1, <2>1, <2>2, Taking
<1>3. t \in Tracks /\ Known(t) /\ t.share # 0
  <2>1. t \in Tracks /\ Known(t)
    BY <1>1, <1>2, MessageKinds DEF KnownTracks
  <2> QED BY <1>1, <2>1 DEF Known, isVideo
<1>4. u \in senders[s] /\ u \in Tracks /\ isVideo(u)
  BY <1>1, SenderIsScreen DEF SenderParts, SenderPart
<1> SUFFICES ASSUME u \notin orphaned PROVE FALSE
  OBVIOUS
<1>5. CASE RemoveOf(u) \in Range(tracksCh[s])
  <2>1. PICK i \in DOMAIN tracksCh[s] : tracksCh[s][i] = RemoveOf(u)
    BY <1>5, Zenon DEF Range
  <2>2. tracksCh[s][i].action = "remove" /\ tracksCh[s][i].track = u /\ i # 1
    BY <1>1, <1>2, <2>1, MessageParts, SMTT(30)
  <2>3. 1 < i
    <3>1. tracksCh[s] \in Seq(Messages)
      BY DEF TrackTypes
    <3> QED BY <2>2, <3>1, SMTT(20)
  <2>4. stray(t) \/ u \in orphaned
    BY <1>1, <1>2, <2>2, <2>3 DEF RemovedFirst
  <2> QED BY <2>4
<1>6. CASE u.of \in inCall /\ u \in outTracks(u.of)
  <2>1. u \in screenTracks(u.of)
    BY <1>4, <1>6, OwnLists DEF TrackTypes
  <2>2. ~Quiet
    BY <1>1, <1>2 DEF Quiet
  <2>3. Current(u)
    BY <1>6, <2>1, <2>2 DEF ScreensCurrent
  <2> QED BY <1>3, <2>3 DEF Current, stray, sameShare
<1> QED BY <1>4, <1>5, <1>6 DEF SendersListed

\* So is BlockedByOrphans.
LEMMA BlockedKept ==
  ASSUME TrackTypes, ShareTypes, OwnTracks, KnownTracks, ScreensCurrent, SenderParts, SendersListed, RemovedFirst, BlockedByOrphans, [Next]_vars
  PROVE  BlockedByOrphans'
<1>1. CASE UNCHANGED vars
  <2>1. UNCHANGED blocking
    BY <1>1 DEF vars, history
  <2> QED BY <2>1, HistoryKept DEF BlockedByOrphans, HistoryGrows
<1>2. ASSUME NEW s \in Sessions, AddTrack(s) \/ RemoveTrack(s) \/ TakeFails(s)
      PROVE  BlockedByOrphans'
  <2>1. UNCHANGED blocking
    BY <1>2 DEF AddTrack, RemoveTrack, TakeFails, history
  <2> QED BY <2>1, HistoryKept DEF BlockedByOrphans, HistoryGrows
<1>3. ASSUME NEW s \in Sessions, AddRefused(s) PROVE BlockedByOrphans'
  <2> DEFINE t == Head(tracksCh[s]).track
  <2>1. /\ orphaned' = orphaned /\ marred' = marred
        /\ \/ blocking' = blocking
           \/ /\ s \in inCall /\ t \notin senders[s] /\ ~stray(t) /\ ~sameShare(t, screenSender[s])
              /\ blocking' = blocking \cup {screenSender[s]}
    BY <1>3 DEF AddRefused
  <2> QED BY <1>3, <2>1, RefusedForOrphan DEF BlockedByOrphans
<1>4. ASSUME NEW s \in Sessions, Answered(s) \/ NegotiationFails(s) \/ NegotiationClosed(s)
      PROVE  BlockedByOrphans'
  <2>1. UNCHANGED blocking
    BY <1>4 DEF Answered, NegotiationFails, NegotiationClosed, history
  <2> QED BY <2>1, HistoryKept DEF BlockedByOrphans, HistoryGrows
<1>5. ASSUME NEW s \in Sessions, StartTracks(s) \/ TracksEnd(s) PROVE BlockedByOrphans'
  <2>1. UNCHANGED blocking
    BY <1>5 DEF StartTracks, TracksEnd, history
  <2> QED BY <2>1, HistoryKept DEF BlockedByOrphans, HistoryGrows
<1>6. ASSUME NEW s \in Sessions, Join(s) \/ CloseDetach(s) \/ CloseSignal(s)
      PROVE  BlockedByOrphans'
  <2>1. UNCHANGED blocking
    BY <1>6 DEF Join, CloseDetach, CloseSignal, history
  <2> QED BY <2>1, HistoryKept DEF BlockedByOrphans, HistoryGrows
<1>7. ASSUME NEW s \in Sessions, NEW kind \in {"voice", "audio", "screen"}, OnTrack(s, kind) \/ StartShare(s)
      PROVE  BlockedByOrphans'
  <2>1. UNCHANGED blocking
    BY <1>7 DEF OnTrack, StartShare, history
  <2> QED BY <2>1, HistoryKept DEF BlockedByOrphans, HistoryGrows
<1>8. ASSUME NEW s \in Sessions, ScreenOnLookup(s) \/ ScreenOn(s) \/ ScreenOffLookup(s) \/ ScreenOff(s)
      PROVE  BlockedByOrphans'
  <2>1. UNCHANGED blocking
    BY <1>8 DEF ScreenOnLookup, ScreenOn, ScreenOffLookup, ScreenOff, history
  <2> QED BY <2>1, HistoryKept DEF BlockedByOrphans, HistoryGrows
<1>9. ASSUME NEW t \in Tracks, SetTrack(t) \/ Announce(t) PROVE BlockedByOrphans'
  <2>1. UNCHANGED blocking
    BY <1>9 DEF SetTrack, Announce, history
  <2> QED BY <2>1, HistoryKept DEF BlockedByOrphans, HistoryGrows
<1>10. \A t \in {h.track : h \in inFlight} : t \in Tracks
  BY DEF TrackTypes, Arrivals
<1> QED BY <1>1, <1>2, <1>3, <1>4, <1>5, <1>6, <1>7, <1>8, <1>9, <1>10 DEF Next, SessionStep

-----------------------------------------------------------------------------
(* The theorems.                                                           *)

\* Two screens with senders are both the screenTrackSender, or both being added.
LEMMA OneOfThem ==
  ASSUME TrackTypes, SenderParts, ScreenSenders
  PROVE  OneScreen
<1> SUFFICES ASSUME NEW s \in inCall \ marred
             PROVE  Cardinality({t \in senders[s] \ orphaned :
                                   isVideo(t) /\ RemoveOf(t) \notin Range(tracksCh[s])}) <= 1
  BY DEF OneScreen
<1> DEFINE T == {t \in senders[s] \ orphaned : isVideo(t) /\ RemoveOf(t) \notin Range(tracksCh[s])}
<1>1. s \in Sessions
  BY DEF TrackTypes
<1>2. ASSUME NEW t \in T, NEW u \in T PROVE t = u
  <2>1. /\ t \in Tracks /\ t # Nil /\ isVideo(t) /\ (screenSender[s] = t \/ negotiating[s] = AddOf(t))
        /\ u \in Tracks /\ u # Nil /\ isVideo(u) /\ (screenSender[s] = u \/ negotiating[s] = AddOf(u))
    BY <1>1, TracksAssumption DEF ScreenSenders, TrackTypes
  <2>2. \A v : isVideo(v) /\ negotiating[s] = AddOf(v) => screenSender[s] = Nil /\ negotiating[s].track = v
    BY <1>1, MessageActions DEF SenderParts, SenderPart
  <2> QED BY <2>1, <2>2
<1>3. T = {} \/ \E t : T = {t}
  BY <1>2, Zenon
<1> HIDE DEF T
<1>4. Cardinality(T) \in {0, 1}
  BY <1>3, FS_EmptySet, FS_Singleton, Zenon
<1>5. Cardinality(T) <= 1
  BY <1>4
<1> QED BY <1>5 DEF T

\* The invariant holds at first.
LEMMA TracksStart == Init => TracksInv
<1> SUFFICES ASSUME Init PROVE TracksInv
  OBVIOUS
<1>1. TrackTypes
  BY DEF Init, TrackTypes
<1>2. OwnTracks
  BY DEF Init, OwnTracks
<1>3. Heard /\ SendersListed /\ BlockedByOrphans /\ ScreenSenders
  BY DEF Init, Heard, SendersListed, BlockedByOrphans, ScreenSenders
<1>4. ShareTypes
  BY DEF Init, ShareTypes
<1>5. Sharing
  <2>1. \A s \in Sessions : reader # onOf(s) /\ reader # offOf(s) /\ coming[s] = {} /\ sharer # s
    <3>1. \A s \in Sessions : onOf(s) \in Requests /\ offOf(s) \in Requests
      BY DEF onOf, offOf, Requests
    <3>2. reader = Nil /\ sharer = Nil /\ \A s \in Sessions : coming[s] = {}
      BY DEF Init
    <3> QED BY <3>1, <3>2, TracksAssumption
  <2>2. sharer = Nil /\ screenSession = Nil /\ inCall = {}
    BY DEF Init
  <2> QED BY <2>1, <2>2 DEF Sharing, Stuck
<1>6. /\ inFlight = {}
      /\ \A s \in Sessions :
           Range(tracksCh[s]) = {} /\ DOMAIN tracksCh[s] = {} /\ outTracks(s) = {} /\ senders[s] = {}
  <2>1. \A s \in Sessions : tracksCh[s] = <<>> /\ senders[s] = {} /\ outVoice[s] = Nil /\ outAudio[s] = Nil /\ outScreen[s] = 0
    BY DEF Init
  <2>2. DOMAIN <<>> = {}
    OBVIOUS
  <2>3. inFlight = {}
    BY DEF Init
  <2> QED BY <2>1, <2>2, <2>3, NoneHeld DEF outTracks, screenTracks
<1>7. KnownTracks /\ QueuedListed /\ FromOthers /\ RemovedFirst
  BY <1>6 DEF KnownTracks, QueuedListed, FromOthers, RemovedFirst
<1>8. ScreensCurrent
  BY DEF Init, ScreensCurrent
<1>9. SenderParts
  BY MessageActions DEF Init, SenderParts, SenderPart
<1> QED BY <1>1, <1>2, <1>3, <1>4, <1>5, <1>7, <1>8, <1>9 DEF TracksInv

\* The invariant behind the theorems below, over every step of call.go, session.go,
\* sfu.go and server.go that CallTracks models.
THEOREM TracksInvariant == Spec => []TracksInv
<1>1. TracksInv /\ [Next]_vars => TracksInv'
  <2> SUFFICES ASSUME TracksInv, [Next]_vars PROVE TracksInv'
    OBVIOUS
  <2> USE DEF TracksInv
  <2>1. TrackTypes' /\ ShareTypes' /\ OwnTracks' /\ Sharing'
    BY TypesKept, ShareTypesKept, OwnKept, SharingKept
  <2>2. KnownTracks' /\ QueuedListed' /\ ScreensCurrent'
    BY KnownKept, QueuedKept, ScreensKept
  <2>3. FromOthers' /\ SenderParts' /\ ScreenSenders' /\ RemovedFirst'
    BY OthersKept, PartsKept, ScreenSendersKept, RemovedFirstKept
  <2>4. Heard' /\ SendersListed' /\ BlockedByOrphans'
    BY HeardKept, SendersListedKept, BlockedKept
  <2> QED BY <2>1, <2>2, <2>3, <2>4
<1> QED BY <1>1, TracksStart, PTL DEF Spec

\* Nobody misses a voice: the iteration over the call's sessions in handleTracks
\* and the one at the end of OnTrack never both pass a track by, whatever the
\* order in which two sessions join, start and send.
THEOREM EverybodyHeard == Spec => []Heard
<1>1. TracksInv => Heard
  BY DEF TracksInv
<1> QED BY <1>1, TracksInvariant, PTL

\* No sender outlives its track: what handleSessionClose and clearScreenState take
\* off the receivers is all that a session lists, but for the tracks it let go of
\* while they were queued or being added.
THEOREM NoSenderOutlives == Spec => []SendersListed
<1>1. TracksInv => SendersListed
  BY DEF TracksInv
<1> QED BY <1>1, TracksInvariant, PTL

\* A session receives one screen at a time: the check of screenTrackSender in
\* addTrack is enough, although it is set only once the client has answered.
THEOREM OneScreenAtATime == Spec => []OneScreen
<1>1. TracksInv => OneScreen
  BY OneOfThem DEF TracksInv
<1> QED BY <1>1, TracksInvariant, PTL

\* A share that ended in good order never keeps the next one out: addTrack says
\* "screen track sender is already set" only because of a track that was orphaned.
THEOREM NextShareGetsIn == Spec => []BlockedByOrphans
<1>1. TracksInv => BlockedByOrphans
  BY DEF TracksInv
<1> QED BY <1>1, TracksInvariant, PTL

==============================================================================
