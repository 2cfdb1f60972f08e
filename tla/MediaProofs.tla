---------------------------- MODULE MediaProofs -----------------------------
(***************************************************************************)
(* Proofs about the media path of a session.                               *)
(*                                                                         *)
(* MultiConn, for any number of sockets: ConnInv says that a buffer is in  *)
(* one place and that the results of a socket stand in line in the order   *)
(* of its reads.  ScreenLevels, for any number of shares: under ScreenInv  *)
(* a track of the share is removed only for one that is queued behind it,  *)
(* or that the rate handler still holds.  VoiceActivity, for any length of *)
(* the window.  RateMonitor, for a ring of any length: RateInv says which  *)
(* packet each index holds, and the loop is followed from the first index  *)
(* at which it could go wrong.                                             *)
(***************************************************************************)
EXTENDS VoiceActivity, ScreenLevels, RateMonitor, MultiConn,
        FiniteSetTheorems, WellFoundedInduction, TLAPS

USE ZenonT(3), SMTT(20)

\* A set of natural numbers has a least element.
LEMMA LeastNumber ==
  ASSUME NEW S \in SUBSET Nat, S # {}
  PROVE  \E x \in S : \A y \in S : x <= y
<1>1. PICK x \in S : \A y \in S : ~(<<y, x>> \in OpToRel(<, Nat))
  BY NatLessThanWellFounded, WFMin, Zenon
<1>2. \A y \in S : ~(y < x)
  BY <1>1 DEF OpToRel
<1> QED BY <1>2

-----------------------------------------------------------------------------
(* MultiConn *)

\* The results on their way to ReadFrom, in order: the one it copies is at 0.
Places == 0..Len(readResultCh)

line(i) == IF i = 0 THEN copying ELSE readResultCh[i]

Results == [socket : Sockets, buf : Buffers, err : {"none", "timeout", "failed"}, num : Nat]

ConnTypes ==
  /\ reader \in [Sockets -> {"getting", "reading", "sending", "done"}]
  /\ result \in [Sockets -> Results \cup {none}]
  /\ bufPool \subseteq Buffers \cup {0}
  /\ content \in [Buffers -> Nat]
  /\ reads \in [Sockets -> Nat]
  /\ readResultCh \in Seq(Results) /\ Len(readResultCh) <= ReadResultChSize
  /\ copying \in Results \cup {none}
  /\ got \in [Sockets -> Seq(Nat)]

\* A buffer is in the pool, with a reader or on the line, and in one place only.
BuffersApart ==
  /\ \A b \in Buffers \ bufPool : \/ \E s \in Sockets : result[s].buf = b
                                  \/ \E i \in Places : line(i).buf = b
  /\ \A s \in Sockets : result[s] # none =>
       /\ result[s].buf \notin bufPool
       /\ \A u \in Sockets \ {s} : result[u].buf # result[s].buf
       /\ \A i \in Places : line(i).buf # result[s].buf
  /\ \A i \in Places : line(i) # none =>
       /\ line(i).buf \notin bufPool
       /\ \A j \in Places \ {i} : line(j).buf # line(i).buf

\* What a reader has in its hands is its next read, then its latest one.
ReaderFacts ==
  \A s \in Sockets :
    /\ reader[s] = "getting" => result[s] = none
    /\ reader[s] \in {"reading", "sending"} => result[s] # none
    /\ result[s] # none => result[s].socket = s
    /\ reader[s] = "reading" => result[s].num = reads[s] + 1 /\ result[s].err = "none"
    /\ reader[s] = "sending" => result[s].num = reads[s]
    /\ reader[s] = "sending" /\ result[s].err = "none" => content[result[s].buf] = result[s].num

\* The reads of a socket that went to readResultCh.
sent(s) == IF result[s] # none THEN result[s].num - 1 ELSE reads[s]

\* Of each socket the line holds the reads ReadFrom has not returned, in order,
\* in buffers that nobody wrote to since.
LineFacts ==
  /\ \A i \in Places : line(i) # none =>
       /\ line(i).err = "none" => content[line(i).buf] = line(i).num
       /\ line(i).num \in (Len(got[line(i).socket]) + 1)..sent(line(i).socket)
       /\ \A j \in Places : line(j) # none /\ i < j /\ line(j).socket = line(i).socket =>
            line(i).num < line(j).num
  /\ \A s \in Sockets : Len(got[s]) <= sent(s)
  /\ \A s \in Sockets : \A n \in (Len(got[s]) + 1)..sent(s) :
       \E i \in Places : line(i) # none /\ line(i).socket = s /\ line(i).num = n

\* The nil buffer of a read from the closed channel is in the pool only when no
\* reader is left to take it.
NilUnused == mcClose = "closed" \/ 0 \in bufPool => \A s \in Sockets : reader[s] = "done"

ConnInv == ConnTypes /\ BuffersApart /\ ReaderFacts /\ LineFacts /\ PacketsInOrder

LEMMA NoneApart ==
  /\ none.buf = 0 /\ none \notin Results
  /\ 0 \notin Buffers /\ Buffers \subseteq Nat
  /\ \A r \in Results : /\ r.buf \in Buffers /\ r.buf # 0 /\ r # none /\ r.socket \in Sockets
                        /\ r.num \in Nat /\ r.err \in {"none", "timeout", "failed"}
<1>1. none.buf = 0
  BY DEF none
<1>2. 0 \notin Buffers /\ Buffers \subseteq Nat
  <2>1. Cardinality(Sockets) + ReadResultChSize + 1 \in Nat
    BY ConnAssumption, FS_CardinalityType
  <2> QED BY <2>1 DEF Buffers
<1>3. \A r \in Results : /\ r.buf \in Buffers /\ r.socket \in Sockets
                         /\ r.num \in Nat /\ r.err \in {"none", "timeout", "failed"}
  BY DEF Results
<1> QED BY <1>1, <1>2, <1>3

\* The least buffer of a pool that has one is in it.
LEMMA MinInPool ==
  ASSUME bufPool \subseteq Buffers, bufPool # {}
  PROVE  Min(bufPool) \in bufPool
<1>1. \E x \in bufPool : \A y \in bufPool : x =< y
  BY NoneApart, LeastNumber
<1> QED BY <1>1 DEF Min

\* The size of a union.
LEMMA UnionBound ==
  ASSUME NEW S, IsFiniteSet(S), NEW T, IsFiniteSet(T)
  PROVE  /\ IsFiniteSet(S \cup T)
         /\ Cardinality(S \cup T) <= Cardinality(S) + Cardinality(T)
<1>1. Cardinality(S \cup T) = Cardinality(S) + Cardinality(T) - Cardinality(S \cap T)
  BY FS_Union, Zenon
<1>2. IsFiniteSet(S \cup T) /\ IsFiniteSet(S \cap T)
  BY FS_Union, FS_Intersection, Zenon
<1>3. Cardinality(S) \in Nat /\ Cardinality(T) \in Nat /\ Cardinality(S \cap T) \in Nat
  BY <1>2, FS_CardinalityType, Zenon
<1> QED BY <1>1, <1>2, <1>3

\* There are buffers enough: a reader that asks for one gets one.
LEMMA FreeBuffer ==
  ASSUME ConnTypes, BuffersApart, NEW s \in Sockets, result[s] = none
  PROVE  bufPool # {}
<1> DEFINE others == Sockets \ {s}
           fr == [u \in others |-> result[u].buf]
           fq == [i \in 1..Len(readResultCh) |-> readResultCh[i].buf]
           R == {result[u].buf : u \in others}
           Q == {readResultCh[i].buf : i \in 1..Len(readResultCh)}
           C == {copying.buf}
<1>1. SUFFICES ASSUME bufPool = {} PROVE FALSE
  OBVIOUS
<1>2. Buffers \subseteq R \cup (Q \cup C)
  <2>1. ASSUME NEW b \in Buffers PROVE b \in R \cup (Q \cup C)
    <3>1. CASE \E u \in Sockets : result[u].buf = b
      BY <3>1, NoneApart
    <3>2. CASE \E i \in Places : line(i).buf = b
      <4>1. PICK i \in Places : line(i).buf = b
        BY <3>2
      <4>2. i = 0 \/ i \in 1..Len(readResultCh)
        BY DEF Places, ConnTypes
      <4> QED BY <4>1, <4>2 DEF line
    <3> QED BY <1>1, <3>1, <3>2 DEF BuffersApart
  <2> QED BY <2>1
<1>3. IsFiniteSet(R) /\ Cardinality(R) <= Cardinality(others) /\ IsFiniteSet(others)
  <2>1. fr \in Surjection(others, R)
    BY DEF Surjection
  <2>2. IsFiniteSet(others)
    BY ConnAssumption, FS_RemoveElement
  <2> HIDE DEF fr, R, others
  <2> QED BY <2>1, <2>2, FS_Surjection
<1>4. Len(readResultCh) \in Nat /\ Len(readResultCh) <= ReadResultChSize
  BY DEF ConnTypes
<1>5. IsFiniteSet(Q) /\ Cardinality(Q) <= Len(readResultCh)
  <2>1. fq \in Surjection(1..Len(readResultCh), Q)
    BY DEF Surjection
  <2>2. /\ IsFiniteSet(1..Len(readResultCh))
        /\ Cardinality(1..Len(readResultCh)) = Len(readResultCh)
    BY <1>4, FS_Interval
  <2> HIDE DEF fq, Q
  <2>3. IsFiniteSet(Q) /\ Cardinality(Q) <= Cardinality(1..Len(readResultCh))
    BY <2>1, <2>2, FS_Surjection
  <2> QED BY <2>2, <2>3
<1>6. IsFiniteSet(C) /\ Cardinality(C) = 1
  BY FS_Singleton
<1>7. Cardinality(others) = Cardinality(Sockets) - 1 /\ Cardinality(Sockets) \in Nat
  BY ConnAssumption, FS_RemoveElement, FS_CardinalityType
<1> HIDE DEF R, Q, C, others
<1>8. IsFiniteSet(Q \cup C) /\ Cardinality(Q \cup C) <= Cardinality(Q) + Cardinality(C)
  BY <1>5, <1>6, UnionBound
<1>9. /\ IsFiniteSet(R \cup (Q \cup C))
      /\ Cardinality(R \cup (Q \cup C)) <= Cardinality(R) + Cardinality(Q \cup C)
  BY <1>3, <1>8, UnionBound
<1>10. Cardinality(Buffers) = Cardinality(Sockets) + ReadResultChSize + 1
  BY <1>7, ConnAssumption, FS_Interval DEF Buffers
<1>11. Cardinality(Buffers) <= Cardinality(R \cup (Q \cup C))
  BY <1>2, <1>9, FS_Subset
<1>12. /\ Cardinality(R) \in Nat /\ Cardinality(Q) \in Nat /\ Cardinality(Q \cup C) \in Nat
       /\ Cardinality(R \cup (Q \cup C)) \in Nat
  BY <1>3, <1>5, <1>8, <1>9, FS_CardinalityType
<1> QED BY <1>3, <1>4, <1>5, <1>6, <1>7, <1>8, <1>9, <1>10, <1>11, <1>12, ConnAssumption

LEMMA LineTypes ==
  ASSUME ConnTypes
  PROVE  /\ \A i \in Places : line(i) \in Results \cup {none} /\ (i # 0 => line(i) \in Results)
         /\ \A i \in Places : i \in Nat /\ (i = 0 \/ i \in 1..Len(readResultCh))
         /\ Len(readResultCh) \in Nat /\ 0 \in Places
<1>1. \A i \in Places : i \in Nat /\ (i = 0 \/ i \in 1..Len(readResultCh))
  BY DEF Places, ConnTypes
<1>2. Len(readResultCh) \in Nat /\ 0 \in Places
  BY DEF Places, ConnTypes
<1>3. \A i \in 1..Len(readResultCh) : readResultCh[i] \in Results
  BY DEF ConnTypes
<1>4. \A i \in Places : line(i) \in Results \cup {none} /\ (i # 0 => line(i) \in Results)
  BY <1>1, <1>3 DEF line, ConnTypes
<1> QED BY <1>1, <1>2, <1>4

\* The steps that leave the line alone and write to no buffer on it.
LEMMA LineStays ==
  ASSUME ConnTypes, LineFacts, UNCHANGED <<readResultCh, copying, got>>,
         \A s \in Sockets : sent(s)' = sent(s),
         \A i \in Places : line(i) # none => content'[line(i).buf] = content[line(i).buf]
  PROVE  LineFacts'
<1>1. Places' = Places /\ \A i \in Places : line(i)' = line(i)
  BY DEF Places, line
<1>2. \A i \in Places : line(i) # none => line(i).socket \in Sockets
  BY LineTypes, NoneApart
<1> QED BY <1>1, <1>2 DEF LineFacts

\* The steps that move no buffer.
LEMMA BuffersStay ==
  ASSUME BuffersApart, UNCHANGED <<readResultCh, copying, bufPool>>,
         \A s \in Sockets : result'[s].buf = result[s].buf /\ (result'[s] # none => result[s] # none)
  PROVE  BuffersApart'
<1>1. Places' = Places /\ \A i \in Places : line(i)' = line(i)
  BY DEF Places, line
<1> QED BY <1>1 DEF BuffersApart

LEMMA GetBufferKeeps ==
  ASSUME ConnInv, NilUnused, NEW s \in Sockets, GetBuffer(s)
  PROVE  ConnInv'
<1> DEFINE b == Min(bufPool)
           r == [socket |-> s, buf |-> b, err |-> "none", num |-> reads[s] + 1]
<1>0. ConnTypes /\ BuffersApart /\ ReaderFacts /\ LineFacts /\ PacketsInOrder
  BY DEF ConnInv
<1>1. /\ reader[s] = "getting" /\ reader' = [reader EXCEPT ![s] = "reading"]
      /\ bufPool' = bufPool \ {b} /\ result' = [result EXCEPT ![s] = r]
      /\ UNCHANGED <<content, reads, readResultCh, copying, got, openSockets, mcClose>>
  BY DEF GetBuffer
<1>2. result[s] = none
  BY <1>0, <1>1 DEF ReaderFacts
<1>3. b \in bufPool /\ b \in Buffers
  <2>1. bufPool \subseteq Buffers
    BY <1>0, <1>1 DEF ConnTypes, NilUnused
  <2> QED BY <1>0, <1>2, <2>1, FreeBuffer, MinInPool
<1>4. reads[s] \in Nat
  BY <1>0 DEF ConnTypes
<1> HIDE DEF b
<1>5. r \in Results /\ r # none /\ r.buf = b /\ r.num = reads[s] + 1 /\ r.socket = s /\ r.err = "none"
  <2>1. r \in Results
    BY <1>3, <1>4 DEF Results
  <2> QED BY <2>1, NoneApart
<1> HIDE DEF r
<1>6. result'[s] = r /\ \A u \in Sockets \ {s} : result'[u] = result[u]
  BY <1>0, <1>1 DEF ConnTypes
<1>b. bufPool' = bufPool \ {b}
  BY <1>1
<1>u. reads' = reads /\ content' = content
  BY <1>1
<1>7. ConnTypes'
  BY <1>0, <1>1, <1>5 DEF ConnTypes
<1>8. Places' = Places /\ \A i \in Places : line(i)' = line(i)
  BY <1>1 DEF Places, line
<1>9. BuffersApart'
  <2>1. \A u \in Sockets : result[u] = none \/ result[u].buf \notin bufPool
    BY <1>0 DEF BuffersApart
  <2>2. \A i \in Places : line(i) = none \/ line(i).buf \notin bufPool
    BY <1>0 DEF BuffersApart
  <2>3. none.buf \notin bufPool /\ none.buf \notin Buffers
    BY <1>1, NoneApart DEF NilUnused
  <2>4. \A c \in Buffers \ bufPool' : \/ \E u \in Sockets : result'[u].buf = c
                                      \/ \E i \in Places' : line(i)'.buf = c
    BY <1>0, <1>b, <1>2, <1>5, <1>6, <1>8, <2>3 DEF BuffersApart
  <2>5. ASSUME NEW u \in Sockets, result'[u] # none
        PROVE  /\ result'[u].buf \notin bufPool'
               /\ \A v \in Sockets \ {u} : result'[v].buf # result'[u].buf
               /\ \A i \in Places' : line(i)'.buf # result'[u].buf
    <3>1. CASE u = s
      BY <1>b, <1>3, <1>5, <1>6, <1>8, <2>1, <2>2, <2>3, <3>1
    <3>2. CASE u # s
      <4>1. /\ result'[u] = result[u] /\ result[u].buf \notin bufPool
            /\ \A v \in Sockets \ {u} : result[v].buf # result[u].buf
            /\ \A i \in Places : line(i).buf # result[u].buf
        BY <1>0, <1>6, <2>5, <3>2 DEF BuffersApart
      <4>2. b # result[u].buf
        BY <1>3, <4>1
      <4> QED BY <1>b, <1>5, <1>6, <1>8, <4>1, <4>2
    <3> QED BY <3>1, <3>2
  <2>6. \A i \in Places' : line(i)' # none =>
          /\ line(i)'.buf \notin bufPool'
          /\ \A j \in Places' \ {i} : line(j)'.buf # line(i)'.buf
    BY <1>0, <1>b, <1>8 DEF BuffersApart
  <2> QED BY <2>4, <2>5, <2>6 DEF BuffersApart
<1>10. ReaderFacts'
  <2>1. \A u \in Sockets \ {s} : reader'[u] = reader[u]
    BY <1>0, <1>1 DEF ConnTypes
  <2>2. reader'[s] = "reading"
    BY <1>0, <1>1 DEF ConnTypes
  <2> QED BY <1>0, <1>u, <1>5, <1>6, <2>1, <2>2 DEF ReaderFacts
<1>11. LineFacts'
  <2>1. ASSUME NEW u \in Sockets PROVE sent(u)' = sent(u)
    <3>1. reads'[u] = reads[u]
      BY <1>1
    <3>2. CASE u = s
      <4>1. sent(u)' = r.num - 1 /\ sent(u) = reads[s]
        BY <1>2, <1>5, <1>6, <3>2 DEF sent
      <4> QED BY <1>4, <1>5, <4>1
    <3>3. CASE u # s
      <4>1. result'[u] = result[u]
        BY <1>6, <3>3
      <4> QED BY <3>1, <4>1 DEF sent
    <3> QED BY <3>2, <3>3
  <2> QED BY <1>0, <1>1, <2>1, LineStays
<1>12. PacketsInOrder'
  BY <1>0, <1>1 DEF PacketsInOrder
<1> QED BY <1>7, <1>9, <1>10, <1>11, <1>12 DEF ConnInv

LEMMA ReadPacketKeeps ==
  ASSUME ConnInv, NEW s \in Sockets, ReadPacket(s)
  PROVE  ConnInv'
<1> DEFINE b == result[s].buf
<1>0. ConnTypes /\ BuffersApart /\ ReaderFacts /\ LineFacts /\ PacketsInOrder
  BY DEF ConnInv
<1>1. /\ reader[s] = "reading" /\ reader' = [reader EXCEPT ![s] = "sending"]
      /\ reads' = [reads EXCEPT ![s] = @ + 1]
      /\ content' = [content EXCEPT ![b] = reads[s] + 1]
      /\ UNCHANGED <<result, bufPool, readResultCh, copying, got, openSockets, mcClose>>
  BY DEF ReadPacket
<1>2. /\ result[s] # none /\ result[s] \in Results /\ result[s].num = reads[s] + 1
      /\ b \in Buffers /\ reads[s] \in Nat
  BY <1>0, <1>1, NoneApart DEF ReaderFacts, ConnTypes
<1> HIDE DEF b
<1>3. /\ content'[b] = reads[s] + 1 /\ \A c \in Buffers \ {b} : content'[c] = content[c]
      /\ reader'[s] = "sending" /\ \A u \in Sockets \ {s} : reader'[u] = reader[u]
      /\ reads'[s] = reads[s] + 1 /\ \A u \in Sockets \ {s} : reads'[u] = reads[u]
  BY <1>0, <1>1, <1>2 DEF ConnTypes
<1>4. ConnTypes'
  BY <1>0, <1>1, <1>2 DEF ConnTypes
<1>5. BuffersApart'
  BY <1>0, <1>1, BuffersStay
<1>6. ReaderFacts'
  <2>1. \A u \in Sockets \ {s} : result[u] # none => result[u].buf \in Buffers \ {b}
    BY <1>0, <1>2, NoneApart DEF BuffersApart, ConnTypes, b
  <2>2. \A u \in Sockets \ {s} : result[u] # none => content'[result[u].buf] = content[result[u].buf]
    BY <1>3, <2>1
  <2>3. ASSUME NEW u \in Sockets
        PROVE  /\ reader'[u] = "getting" => result[u] = none
               /\ reader'[u] \in {"reading", "sending"} => result[u] # none
               /\ result[u] # none => result[u].socket = u
               /\ reader'[u] = "reading" => result[u].num = reads'[u] + 1 /\ result[u].err = "none"
               /\ reader'[u] = "sending" => result[u].num = reads'[u]
               /\ reader'[u] = "sending" /\ result[u].err = "none" => content'[result[u].buf] = result[u].num
    <3>1. CASE u = s
      BY <1>0, <1>2, <1>3, <3>1 DEF ReaderFacts, b
    <3>2. CASE u # s
      BY <1>0, <1>3, <2>2, <3>2 DEF ReaderFacts
    <3> QED BY <3>1, <3>2
  <2> QED BY <1>1, <2>3 DEF ReaderFacts
<1>7. LineFacts'
  <2>1. \A u \in Sockets : sent(u)' = sent(u)
    BY <1>1, <1>2, <1>3 DEF sent
  <2>2. \A i \in Places : line(i) # none => line(i).buf \in Buffers \ {b}
    BY <1>0, <1>2, NoneApart, LineTypes DEF BuffersApart, b
  <2>3. \A i \in Places : line(i) # none => content'[line(i).buf] = content[line(i).buf]
    BY <1>3, <2>2
  <2> QED BY <1>0, <1>1, <2>1, <2>3, LineStays
<1>8. PacketsInOrder'
  BY <1>0, <1>1 DEF PacketsInOrder
<1> QED BY <1>4, <1>5, <1>6, <1>7, <1>8 DEF ConnInv

LEMMA ReadErrorKeeps ==
  ASSUME ConnInv, NEW s \in Sockets, NEW err \in {"timeout", "failed"}, ReadError(s, err)
  PROVE  ConnInv'
<1> DEFINE r == [result[s] EXCEPT !.err = err]
<1>0. ConnTypes /\ BuffersApart /\ ReaderFacts /\ LineFacts /\ PacketsInOrder
  BY DEF ConnInv
<1>1. /\ reader[s] = "reading" /\ reader' = [reader EXCEPT ![s] = "sending"]
      /\ reads' = [reads EXCEPT ![s] = @ + 1]
      /\ result' = [result EXCEPT ![s] = r]
      /\ UNCHANGED <<bufPool, content, readResultCh, copying, got, openSockets, mcClose>>
  BY DEF ReadError
<1>2. result[s] # none /\ result[s] \in Results /\ result[s].num = reads[s] + 1 /\ reads[s] \in Nat
  BY <1>0, <1>1 DEF ReaderFacts, ConnTypes
<1>3. r \in Results /\ r.buf = result[s].buf /\ r.num = result[s].num /\ r.socket = result[s].socket /\ r.err = err
  BY <1>2 DEF Results
<1>4. r # none
  BY <1>3, NoneApart
<1> HIDE DEF r
<1>5. /\ result'[s] = r /\ \A u \in Sockets \ {s} : result'[u] = result[u]
      /\ reader'[s] = "sending" /\ \A u \in Sockets \ {s} : reader'[u] = reader[u]
      /\ reads'[s] = reads[s] + 1 /\ \A u \in Sockets \ {s} : reads'[u] = reads[u]
  BY <1>0, <1>1, <1>2 DEF ConnTypes
<1>6. ConnTypes'
  BY <1>0, <1>1, <1>2, <1>3 DEF ConnTypes
<1>7. BuffersApart'
  BY <1>0, <1>1, <1>2, <1>3, <1>5, BuffersStay
<1>8. ReaderFacts'
  BY <1>0, <1>1, <1>2, <1>3, <1>4, <1>5 DEF ReaderFacts
<1>9. LineFacts'
  <2>1. \A u \in Sockets : sent(u)' = sent(u)
    BY <1>2, <1>3, <1>4, <1>5 DEF sent
  <2> QED BY <1>0, <1>1, <2>1, LineStays
<1>10. PacketsInOrder'
  BY <1>0, <1>1 DEF PacketsInOrder
<1> QED BY <1>6, <1>7, <1>8, <1>9, <1>10 DEF ConnInv

LEMMA ReaderEndsKeeps ==
  ASSUME ConnInv, NEW s \in Sockets, ReaderEnds(s)
  PROVE  ConnInv'
<1>0. ConnTypes /\ BuffersApart /\ ReaderFacts /\ LineFacts /\ PacketsInOrder
  BY DEF ConnInv
<1>1. /\ reader' = [reader EXCEPT ![s] = "done"]
      /\ UNCHANGED <<result, bufPool, content, reads, readResultCh, copying, got>>
  BY DEF ReaderEnds
<1>2. ConnTypes' /\ PacketsInOrder'
  BY <1>0, <1>1 DEF ConnTypes, PacketsInOrder
<1>3. BuffersApart'
  BY <1>0, <1>1, BuffersStay
<1>4. ReaderFacts'
  <2>1. reader'[s] = "done" /\ \A u \in Sockets \ {s} : reader'[u] = reader[u]
    BY <1>0, <1>1 DEF ConnTypes
  <2> QED BY <1>0, <1>1, <2>1 DEF ReaderFacts
<1>5. LineFacts'
  <2>1. \A u \in Sockets : sent(u)' = sent(u)
    BY <1>1 DEF sent
  <2> QED BY <1>0, <1>1, <2>1, LineStays
<1> QED BY <1>2, <1>3, <1>4, <1>5 DEF ConnInv

LEMMA SendResultKeeps ==
  ASSUME ConnInv, NEW s \in Sockets, SendResult(s)
  PROVE  ConnInv'
<1>0. ConnTypes /\ BuffersApart /\ ReaderFacts /\ LineFacts /\ PacketsInOrder
  BY DEF ConnInv
<1>p. PICK r, n : r = result[s] /\ n = Len(readResultCh)
  OBVIOUS
<1>1. /\ reader[s] = "sending" /\ n < ReadResultChSize
      /\ readResultCh' = Append(readResultCh, r)
      /\ \E p \in {"done", "getting"} : reader' = [reader EXCEPT ![s] = p]
      /\ result' = [result EXCEPT ![s] = none]
      /\ UNCHANGED <<bufPool, content, reads, copying, got, openSockets, mcClose>>
  BY <1>p DEF SendResult
<1>2. /\ r # none /\ r \in Results /\ r.num = reads[s] /\ r.socket = s /\ reads[s] \in Nat
      /\ r.err = "none" => content[r.buf] = r.num
  BY <1>0, <1>1, <1>p DEF ReaderFacts, ConnTypes
<1>3. n \in Nat /\ ReadResultChSize \in Nat
  BY <1>0, <1>p, LineTypes, ConnAssumption
<1>4. /\ Len(readResultCh') = n + 1 /\ readResultCh'[n + 1] = r
      /\ \A i \in 1..n : readResultCh'[i] = readResultCh[i]
      /\ readResultCh' \in Seq(Results)
  BY <1>0, <1>1, <1>2, <1>p, <1>3 DEF ConnTypes
<1>5. /\ Places' = Places \cup {n + 1} /\ n + 1 \notin Places /\ n + 1 # 0
      /\ \A i \in Places : i \in Nat /\ i < n + 1 /\ i # n + 1
  BY <1>3, <1>4, <1>p DEF Places
<1>6. line(n + 1)' = r /\ \A i \in Places : line(i)' = line(i)
  <2>1. \A i \in Places : i = 0 \/ i \in 1..n
    BY <1>3, <1>p DEF Places
  <2> QED BY <1>1, <1>4, <1>5, <2>1 DEF line
<1>7. /\ result'[s] = none /\ \A u \in Sockets \ {s} : result'[u] = result[u]
      /\ reader'[s] \in {"done", "getting"} /\ \A u \in Sockets \ {s} : reader'[u] = reader[u]
  BY <1>0, <1>1 DEF ConnTypes
<1>8. ConnTypes'
  <2>0. Len(readResultCh') = n + 1 /\ n < ReadResultChSize
    BY <1>1, <1>4
  <2>1. Len(readResultCh') <= ReadResultChSize
    BY <1>3, <2>0
  <2> QED BY <1>0, <1>1, <1>4, <2>1 DEF ConnTypes
<1>9. none.buf = 0 /\ r.buf # 0 /\ r.buf \in Buffers /\ \A b \in Buffers : b # 0
  BY <1>2, NoneApart
<1>10. /\ r.buf \notin bufPool
       /\ \A u \in Sockets \ {s} : result[u].buf # r.buf
       /\ \A i \in Places : line(i).buf # r.buf
  BY <1>0, <1>2, <1>p DEF BuffersApart
<1>11. BuffersApart'
  <2>1. \A b \in Buffers \ bufPool' : \/ \E u \in Sockets : result'[u].buf = b
                                      \/ \E i \in Places' : line(i)'.buf = b
    BY <1>0, <1>1, <1>5, <1>6, <1>7, <1>9, <1>p DEF BuffersApart
  <2>2. \A u \in Sockets : result'[u] # none =>
          /\ result'[u].buf \notin bufPool'
          /\ \A v \in Sockets \ {u} : result'[v].buf # result'[u].buf
          /\ \A i \in Places' : line(i)'.buf # result'[u].buf
    <3>1. ASSUME NEW u \in Sockets, result'[u] # none
          PROVE  u # s /\ result'[u] = result[u] /\ result[u] # none /\ result[u].buf # 0
      BY <1>0, <1>7, <3>1, NoneApart DEF ConnTypes
    <3> QED BY <1>0, <1>1, <1>5, <1>6, <1>7, <1>9, <1>10, <3>1 DEF BuffersApart
  <2>3. ASSUME NEW i \in Places', line(i)' # none
        PROVE  /\ line(i)'.buf \notin bufPool'
               /\ \A j \in Places' \ {i} : line(j)'.buf # line(i)'.buf
    <3>1. CASE i = n + 1
      BY <1>1, <1>5, <1>6, <1>10, <3>1
    <3>2. CASE i # n + 1
      <4>1. i \in Places /\ line(i)' = line(i) /\ line(i) # none
        BY <1>5, <1>6, <2>3, <3>2
      <4> QED BY <1>0, <1>1, <1>5, <1>6, <1>10, <4>1 DEF BuffersApart
    <3> QED BY <3>1, <3>2
  <2> QED BY <2>1, <2>2, <2>3 DEF BuffersApart
<1>12. ReaderFacts'
  BY <1>0, <1>1, <1>7 DEF ReaderFacts
<1>13. sent(s) = r.num - 1 /\ sent(s)' = r.num /\ \A u \in Sockets \ {s} : sent(u)' = sent(u)
  BY <1>1, <1>2, <1>7, <1>p DEF sent
<1>14. LineFacts'
  <2>0. \A u \in Sockets : Len(got[u]) \in Nat /\ got'[u] = got[u] /\ Len(got[u]) <= sent(u)
    BY <1>0, <1>1 DEF ConnTypes, LineFacts
  <2>1. \A u \in Sockets : sent(u) \in Int
    BY <1>0, NoneApart DEF sent, ConnTypes
  <2>2. ASSUME NEW u \in Sockets, NEW m \in (Len(got[u]) + 1)..sent(u)
        PROVE  m \in (Len(got'[u]) + 1)..sent(u)' /\ (u = s => m < r.num)
    BY <1>2, <1>13, <2>0, <2>1, NoneApart
  <2>3. /\ \A u \in Sockets : Len(got'[u]) <= sent(u)'
        /\ r.num \in (Len(got'[s]) + 1)..sent(s)'
    BY <1>2, <1>13, <2>0, <2>1, NoneApart
  <2>4. ASSUME NEW u \in Sockets, NEW m \in (Len(got'[u]) + 1)..sent(u)'
        PROVE  m \in (Len(got[u]) + 1)..sent(u) \/ (u = s /\ m = r.num)
    BY <1>2, <1>13, <2>0, <2>1, NoneApart
  <2>5. \A i \in Places : line(i) # none => line(i).socket \in Sockets
    BY <1>0, LineTypes, NoneApart
  <2>6. ASSUME NEW i \in Places', NEW l, l = line(i)', l # none
        PROVE  /\ l.err = "none" => content'[l.buf] = l.num
               /\ l.num \in (Len(got'[l.socket]) + 1)..sent(l.socket)'
               /\ \A j \in Places' : line(j)' # none /\ i < j /\ line(j)'.socket = l.socket =>
                    l.num < line(j)'.num
    <3>1. CASE i = n + 1
      <4>1. l = r /\ \A j \in Places' : ~(i < j)
        BY <1>3, <1>5, <1>6, <2>6, <3>1
      <4> QED BY <1>1, <1>2, <2>3, <4>1
    <3>2. CASE i # n + 1
      <4>1. i \in Places /\ l = line(i)
        BY <1>5, <1>6, <2>6, <3>2
      <4>2. /\ l.err = "none" => content[l.buf] = l.num
            /\ l.num \in (Len(got[l.socket]) + 1)..sent(l.socket)
            /\ \A j \in Places : line(j) # none /\ i < j /\ line(j).socket = l.socket =>
                 l.num < line(j).num
        BY <1>0, <2>6, <4>1 DEF LineFacts
      <4>3. l.socket \in Sockets
        BY <2>5, <2>6, <4>1
      <4>4. l.num \in (Len(got'[l.socket]) + 1)..sent(l.socket)' /\ (l.socket = s => l.num < r.num)
        BY <2>2, <4>2, <4>3
      <4>5. ASSUME NEW j \in Places', line(j)' # none, i < j, line(j)'.socket = l.socket
            PROVE  l.num < line(j)'.num
        <5>1. CASE j = n + 1
          BY <1>2, <1>6, <4>4, <4>5, <5>1
        <5>2. CASE j # n + 1
          BY <1>5, <1>6, <4>2, <4>5, <5>2
        <5> QED BY <5>1, <5>2
      <4> QED BY <1>1, <4>2, <4>4, <4>5
    <3> QED BY <3>1, <3>2
  <2>7. ASSUME NEW u \in Sockets, NEW m \in (Len(got'[u]) + 1)..sent(u)'
        PROVE  \E i \in Places' : line(i)' # none /\ line(i)'.socket = u /\ line(i)'.num = m
    <3>1. CASE m \in (Len(got[u]) + 1)..sent(u)
      BY <1>0, <1>5, <1>6, <3>1 DEF LineFacts
    <3>2. CASE u = s /\ m = r.num
      BY <1>2, <1>5, <1>6, <3>2
    <3> QED BY <2>4, <3>1, <3>2
  <2> QED BY <2>3, <2>6, <2>7 DEF LineFacts
<1>15. PacketsInOrder'
  BY <1>0, <1>1 DEF PacketsInOrder
<1> QED BY <1>8, <1>11, <1>12, <1>14, <1>15 DEF ConnInv

LEMMA ReceiveResultKeeps ==
  ASSUME ConnInv, ReceiveResult
  PROVE  ConnInv'
<1>0. ConnTypes /\ BuffersApart /\ ReaderFacts /\ LineFacts /\ PacketsInOrder
  BY DEF ConnInv
<1>p. PICK n : n = Len(readResultCh)
  OBVIOUS
<1>1. /\ copying = none /\ readResultCh # <<>>
      /\ copying' = Head(readResultCh) /\ readResultCh' = Tail(readResultCh)
      /\ UNCHANGED <<bufPool, reader, result, content, reads, got, openSockets, mcClose>>
  BY DEF ReceiveResult, putAtReceive
<1>2. /\ n \in Nat \ {0} /\ copying' = readResultCh[1] /\ readResultCh[1] \in Results
      /\ Len(readResultCh') = n - 1 /\ readResultCh' \in Seq(Results)
      /\ \A i \in 1..(n - 1) : readResultCh'[i] = readResultCh[i + 1]
  BY <1>0, <1>1, <1>p DEF ConnTypes
<1>3. /\ Places' = 0..(n - 1) /\ Places = 0..n
      /\ \A i \in Places' : i + 1 \in Places /\ i + 1 # 0 /\ line(i + 1) \in Results
      /\ \A i \in Places : i # 0 => i - 1 \in Places' /\ (i - 1) + 1 = i
  <2>1. Places' = 0..(n - 1) /\ Places = 0..n
    BY <1>2, <1>p DEF Places
  <2>2. /\ \A i \in Places' : i + 1 \in Places /\ i + 1 # 0
        /\ \A i \in Places : i # 0 => i - 1 \in Places' /\ (i - 1) + 1 = i
    BY <1>2, <2>1
  <2> QED BY <1>0, <2>1, <2>2, LineTypes
<1>4. line(0) = none /\ \A i \in Places' : line(i)' = line(i + 1)
  <2>1. \A i \in Places' : i = 0 \/ (i \in 1..(n - 1) /\ i + 1 # 0)
    BY <1>2, <1>3
  <2> QED BY <1>1, <1>2, <2>1 DEF line
<1>5. ConnTypes'
  <2>1. n - 1 <= ReadResultChSize
    BY <1>0, <1>2, <1>p, ConnAssumption DEF ConnTypes
  <2> QED BY <1>0, <1>1, <1>2, <2>1 DEF ConnTypes
<1>6. none.buf = 0 /\ \A b \in Buffers : b # 0
  BY NoneApart
<1>7. BuffersApart'
  <2>1. ASSUME NEW b \in Buffers, NEW i \in Places, line(i).buf = b
        PROVE  \E j \in Places' : line(j)'.buf = b
    <3>1. i # 0
      BY <1>4, <1>6, <2>1
    <3>2. i - 1 \in Places' /\ line(i - 1)' = line(i)
      BY <1>3, <1>4, <3>1
    <3> QED BY <2>1, <3>2
  <2>2. \A b \in Buffers \ bufPool' : \/ \E s \in Sockets : result'[s].buf = b
                                      \/ \E i \in Places' : line(i)'.buf = b
    BY <1>0, <1>1, <2>1 DEF BuffersApart
  <2>3. \A i, j \in Places' : i # j => i + 1 # j + 1
    BY <1>3
  <2> QED BY <1>0, <1>1, <1>3, <1>4, <2>2, <2>3 DEF BuffersApart
<1>8. ReaderFacts' /\ PacketsInOrder'
  BY <1>0, <1>1 DEF ReaderFacts, PacketsInOrder
<1>9. LineFacts'
  <2>1. \A s \in Sockets : sent(s)' = sent(s)
    BY <1>1 DEF sent
  <2>2. \A r \in Results : r # none /\ r.socket \in Sockets
    BY NoneApart
  <2>3. \A i, j \in Places' : i < j => i + 1 < j + 1
    BY <1>2, <1>3
  <2>4. ASSUME NEW i \in Places', NEW l, l = line(i)', l # none
        PROVE  /\ l.err = "none" => content'[l.buf] = l.num
               /\ l.num \in (Len(got'[l.socket]) + 1)..sent(l.socket)'
               /\ \A j \in Places' : line(j)' # none /\ i < j /\ line(j)'.socket = l.socket =>
                    l.num < line(j)'.num
    <3>1. l = line(i + 1) /\ i + 1 \in Places /\ l.socket \in Sockets
      BY <1>3, <1>4, <2>2, <2>4
    <3>2. /\ l.err = "none" => content[l.buf] = l.num
          /\ l.num \in (Len(got[l.socket]) + 1)..sent(l.socket)
          /\ \A j \in Places : line(j) # none /\ i + 1 < j /\ line(j).socket = l.socket =>
               l.num < line(j).num
      BY <1>0, <2>4, <3>1 DEF LineFacts
    <3> QED BY <1>1, <1>3, <1>4, <2>1, <2>3, <3>1, <3>2
  <2>5. ASSUME NEW s \in Sockets, NEW m \in (Len(got[s]) + 1)..sent(s)
        PROVE  \E i \in Places' : line(i)' # none /\ line(i)'.socket = s /\ line(i)'.num = m
    <3>1. PICK i \in Places : line(i) # none /\ line(i).socket = s /\ line(i).num = m
      BY <1>0 DEF LineFacts
    <3>2. i - 1 \in Places' /\ line(i - 1)' = line(i)
      BY <1>3, <1>4, <3>1
    <3> QED BY <3>1, <3>2
  <2>6. \A s \in Sockets : Len(got'[s]) <= sent(s)'
    BY <1>0, <1>1, <2>1 DEF LineFacts
  <2>7. \A s \in Sockets : \A m \in (Len(got'[s]) + 1)..sent(s)' :
          \E i \in Places' : line(i)' # none /\ line(i)'.socket = s /\ line(i)'.num = m
    BY <1>1, <2>1, <2>5
  <2> QED BY <2>4, <2>6, <2>7 DEF LineFacts
<1> QED BY <1>5, <1>7, <1>8, <1>9 DEF ConnInv

\* The result at the head of the line is the first read of its socket that
\* ReadFrom has not returned.
LEMMA HeadIsNext ==
  ASSUME ConnTypes, LineFacts, copying # none
  PROVE  copying.num = Len(got[copying.socket]) + 1
<1> DEFINE s == copying.socket
           m == Len(got[s]) + 1
<1>1. 0 \in Places /\ line(0) = copying /\ copying \in Results
  BY LineTypes DEF line, ConnTypes
<1>2. s \in Sockets /\ copying.num \in Nat /\ m \in Nat
  BY <1>1, NoneApart DEF ConnTypes
<1>3. copying.num \in m..sent(s) /\ sent(s) \in Int
  BY <1>1, <1>2, NoneApart DEF LineFacts, sent, ConnTypes
<1> HIDE DEF s, m
<1>4. m \in m..sent(s) /\ m <= copying.num
  BY <1>2, <1>3
<1>5. PICK i \in Places : line(i) # none /\ line(i).socket = s /\ line(i).num = m
  BY <1>2, <1>4 DEF LineFacts, m
<1>6. i = 0 \/ copying.num < m
  <2>1. i = 0 \/ 0 < i
    BY LineTypes
  <2> QED BY <1>1, <1>5, <2>1 DEF LineFacts, s
<1>7. copying.num = m
  BY <1>1, <1>2, <1>4, <1>5, <1>6
<1> QED BY <1>7 DEF s, m

LEMMA ReadFromKeeps ==
  ASSUME ConnInv, ReadFrom
  PROVE  ConnInv'
<1>0. ConnTypes /\ BuffersApart /\ ReaderFacts /\ LineFacts /\ PacketsInOrder
  BY DEF ConnInv
<1>p. PICK c, s, v : /\ c = copying /\ s = copying.socket
                     /\ v = IF copying.err = "none" THEN content[copying.buf] ELSE 0
  OBVIOUS
<1>1. /\ copying # none /\ got' = [got EXCEPT ![s] = Append(@, v)]
      /\ bufPool' = bufPool \cup {c.buf} /\ content' = [content EXCEPT ![c.buf] = 0]
      /\ copying' = none
      /\ UNCHANGED <<reader, result, reads, readResultCh, openSockets, mcClose>>
  BY <1>p DEF ReadFrom
<1>2. /\ c \in Results /\ c # none /\ c.buf \in Buffers /\ s \in Sockets /\ c.num = Len(got[s]) + 1
      /\ 0 \in Places /\ line(0) = c
  BY <1>0, <1>1, <1>p, HeadIsNext, LineTypes, NoneApart DEF ConnTypes, line
<1>3. v \in {c.num, 0} /\ v \in Nat
  BY <1>0, <1>2, <1>p, NoneApart DEF LineFacts
<1>4. got[s] \in Seq(Nat) /\ Len(got[s]) \in Nat
  BY <1>0, <1>2 DEF ConnTypes
<1>5. /\ got'[s] = Append(got[s], v) /\ got' \in [Sockets -> Seq(Nat)]
      /\ \A u \in Sockets \ {s} : got'[u] = got[u]
  BY <1>0, <1>1, <1>2, <1>3, <1>4 DEF ConnTypes
<1>6. /\ Len(got'[s]) = Len(got[s]) + 1 /\ got'[s][Len(got[s]) + 1] = v
      /\ \A i \in 1..Len(got[s]) : got'[s][i] = got[s][i]
      /\ DOMAIN got[s] = 1..Len(got[s]) /\ DOMAIN got'[s] = 1..(Len(got[s]) + 1)
  BY <1>3, <1>4, <1>5
<1>7. ConnTypes'
  BY <1>0, <1>1, <1>2, <1>5 DEF ConnTypes
<1>8. /\ Places' = Places /\ line(0)' = none
      /\ \A i \in Places \ {0} : line(i)' = line(i) /\ line(i) # none
  <2>1. Places' = Places /\ line(0)' = none /\ \A i \in Places \ {0} : line(i)' = line(i)
    BY <1>1 DEF Places, line
  <2> QED BY <1>0, <2>1, LineTypes, NoneApart
<1>9. none.buf = 0 /\ \A b \in Buffers : b # 0
  BY NoneApart
<1>10. /\ \A u \in Sockets : result[u].buf # c.buf
       /\ \A i \in Places \ {0} : line(i).buf # c.buf
  <2>1. \A u \in Sockets : result[u] # none => result[u].buf # c.buf
    BY <1>0, <1>2 DEF BuffersApart
  <2>2. \A i \in Places \ {0} : line(i).buf # c.buf
    BY <1>0, <1>2 DEF BuffersApart
  <2> QED BY <1>2, <1>9, <2>1, <2>2
<1>11. BuffersApart'
  <2>1. \A b \in Buffers \ bufPool' : \/ \E u \in Sockets : result'[u].buf = b
                                      \/ \E i \in Places' : line(i)'.buf = b
    BY <1>0, <1>1, <1>2, <1>8 DEF BuffersApart
  <2>2. ASSUME NEW u \in Sockets, result'[u] # none
        PROVE  /\ result'[u].buf \notin bufPool'
               /\ \A w \in Sockets \ {u} : result'[w].buf # result'[u].buf
               /\ \A i \in Places' : line(i)'.buf # result'[u].buf
    <3>1. /\ result' = result /\ result[u].buf \notin bufPool
          /\ \A w \in Sockets \ {u} : result[w].buf # result[u].buf
          /\ \A i \in Places : line(i).buf # result[u].buf
      BY <1>0, <1>1, <2>2 DEF BuffersApart
    <3>2. result[u].buf # none.buf
      BY <1>0, <1>1, <1>9, <2>2, NoneApart DEF ConnTypes
    <3> QED BY <1>1, <1>8, <1>10, <3>1, <3>2
  <2>3. ASSUME NEW i \in Places', line(i)' # none
        PROVE  /\ line(i)'.buf \notin bufPool'
               /\ \A j \in Places' \ {i} : line(j)'.buf # line(i)'.buf
    <3>1. i \in Places \ {0} /\ line(i)' = line(i) /\ line(i) # none
      BY <1>8, <2>3
    <3>2. line(i).buf # none.buf
      BY <1>0, <1>9, <3>1, NoneApart, LineTypes
    <3>3. line(i).buf \notin bufPool /\ \A j \in Places \ {i} : line(j).buf # line(i).buf
      BY <1>0, <3>1 DEF BuffersApart
    <3> QED BY <1>1, <1>8, <1>10, <3>1, <3>2, <3>3
  <2> QED BY <2>1, <2>2, <2>3 DEF BuffersApart
<1>12. \A b \in Buffers : b # c.buf => content'[b] = content[b]
  BY <1>0, <1>1 DEF ConnTypes
<1>13. ReaderFacts'
  <2>1. \A u \in Sockets : result[u] # none => content'[result[u].buf] = content[result[u].buf]
    BY <1>0, <1>10, <1>12, NoneApart DEF ConnTypes
  <2> QED BY <1>0, <1>1, <2>1 DEF ReaderFacts
<1>14. LineFacts'
  <2>1. \A u \in Sockets : sent(u)' = sent(u) /\ Len(got[u]) \in Nat /\ sent(u) \in Int
    BY <1>0, <1>1, NoneApart DEF sent, ConnTypes
  <2>2. \A i \in Places \ {0} : content'[line(i).buf] = content[line(i).buf]
    BY <1>0, <1>8, <1>10, <1>12, NoneApart, LineTypes
  <2>3. ASSUME NEW i \in Places', NEW l, l = line(i)', l # none
        PROVE  /\ l.err = "none" => content'[l.buf] = l.num
               /\ l.num \in (Len(got'[l.socket]) + 1)..sent(l.socket)'
               /\ \A j \in Places' : line(j)' # none /\ i < j /\ line(j)'.socket = l.socket =>
                    l.num < line(j)'.num
    <3>1. i \in Places \ {0} /\ l = line(i) /\ l.socket \in Sockets /\ 0 < i /\ l.num \in Nat
      BY <1>0, <1>8, <2>3, NoneApart, LineTypes
    <3>2. /\ l.err = "none" => content[l.buf] = l.num
          /\ l.num \in (Len(got[l.socket]) + 1)..sent(l.socket)
          /\ \A j \in Places : line(j) # none /\ i < j /\ line(j).socket = l.socket =>
               l.num < line(j).num
      BY <1>0, <2>3, <3>1 DEF LineFacts
    <3>3. l.socket = s => c.num < l.num
      BY <1>0, <1>2, <1>p, <2>3, <3>1 DEF LineFacts
    <3>4. l.num \in (Len(got'[l.socket]) + 1)..sent(l.socket)'
      <4>1. CASE l.socket = s
        BY <1>2, <1>4, <1>6, <2>1, <3>1, <3>2, <3>3, <4>1
      <4>2. CASE l.socket # s
        BY <1>5, <2>1, <3>1, <3>2, <4>2
      <4> QED BY <4>1, <4>2
    <3>5. ASSUME NEW j \in Places', line(j)' # none, i < j, line(j)'.socket = l.socket
          PROVE  l.num < line(j)'.num
      BY <1>8, <3>2, <3>5
    <3> QED BY <2>2, <3>1, <3>2, <3>4, <3>5
  <2>4. ASSUME NEW u \in Sockets
        PROVE  Len(got'[u]) <= sent(u)'
    <3>1. CASE u = s
      <4>1. c.num \in (Len(got[s]) + 1)..sent(s)
        BY <1>0, <1>2, <1>p DEF LineFacts
      <4> QED BY <1>2, <1>4, <1>6, <2>1, <3>1, <4>1
    <3>2. CASE u # s
      BY <1>0, <1>5, <2>1, <3>2 DEF LineFacts
    <3> QED BY <3>1, <3>2
  <2>5. ASSUME NEW u \in Sockets, NEW m \in (Len(got'[u]) + 1)..sent(u)'
        PROVE  \E i \in Places' : line(i)' # none /\ line(i)'.socket = u /\ line(i)'.num = m
    <3>1. m \in (Len(got[u]) + 1)..sent(u) /\ (u = s => m # c.num)
      <4>1. CASE u = s
        BY <1>2, <1>4, <1>6, <2>1, <4>1
      <4>2. CASE u # s
        BY <1>5, <2>1, <4>2
      <4> QED BY <4>1, <4>2
    <3>2. PICK i \in Places : line(i) # none /\ line(i).socket = u /\ line(i).num = m
      BY <1>0, <3>1 DEF LineFacts
    <3>3. i # 0
      BY <1>2, <1>p, <3>1, <3>2
    <3> QED BY <1>8, <3>2, <3>3
  <2> QED BY <2>3, <2>4, <2>5 DEF LineFacts
<1>15. PacketsInOrder'
  <2>1. ASSUME NEW u \in Sockets, NEW i \in DOMAIN got'[u] PROVE got'[u][i] \in {i, 0}
    <3>1. CASE u = s /\ i = Len(got[s]) + 1
      BY <1>2, <1>3, <1>6, <3>1
    <3>2. CASE u = s /\ i # Len(got[s]) + 1
      <4> DEFINE n == Len(got[s])
      <4>0. i \in 1..(n + 1) /\ i # n + 1 /\ n \in Nat
        BY <1>4, <1>6, <2>1, <3>2
      <4> HIDE DEF n
      <4>1. i \in 1..n
        BY <4>0
      <4> USE DEF n
      <4> QED BY <1>0, <1>2, <1>6, <3>2, <4>1 DEF PacketsInOrder
    <3>3. CASE u # s
      BY <1>0, <1>5, <2>1, <3>3 DEF PacketsInOrder
    <3> QED BY <3>1, <3>2, <3>3
  <2> QED BY <2>1 DEF PacketsInOrder
<1> QED BY <1>7, <1>11, <1>13, <1>14, <1>15 DEF ConnInv

\* Close leaves all of that alone.
LEMMA ConnFrame ==
  ASSUME ConnInv,
         UNCHANGED <<reader, result, bufPool, content, reads, readResultCh, copying, got>>
  PROVE  ConnInv'
<1>1. ConnTypes' /\ ReaderFacts' /\ PacketsInOrder'
  BY DEF ConnInv, ConnTypes, ReaderFacts, PacketsInOrder
<1>2. BuffersApart'
  BY BuffersStay DEF ConnInv
<1>3. LineFacts'
  <2>1. \A s \in Sockets : sent(s)' = sent(s)
    BY DEF sent
  <2> QED BY <2>1, LineStays DEF ConnInv
<1> QED BY <1>1, <1>2, <1>3 DEF ConnInv

\* The closed channel gives the pool a buffer that no result is in.
LEMMA ReadFromClosedKeeps ==
  ASSUME ConnInv, ReadFromClosed
  PROVE  ConnInv'
<1>0. ConnTypes /\ BuffersApart /\ LineFacts
  BY DEF ConnInv
<1>1. /\ bufPool' = bufPool \cup {0}
      /\ UNCHANGED <<reader, result, content, reads, readResultCh, copying, got>>
  BY NoneApart DEF ReadFromClosed
<1>2. ConnTypes' /\ ReaderFacts' /\ PacketsInOrder'
  BY <1>1 DEF ConnInv, ConnTypes, ReaderFacts, PacketsInOrder
<1>3. Places' = Places /\ \A i \in Places : line(i)' = line(i)
  BY <1>1 DEF Places, line
<1>4. BuffersApart'
  <2>1. /\ \A s \in Sockets : result[s] # none => result[s].buf # 0
        /\ \A i \in Places : line(i) # none => line(i).buf # 0
    BY <1>0, NoneApart, LineTypes DEF ConnTypes
  <2>2. \A b : b \in bufPool' <=> b \in bufPool \/ b = 0
    BY <1>1
  <2>3. 0 \notin Buffers
    BY NoneApart
  <2> QED BY <1>0, <1>1, <1>3, <2>1, <2>2, <2>3 DEF BuffersApart
<1>5. LineFacts'
  <2>1. \A s \in Sockets : sent(s)' = sent(s)
    BY <1>1 DEF sent
  <2> QED BY <1>0, <1>1, <2>1, LineStays
<1> QED BY <1>2, <1>4, <1>5 DEF ConnInv

\* Close waits for the readers, and a reader that is done stays so.
LEMMA NilUnusedKept ==
  ASSUME ConnTypes, NilUnused, [ConnNext]_connVars
  PROVE  NilUnused'
<1>1. ASSUME NEW s \in Sockets, reader[s] # "done",
             mcClose' = mcClose, 0 \in bufPool' => 0 \in bufPool
      PROVE  NilUnused'
  BY <1>1 DEF NilUnused
<1>2. ASSUME reader' = reader, mcClose' = "closed" => mcClose = "closed", 0 \in bufPool' => 0 \in bufPool
      PROVE  NilUnused'
  BY <1>2 DEF NilUnused
<1>3. ASSUME NEW s \in Sockets, ReaderStep(s) \/ ReadPacket(s) PROVE NilUnused'
  BY <1>1, <1>3 DEF ReaderStep, GetBuffer, SendResult, ReaderEnds, seesClose, ReadError, ReadPacket
<1>4. ASSUME NEW s \in Sockets, NEW err, ReadError(s, err) PROVE NilUnused'
  BY <1>1, <1>4 DEF ReadError
<1>5. ASSUME NEW s \in Sockets, CloseSocket(s) PROVE NilUnused'
  BY <1>2, <1>5 DEF CloseSocket
<1>6. CASE ReceiveResult
  BY <1>2, <1>6 DEF ReceiveResult, putAtReceive
<1>7. CASE ReadFrom
  <2>1. copying.buf # 0
    BY <1>7, NoneApart DEF ReadFrom, ConnTypes
  <2> QED BY <1>2, <1>7, <2>1 DEF ReadFrom
<1>8. CASE ReadFromClosed
  BY <1>8 DEF ReadFromClosed, NilUnused
<1>9. CASE ConnClose \/ UNCHANGED connVars
  BY <1>2, <1>9 DEF ConnClose, connVars
<1>10. CASE CloseResults
  BY <1>10 DEF CloseResults, readersDone, NilUnused
<1> QED BY <1>3, <1>4, <1>5, <1>6, <1>7, <1>8, <1>9, <1>10 DEF ConnNext

\* ReadFrom returns what each socket received, each result once and in order,
\* whichever buffers the pool hands out, for any number of sockets and any
\* size of readResultCh.
THEOREM PacketsStayInOrder == ConnSpec => []PacketsInOrder
<1>1. ConnInit => ConnInv /\ NilUnused
  <2> SUFFICES ASSUME ConnInit PROVE ConnInv /\ NilUnused
    OBVIOUS
  <2>1. ConnTypes
    BY ConnAssumption DEF ConnInit, ConnTypes
  <2>2. Places = {0} /\ line(0) = none
    BY DEF ConnInit, Places, line
  <2>3. BuffersApart
    BY <2>2 DEF ConnInit, BuffersApart
  <2>4. ReaderFacts /\ PacketsInOrder
    BY DEF ConnInit, ReaderFacts, PacketsInOrder
  <2>5. \A s \in Sockets : sent(s) = 0 /\ Len(got[s]) = 0
    BY DEF ConnInit, sent
  <2>6. LineFacts
    BY <2>2, <2>5 DEF LineFacts
  <2>7. NilUnused
    BY NoneApart DEF ConnInit, NilUnused
  <2> QED BY <2>1, <2>3, <2>4, <2>6, <2>7 DEF ConnInv
<1>2. ConnInv /\ NilUnused /\ [ConnNext]_connVars => ConnInv' /\ NilUnused'
  <2> SUFFICES ASSUME ConnInv, NilUnused, [ConnNext]_connVars PROVE ConnInv' /\ NilUnused'
    OBVIOUS
  <2>1. ASSUME NEW s \in Sockets,
               \/ ReaderStep(s) \/ ReadPacket(s) \/ CloseSocket(s)
               \/ \E err \in {"timeout", "failed"} : ReadError(s, err)
        PROVE  ConnInv'
    <3>1. CASE CloseSocket(s)
      BY <3>1, ConnFrame DEF CloseSocket
    <3> QED BY <2>1, <3>1, GetBufferKeeps, SendResultKeeps, ReaderEndsKeeps, ReadPacketKeeps,
               ReadErrorKeeps DEF ReaderStep
  <2>2. ASSUME ConnClose \/ CloseResults \/ UNCHANGED connVars PROVE ConnInv'
    BY <2>2, ConnFrame DEF ConnClose, CloseResults, connVars
  <2>3. NilUnused'
    BY NilUnusedKept DEF ConnInv
  <2> QED BY <2>1, <2>2, <2>3, ReceiveResultKeeps, ReadFromKeeps, ReadFromClosedKeeps DEF ConnNext
<1>3. ConnInv => PacketsInOrder
  BY DEF ConnInv
<1> QED BY <1>1, <1>2, <1>3, PTL DEF ConnSpec

-----------------------------------------------------------------------------
(* ScreenLevels *)

Stages == {"none", "refused", "accepted", "set", "chosen", "passed", "announced"}
MaybeTrack == Tracks \cup {NoTrack}
Messages == [action : {"add", "remove"}, track : Tracks]

\* Where the rate handler may be, with the tracks it has read by then.
Exchanges ==
  {x \in [at : {"idle", "sender", "source", "track", "rate", "remove", "add", "changed"},
          from : MaybeTrack, to : MaybeTrack] :
     /\ x.at \notin {"idle", "sender"} => x.from # NoTrack
     /\ x.at \in {"rate", "remove", "add", "changed"} => x.to # NoTrack}

ScreenTypes ==
  /\ share \in Nat /\ arrival \in [Tracks -> Stages]
  /\ outScreenTracks \in [SimulcastLevels -> MaybeTrack]
  /\ viewerCh \in Seq(Messages) /\ senders \subseteq Tracks
  /\ {negotiated, screenSender} \subseteq MaybeTrack
  /\ exchange \in Exchanges

\* No track in use is of a share to come.
NoneAhead ==
  /\ \A t \in Tracks : arrival[t] \notin {"none", "refused"} => t.share <= share
  /\ \A level \in SimulcastLevels : outScreenTracks[level] # NoTrack => outScreenTracks[level].share <= share
  /\ \A i \in DOMAIN viewerCh : viewerCh[i].track.share <= share
  /\ \A t \in senders : t.share <= share
  /\ \A t \in {negotiated, screenSender, exchange.from, exchange.to} : t # NoTrack => t.share <= share

\* What is to be added, and what the viewer has, is of this share.
OfThisShare ==
  /\ \A i \in DOMAIN viewerCh : viewerCh[i].action = "add" => viewerCh[i].track.share = share
  /\ \A t \in {negotiated, screenSender} : t # NoTrack => t.share = share
  /\ negotiated = NoTrack \/ screenSender = NoTrack
  /\ exchange.at = "add" => exchange.to.share = share
  /\ \A t \in Tracks : arrival[t] = "chosen" => t.share = share

\* A track of this share that has a sender is in use, so that no track of it
\* is refused while the viewer has none.
SendersInUse == \A t \in senders : t.share = share => t \in {negotiated, screenSender}

\* A track of this share is taken away for one that is queued behind it, or
\* that the rate handler is about to queue.
Replaced ==
  \A i \in DOMAIN viewerCh :
    viewerCh[i].action = "remove" /\ viewerCh[i].track.share = share =>
      exchange.at = "add" \/ \E j \in DOMAIN viewerCh : j > i /\ viewerCh[j].action = "add"

\* The viewer has a track of this share, or one is to be added.
hasTrack == screenSender # NoTrack \/ pendingAdd(share)

\* From the first announcement on.
AnnouncedServed == \A t \in Tracks : t.share = share /\ arrival[t] = "announced" => hasTrack

\* Once the track of the expected level was looked at, a track was chosen.
ExpectedChosen ==
  ~moved /\ getExpectedSimulcastLevel \in looked(share) =>
    \E t \in Tracks : t.share = share /\ arrival[t] \in {"chosen", "announced"}

LoopInv == OfThisShare /\ SendersInUse /\ Replaced /\ AnnouncedServed

ScreenInv ==
  /\ ScreenTypes /\ NoneAhead /\ ExpectedChosen
  /\ ~cut /\ ~stale => LoopInv

LEMMA TrackFacts ==
  /\ NoTrack \notin Tracks
  /\ \A t \in Tracks : t.share \in Nat /\ t.level \in SimulcastLevels
  /\ \A m \in Messages : m.track \in Tracks
  /\ getExpectedSimulcastLevel \in SimulcastLevels /\ getExpectedSimulcastLevel' \in SimulcastLevels
<1>1. /\ NoTrack \notin Tracks
      /\ \A t \in Tracks : t.share \in Nat /\ t.level \in SimulcastLevels
      /\ \A m \in Messages : m.track \in Tracks
  BY ScreenAssumption DEF Tracks, Messages
<1>2. getExpectedSimulcastLevel \in SimulcastLevels /\ getExpectedSimulcastLevel' \in SimulcastLevels
  BY DEF getExpectedSimulcastLevel, getSimulcastLevelForRate, SimulcastLevels
<1> QED BY <1>1, <1>2

\* The fields of the rate handler's state.
LEMMA ExchangeFacts ==
  /\ idle \in Exchanges /\ idle.at = "idle" /\ idle.from = NoTrack /\ idle.to = NoTrack
  /\ \A x \in Exchanges :
       /\ x.from \in MaybeTrack /\ x.to \in MaybeTrack
       /\ x.at \notin {"idle", "sender"} => x.from \in Tracks
       /\ x.at \in {"rate", "remove", "add", "changed"} => x.to \in Tracks
BY DEF idle, Exchanges, MaybeTrack

LEMMA LookedAt ==
  ASSUME NEW level
  PROVE  /\ level \in looked(share) <=>
              \E t \in Tracks : /\ t.share = share /\ t.level = level
                               /\ arrival[t] \in {"chosen", "passed", "announced"}
         /\ level \in looked(share)' <=>
              \E t \in Tracks : /\ t.share = share' /\ t.level = level
                               /\ arrival'[t] \in {"chosen", "passed", "announced"}
BY DEF looked

\* The expected level is the same, and so are the looks at this share.
LEMMA ChoiceKept ==
  ASSUME ExpectedChosen, UNCHANGED <<share, arrival, target, moved>>
  PROVE  ExpectedChosen'
BY DEF ExpectedChosen, getExpectedSimulcastLevel, looked

\* The expected level may change while one track was looked at and the other
\* was not; then moved says so.
LEMMA Retargeted ==
  ASSUME ScreenTypes, ExpectedChosen, NEW rate, retarget(rate), UNCHANGED <<share, arrival>>
  PROVE  ExpectedChosen'
<1>1. /\ target' = rate
      /\ moved' = (moved \/ (/\ Cardinality(looked(share)) = 1
                             /\ getSimulcastLevelForRate(rate) # getExpectedSimulcastLevel))
  BY DEF retarget
<1>2. looked(share)' = looked(share) /\ getExpectedSimulcastLevel' = getSimulcastLevelForRate(rate)
  BY <1>1 DEF looked, getExpectedSimulcastLevel
<1>3. looked(share) \subseteq SimulcastLevels
  BY TrackFacts DEF looked
<1>4. ASSUME ~moved', getExpectedSimulcastLevel' \in looked(share)
      PROVE  \E t \in Tracks : t.share = share /\ arrival[t] \in {"chosen", "announced"}
  <2>1. CASE getExpectedSimulcastLevel \in looked(share)
    BY <1>1, <1>4, <2>1 DEF ExpectedChosen
  <2>2. CASE getExpectedSimulcastLevel \notin looked(share)
    <3>1. looked(share) = {getExpectedSimulcastLevel'}
      BY <1>3, <1>4, <2>2, TrackFacts DEF SimulcastLevels
    <3>2. Cardinality(looked(share)) = 1
      BY <3>1, FS_Singleton
    <3> QED BY <1>1, <1>2, <1>4, <2>2, <3>2
  <2> QED BY <2>1, <2>2
<1> QED BY <1>2, <1>4 DEF ExpectedChosen

\* Steps of the rate handler before its first send and after its second, and
\* of the estimator.
LEMMA HandlerStep ==
  ASSUME ScreenInv, UNCHANGED <<share, arrival, outScreenTracks, viewerCh, loopVars, cut, stale>>,
         exchange' = exchange \/
           /\ exchange' \in Exchanges /\ exchange.at # "add" /\ exchange'.at # "add"
           /\ \A t \in {exchange'.from, exchange'.to} : t # NoTrack => t.share <= share,
         ExpectedChosen'
  PROVE  ScreenInv'
<1>1. ScreenTypes' /\ NoneAhead'
  BY DEF ScreenInv, ScreenTypes, NoneAhead, loopVars
<1>2. ASSUME ~cut, ~stale PROVE LoopInv'
  <2>1. OfThisShare /\ SendersInUse /\ Replaced /\ AnnouncedServed
    BY <1>2 DEF ScreenInv, LoopInv
  <2>2. OfThisShare'
    BY <2>1 DEF OfThisShare, loopVars
  <2>3. SendersInUse' /\ Replaced'
    BY <2>1 DEF SendersInUse, Replaced, loopVars
  <2>4. hasTrack => hasTrack'
    BY DEF hasTrack, pendingAdd, loopVars
  <2>5. AnnouncedServed'
    BY <2>1, <2>4 DEF AnnouncedServed
  <2> QED BY <2>2, <2>3, <2>5 DEF LoopInv
<1> QED BY <1>1, <1>2 DEF ScreenInv

LEMMA HandlerReads ==
  ASSUME ScreenInv, NEW r, NEW l, NEW dropped,
         RateChange(dropped) \/ ReadSender \/ ReadSource(r, l) \/ ReadTrack \/ ReadRate
  PROVE  ScreenInv'
<1>0. ScreenTypes /\ NoneAhead /\ ExpectedChosen
  BY DEF ScreenInv
<1>1. UNCHANGED <<share, arrival, outScreenTracks, target, viewerCh, loopVars, cut, moved, stale>>
  BY DEF RateChange, ReadSender, ReadSource, ReadTrack, ReadRate, handlerReads, shareVars, screenHistories
<1>2. exchange.at # "add"
  BY DEF RateChange, ReadSender, ReadSource, ReadTrack, ReadRate
<1>3. \/ exchange' = idle
      \/ exchange' = [idle EXCEPT !.at = "sender"]
      \/ screenSender # NoTrack /\ exchange' = [at |-> "source", from |-> screenSender, to |-> NoTrack]
      \/ exchange.at = "source" /\ exchange' = [exchange EXCEPT !.at = "track"]
      \/ /\ exchange.at = "track" /\ outScreenTracks[newLevel] # NoTrack
         /\ exchange' = [exchange EXCEPT !.at = "rate", !.to = outScreenTracks[newLevel]]
      \/ exchange.at = "rate" /\ exchange' = [exchange EXCEPT !.at = "remove"]
  BY DEF RateChange, ReadSender, ReadSource, ReadTrack, ReadRate, handlerReads
<1>4. newLevel \in SimulcastLevels
  BY DEF newLevel, SimulcastLevels
<1>5. /\ exchange' \in Exchanges /\ exchange'.at # "add"
      /\ \A t \in {exchange'.from, exchange'.to} : t # NoTrack => t.share <= share
  <2>1. CASE exchange' = idle
    BY <2>1, ExchangeFacts
  <2>2. CASE exchange' = [idle EXCEPT !.at = "sender"]
    BY <2>2 DEF idle, Exchanges, MaybeTrack
  <2>3. CASE screenSender # NoTrack /\ exchange' = [at |-> "source", from |-> screenSender, to |-> NoTrack]
    BY <1>0, <2>3 DEF ScreenTypes, NoneAhead, Exchanges, MaybeTrack
  <2>4. CASE exchange.at = "source" /\ exchange' = [exchange EXCEPT !.at = "track"]
    BY <1>0, <2>4 DEF ScreenTypes, NoneAhead, Exchanges
  <2>5. CASE /\ exchange.at = "track" /\ outScreenTracks[newLevel] # NoTrack
             /\ exchange' = [exchange EXCEPT !.at = "rate", !.to = outScreenTracks[newLevel]]
    BY <1>0, <1>4, <2>5 DEF ScreenTypes, NoneAhead, Exchanges
  <2>6. CASE exchange.at = "rate" /\ exchange' = [exchange EXCEPT !.at = "remove"]
    BY <1>0, <2>6 DEF ScreenTypes, NoneAhead, Exchanges
  <2> QED BY <1>3, <2>1, <2>2, <2>3, <2>4, <2>5, <2>6
<1>6. ExpectedChosen'
  BY <1>0, <1>1, ChoiceKept
<1> QED BY <1>1, <1>2, <1>5, <1>6, HandlerStep

LEMMA LevelChangedKeeps ==
  ASSUME ScreenInv, LevelChanged
  PROVE  ScreenInv'
<1>1. /\ UNCHANGED <<share, arrival, outScreenTracks, viewerCh, loopVars, cut, stale>>
      /\ exchange.at # "add" /\ exchange' = idle
  BY DEF LevelChanged, shareVars
<1>2. retarget(sourceRate("h")) \/ UNCHANGED <<target, moved>>
  BY DEF LevelChanged
<1>3. ExpectedChosen'
  BY <1>1, <1>2, ChoiceKept, Retargeted DEF ScreenInv
<1> QED BY <1>1, <1>3, ExchangeFacts, HandlerStep

\* The viewer's loop and channel do not change when OnTrack moves on with a
\* track it has not chosen.
LEMMA ArrivalStep ==
  ASSUME ScreenInv, NEW t \in Tracks, NEW s \in Stages \ {"announced"},
         arrival[t] \notin {"chosen", "announced"},
         arrival' = [arrival EXCEPT ![t] = s],
         s \notin {"none", "refused"} => t.share <= share,
         s = "chosen" /\ ~stale' => t.share = share,
         stale => stale',
         outScreenTracks' \in {outScreenTracks, [outScreenTracks EXCEPT ![t.level] = t]},
         outScreenTracks' # outScreenTracks => t.share <= share,
         UNCHANGED <<share, viewerCh, loopVars, exchange, cut>>,
         ExpectedChosen'
  PROVE  ScreenInv'
<1>0. ScreenTypes /\ NoneAhead
  BY DEF ScreenInv
<1>1. UNCHANGED <<negotiated, senders, screenSender>>
  BY DEF loopVars
<1>2. arrival' \in [Tracks -> Stages] /\ \A u \in Tracks : arrival'[u] = IF u = t THEN s ELSE arrival[u]
  BY <1>0 DEF ScreenTypes
<1>3. ScreenTypes'
  BY <1>0, <1>1, <1>2 DEF ScreenTypes, MaybeTrack
<1>4. NoneAhead'
  <2>1. \A u \in Tracks : arrival'[u] \notin {"none", "refused"} => u.share <= share
    BY <1>0, <1>2 DEF NoneAhead
  <2>2. \A level \in SimulcastLevels :
          outScreenTracks'[level] # NoTrack => outScreenTracks'[level].share <= share
    BY <1>0 DEF NoneAhead, ScreenTypes
  <2> QED BY <1>0, <1>1, <2>1, <2>2 DEF NoneAhead
<1>5. ASSUME ~cut', ~stale' PROVE LoopInv'
  <2>1. OfThisShare /\ SendersInUse /\ Replaced /\ AnnouncedServed
    BY <1>5 DEF ScreenInv, LoopInv
  <2>2. \A u \in Tracks : arrival'[u] = "chosen" => u.share = share
    BY <1>2, <1>5, <2>1 DEF OfThisShare
  <2>3. OfThisShare'
    BY <1>1, <2>1, <2>2 DEF OfThisShare
  <2>4. SendersInUse' /\ Replaced'
    BY <1>1, <2>1 DEF SendersInUse, Replaced
  <2>5. hasTrack => hasTrack'
    BY <1>1, <1>2 DEF hasTrack, pendingAdd
  <2>6. AnnouncedServed'
    BY <1>2, <2>1, <2>5 DEF AnnouncedServed
  <2> QED BY <2>3, <2>4, <2>6 DEF LoopInv
<1> QED BY <1>3, <1>4, <1>5 DEF ScreenInv

\* ... and before its choice the looks do not change either.
LEMMA NotLooked ==
  ASSUME ScreenTypes, ExpectedChosen, NEW t \in Tracks, NEW s \in {"refused", "accepted", "set"},
         arrival[t] \in {"none", "accepted"},
         arrival' = [arrival EXCEPT ![t] = s], UNCHANGED <<share, target, moved>>
  PROVE  ExpectedChosen'
<1>1. \A u \in Tracks : arrival'[u] = IF u = t THEN s ELSE arrival[u]
  BY DEF ScreenTypes
<1>2. \A u \in Tracks : /\ arrival'[u] = "chosen" <=> arrival[u] = "chosen"
                        /\ arrival'[u] = "announced" <=> arrival[u] = "announced"
                        /\ arrival'[u] = "passed" <=> arrival[u] = "passed"
  BY <1>1
<1>3. getExpectedSimulcastLevel' = getExpectedSimulcastLevel
  BY DEF getExpectedSimulcastLevel
<1>4. \A level : level \in looked(share)' <=> level \in looked(share)
  BY <1>2, LookedAt
<1> QED BY <1>2, <1>3, <1>4 DEF ExpectedChosen

LEMMA ArriveKeeps ==
  ASSUME ScreenInv, NEW t \in Tracks, Arrive(t)
  PROVE  ScreenInv'
<1>1. PICK s : s = IF active /\ t.share # share THEN "refused" ELSE "accepted"
  OBVIOUS
<1>2. /\ arrival[t] = "none" /\ arrival' = [arrival EXCEPT ![t] = s]
      /\ t.share \in {share - 1, share} \/ (active /\ t.share = share + 1)
      /\ UNCHANGED <<share, outScreenTracks, target, viewerCh, loopVars, exchange, cut, moved, stale>>
  BY <1>1 DEF Arrive, handlerVars, screenHistories
<1>3. s \in {"refused", "accepted"} /\ (s = "accepted" => t.share <= share)
  BY <1>1, <1>2, TrackFacts DEF ScreenInv, ScreenTypes
<1>4. /\ ScreenTypes /\ ExpectedChosen
      /\ s \in {"refused", "accepted", "set"} /\ arrival[t] \in {"none", "accepted"}
  BY <1>2, <1>3 DEF ScreenInv
<1>5. arrival' = [arrival EXCEPT ![t] = s] /\ UNCHANGED <<share, target, moved>>
  BY <1>2
<1>6. ExpectedChosen'
  BY <1>4, <1>5, NotLooked
<1>7. s \in Stages \ {"announced"} /\ arrival[t] \notin {"chosen", "announced"}
  BY <1>2, <1>3 DEF Stages
<1> QED BY <1>2, <1>3, <1>6, <1>7, ArrivalStep

LEMMA SetTrackKeeps ==
  ASSUME ScreenInv, NEW t \in Tracks, SetTrack(t)
  PROVE  ScreenInv'
<1>1. /\ arrival[t] = "accepted" /\ arrival' = [arrival EXCEPT ![t] = "set"]
      /\ outScreenTracks' = [outScreenTracks EXCEPT ![t.level] = t]
      /\ UNCHANGED <<share, target, viewerCh, loopVars, exchange, cut, moved, stale>>
  BY DEF SetTrack, handlerVars, screenHistories
<1>2. t.share <= share
  BY <1>1 DEF ScreenInv, NoneAhead
<1>3. ScreenTypes /\ ExpectedChosen /\ arrival[t] \in {"none", "accepted"}
  BY <1>1 DEF ScreenInv
<1>4. /\ "set" \in {"refused", "accepted", "set"}
      /\ arrival' = [arrival EXCEPT ![t] = "set"] /\ UNCHANGED <<share, target, moved>>
  BY <1>1
<1>5. ExpectedChosen'
  BY <1>3, <1>4, NotLooked
<1>6. "set" \in Stages \ {"announced"} /\ arrival[t] \notin {"chosen", "announced"}
  BY <1>1 DEF Stages
<1> QED BY <1>1, <1>2, <1>5, <1>6, ArrivalStep

\* The track of the expected level is chosen; another adds nothing to the
\* looks at that level.
LEMMA ChooseKeeps ==
  ASSUME ScreenInv, NEW t \in Tracks, Choose(t)
  PROVE  ScreenInv'
<1>0. ScreenTypes /\ NoneAhead /\ ExpectedChosen
  BY DEF ScreenInv
<1>1. PICK s : s = IF t.level = getExpectedSimulcastLevel THEN "chosen" ELSE "passed"
  OBVIOUS
<1>2. /\ arrival[t] = "set" /\ arrival' = [arrival EXCEPT ![t] = s]
      /\ stale' = (stale \/ (t.level = getExpectedSimulcastLevel /\ over(t)))
      /\ UNCHANGED <<share, outScreenTracks, target, viewerCh, loopVars, exchange, cut, moved>>
  BY <1>1 DEF Choose, handlerVars
<1>3. t.share <= share /\ t.share \in Nat /\ share \in Nat
  BY <1>0, <1>2, TrackFacts DEF NoneAhead, ScreenTypes
<1>4. s = "chosen" => t.level = getExpectedSimulcastLevel
  BY <1>1
<1>5. t.share = share \/ over(t)
  BY <1>3 DEF over
<1>6. s = "chosen" /\ ~stale' => t.share = share
  BY <1>2, <1>4, <1>5, Zenon
<1>7. \A u \in Tracks : arrival'[u] = IF u = t THEN s ELSE arrival[u]
  BY <1>0, <1>2 DEF ScreenTypes
<1>8. getExpectedSimulcastLevel' = getExpectedSimulcastLevel
  BY <1>2 DEF getExpectedSimulcastLevel
<1>9. ASSUME ~moved, getExpectedSimulcastLevel \in looked(share)'
      PROVE  \E u \in Tracks : u.share = share /\ arrival'[u] \in {"chosen", "announced"}
  <2>1. PICK u \in Tracks : /\ u.share = share /\ u.level = getExpectedSimulcastLevel
                            /\ arrival'[u] \in {"chosen", "passed", "announced"}
    BY <1>2, <1>9, LookedAt
  <2>2. CASE u = t
    BY <1>1, <1>7, <2>1, <2>2
  <2>3. CASE u # t
    <3>1. getExpectedSimulcastLevel \in looked(share)
      BY <1>7, <2>1, <2>3, LookedAt
    <3>2. PICK v \in Tracks : v.share = share /\ arrival[v] \in {"chosen", "announced"}
      BY <1>0, <1>9, <3>1 DEF ExpectedChosen
    <3> QED BY <1>2, <1>7, <3>2
  <2> QED BY <2>2, <2>3
<1>10. ExpectedChosen'
  BY <1>2, <1>8, <1>9 DEF ExpectedChosen
<1>11. s \in Stages \ {"announced"}
  BY <1>1 DEF Stages
<1> QED BY <1>2, <1>3, <1>6, <1>10, <1>11, ArrivalStep

\* What a send leaves in the viewer's channel.
LEMMA Queued ==
  ASSUME viewerCh \in Seq(Messages), NEW msg \in Messages, viewerCh' = Append(viewerCh, msg)
  PROVE  \E n \in Nat :
           /\ DOMAIN viewerCh = 1..n /\ DOMAIN viewerCh' = 1..(n + 1)
           /\ viewerCh' \in Seq(Messages) /\ viewerCh'[n + 1] = msg
           /\ \A i \in 1..n : viewerCh'[i] = viewerCh[i] /\ i \in 1..(n + 1) /\ n + 1 > i
           /\ \A i \in 1..(n + 1) : i \in 1..n \/ i = n + 1
           /\ n + 1 \in 1..(n + 1)
<1>1. PICK n \in Nat : n = Len(viewerCh) /\ DOMAIN viewerCh = 1..n
  OBVIOUS
<1>2. /\ DOMAIN viewerCh' = 1..(n + 1) /\ viewerCh' \in Seq(Messages) /\ viewerCh'[n + 1] = msg
      /\ \A i \in 1..n : viewerCh'[i] = viewerCh[i]
  BY <1>1
<1>3. /\ \A i \in 1..n : i \in 1..(n + 1) /\ n + 1 > i
      /\ \A i \in 1..(n + 1) : i \in 1..n \/ i = n + 1
      /\ n + 1 \in 1..(n + 1)
  OBVIOUS
<1> QED BY <1>1, <1>2, <1>3

\* Queueing a track to add keeps the facts of the channel, and has a track pending.
LEMMA AddQueued ==
  ASSUME ScreenTypes, OfThisShare, SendersInUse, Replaced,
         NEW t \in Tracks, t.share = share, viewerCh' = Append(viewerCh, add(t)),
         UNCHANGED <<share, loopVars>>, exchange'.at # "add" \/ exchange' = exchange,
         \A u \in Tracks : arrival'[u] = "chosen" => arrival[u] = "chosen"
  PROVE  LoopInv'
<1>1. add(t) \in Messages /\ add(t).action = "add" /\ add(t).track = t
  BY DEF add, Messages
<1>2. PICK n \in Nat :
           /\ DOMAIN viewerCh = 1..n /\ DOMAIN viewerCh' = 1..(n + 1)
           /\ viewerCh' \in Seq(Messages) /\ viewerCh'[n + 1] = add(t)
           /\ \A i \in 1..n : viewerCh'[i] = viewerCh[i] /\ i \in 1..(n + 1) /\ n + 1 > i
           /\ \A i \in 1..(n + 1) : i \in 1..n \/ i = n + 1
           /\ n + 1 \in 1..(n + 1)
  BY <1>1, Queued DEF ScreenTypes
<1>3. OfThisShare'
  BY <1>1, <1>2 DEF OfThisShare, loopVars
<1>4. SendersInUse'
  BY DEF SendersInUse, loopVars
<1>5. Replaced'
  BY <1>1, <1>2 DEF Replaced
<1>6. AnnouncedServed'
  BY <1>1, <1>2 DEF AnnouncedServed, hasTrack, pendingAdd
<1> QED BY <1>3, <1>4, <1>5, <1>6 DEF LoopInv

\* What a send does to the types and bounds, whether there is room or not.
LEMMA QueueTypes ==
  ASSUME ScreenTypes, NEW msg \in Messages, queue(msg),
         \A i \in DOMAIN viewerCh : viewerCh[i].track.share <= share, msg.track.share <= share
  PROVE  /\ viewerCh' \in Seq(Messages)
         /\ \A i \in DOMAIN viewerCh' : viewerCh'[i].track.share <= share
         /\ cut => cut'
         /\ ~cut' => viewerCh' = Append(viewerCh, msg) /\ room
<1>1. CASE viewerCh' = Append(viewerCh, msg) /\ UNCHANGED cut /\ room
  BY <1>1, Queued DEF ScreenTypes
<1>2. CASE viewerCh' = viewerCh /\ cut' = TRUE
  BY <1>2 DEF ScreenTypes
<1> QED BY <1>1, <1>2 DEF queue

\* OnTrack's send: the track it has chosen is of this share.
LEMMA AnnounceKeeps ==
  ASSUME ScreenInv, NEW t \in Tracks, Announce(t)
  PROVE  ScreenInv'
<1>0. ScreenTypes /\ NoneAhead /\ ExpectedChosen
  BY DEF ScreenInv
<1>1. /\ arrival[t] = "chosen" /\ arrival' = [arrival EXCEPT ![t] = "announced"] /\ queue(add(t))
      /\ UNCHANGED <<share, outScreenTracks, target, loopVars, exchange, moved, stale>>
  BY DEF Announce, handlerVars
<1>2. t.share <= share /\ add(t) \in Messages /\ add(t).track = t
  BY <1>0, <1>1 DEF NoneAhead, add, Messages
<1>3. /\ viewerCh' \in Seq(Messages) /\ \A i \in DOMAIN viewerCh' : viewerCh'[i].track.share <= share
      /\ cut => cut'
      /\ ~cut' => viewerCh' = Append(viewerCh, add(t))
  <2>1. \A i \in DOMAIN viewerCh : viewerCh[i].track.share <= share
    BY <1>0 DEF NoneAhead
  <2> QED BY <1>0, <1>1, <1>2, <2>1, QueueTypes
<1>4. \A u \in Tracks : arrival'[u] = IF u = t THEN "announced" ELSE arrival[u]
  BY <1>0, <1>1 DEF ScreenTypes
<1>5. ScreenTypes' /\ NoneAhead'
  <2>1. ScreenTypes'
    BY <1>0, <1>1, <1>3 DEF ScreenTypes, Stages, loopVars
  <2>2. NoneAhead'
    BY <1>0, <1>1, <1>2, <1>3, <1>4 DEF NoneAhead, loopVars
  <2> QED BY <2>1, <2>2
<1>6. ExpectedChosen'
  <2>1. getExpectedSimulcastLevel' = getExpectedSimulcastLevel
    BY <1>1 DEF getExpectedSimulcastLevel
  <2>2. \A u \in Tracks : /\ arrival'[u] \in {"chosen", "passed", "announced"} <=>
                               arrival[u] \in {"chosen", "passed", "announced"}
                          /\ arrival[u] \in {"chosen", "announced"} => arrival'[u] \in {"chosen", "announced"}
    BY <1>1, <1>4
  <2>3. \A level : level \in looked(share)' <=> level \in looked(share)
    BY <1>1, <2>2, LookedAt
  <2> QED BY <1>0, <1>1, <2>1, <2>2, <2>3 DEF ExpectedChosen
<1>7. ASSUME ~cut', ~stale' PROVE LoopInv'
  <2>1. OfThisShare /\ SendersInUse /\ Replaced /\ t.share = share
    BY <1>1, <1>3, <1>7 DEF ScreenInv, LoopInv, OfThisShare
  <2>2. \A u \in Tracks : arrival'[u] = "chosen" => arrival[u] = "chosen"
    BY <1>4
  <2>3. UNCHANGED <<share, loopVars>> /\ exchange' = exchange /\ viewerCh' = Append(viewerCh, add(t))
    BY <1>1, <1>3, <1>7
  <2> QED BY <1>0, <2>1, <2>2, <2>3, AddQueued
<1> QED BY <1>5, <1>6, <1>7 DEF ScreenInv

\* The rate handler's first send: the track to take the place of the removed
\* one is held until the second.
LEMMA QueueRemoveKeeps ==
  ASSUME ScreenInv, QueueRemove
  PROVE  ScreenInv'
<1>0. ScreenTypes /\ NoneAhead /\ ExpectedChosen
  BY DEF ScreenInv
<1>1. PICK from, to : from = exchange.from /\ to = exchange.to
  OBVIOUS
<1>2. /\ exchange.at = "remove" /\ queue(remove(from))
      /\ exchange' = IF room THEN [exchange EXCEPT !.at = "add"] ELSE idle
      /\ stale' = (stale \/ over(to))
      /\ UNCHANGED <<share, arrival, outScreenTracks, target, loopVars, moved>>
  BY <1>1 DEF QueueRemove, swap, shareVars
<1>3. /\ from \in Tracks /\ to \in Tracks /\ from.share <= share /\ to.share <= share
      /\ to.share \in Nat /\ share \in Nat
  BY <1>0, <1>1, <1>2, ExchangeFacts, TrackFacts DEF ScreenTypes, NoneAhead
<1>4. remove(from) \in Messages /\ remove(from).track = from /\ remove(from).action = "remove"
  BY <1>3 DEF remove, Messages
<1>5. /\ viewerCh' \in Seq(Messages) /\ \A i \in DOMAIN viewerCh' : viewerCh'[i].track.share <= share
      /\ cut => cut'
      /\ ~cut' => viewerCh' = Append(viewerCh, remove(from)) /\ room
  <2>1. \A i \in DOMAIN viewerCh : viewerCh[i].track.share <= share
    BY <1>0 DEF NoneAhead
  <2> QED BY <1>0, <1>2, <1>3, <1>4, <2>1, QueueTypes
<1>6. \/ exchange' = idle
      \/ exchange' \in Exchanges /\ exchange'.at = "add" /\ exchange'.from = from /\ exchange'.to = to
  BY <1>0, <1>1, <1>2 DEF ScreenTypes, Exchanges
<1>7. ScreenTypes'
  BY <1>0, <1>2, <1>5, <1>6, ExchangeFacts DEF ScreenTypes, loopVars
<1>8. NoneAhead'
  <2>1. \A u \in {exchange'.from, exchange'.to} : u # NoTrack => u.share <= share
    BY <1>3, <1>6, ExchangeFacts
  <2> QED BY <1>0, <1>2, <1>5, <2>1 DEF NoneAhead, loopVars
<1>9. ExpectedChosen'
  BY <1>0, <1>2, ChoiceKept
<1>10. ASSUME ~cut', ~stale' PROVE LoopInv'
  <2>1. OfThisShare /\ SendersInUse /\ AnnouncedServed
    BY <1>2, <1>5, <1>10 DEF ScreenInv, LoopInv
  <2>2. exchange'.at = "add" /\ exchange'.to = to
    <3>1. room
      BY <1>5, <1>10
    <3> QED BY <1>0, <1>1, <1>2, <3>1 DEF ScreenTypes, Exchanges
  <2>3. to.share = share
    <3>1. ~over(to)
      BY <1>2, <1>10
    <3> QED BY <1>3, <3>1 DEF over
  <2>4. PICK n \in Nat :
           /\ DOMAIN viewerCh = 1..n /\ DOMAIN viewerCh' = 1..(n + 1)
           /\ viewerCh' \in Seq(Messages) /\ viewerCh'[n + 1] = remove(from)
           /\ \A i \in 1..n : viewerCh'[i] = viewerCh[i] /\ i \in 1..(n + 1) /\ n + 1 > i
           /\ \A i \in 1..(n + 1) : i \in 1..n \/ i = n + 1
           /\ n + 1 \in 1..(n + 1)
    BY <1>0, <1>4, <1>5, <1>10, Queued DEF ScreenTypes
  <2>5. OfThisShare'
    BY <1>2, <1>4, <2>1, <2>2, <2>3, <2>4 DEF OfThisShare, loopVars
  <2>6. SendersInUse' /\ Replaced'
    BY <1>2, <2>1, <2>2 DEF SendersInUse, Replaced, loopVars
  <2>7. AnnouncedServed'
    BY <1>2, <2>2, <2>3 DEF AnnouncedServed, hasTrack, pendingAdd
  <2> QED BY <2>5, <2>6, <2>7 DEF LoopInv
<1> QED BY <1>7, <1>8, <1>9, <1>10 DEF ScreenInv

\* ... and its second.
LEMMA QueueAddKeeps ==
  ASSUME ScreenInv, QueueAdd
  PROVE  ScreenInv'
<1>0. ScreenTypes /\ NoneAhead /\ ExpectedChosen
  BY DEF ScreenInv
<1>1. PICK to : to = exchange.to
  OBVIOUS
<1>2. /\ exchange.at = "add" /\ queue(add(to))
      /\ exchange' = IF room THEN [exchange EXCEPT !.at = "changed"] ELSE idle
      /\ UNCHANGED <<share, arrival, outScreenTracks, target, loopVars, moved, stale>>
  BY <1>1 DEF QueueAdd, swap, shareVars
<1>3. to \in Tracks /\ to.share <= share
  BY <1>0, <1>1, <1>2, ExchangeFacts, TrackFacts DEF ScreenTypes, NoneAhead
<1>4. add(to) \in Messages /\ add(to).track = to
  BY <1>3 DEF add, Messages
<1>5. /\ viewerCh' \in Seq(Messages) /\ \A i \in DOMAIN viewerCh' : viewerCh'[i].track.share <= share
      /\ cut => cut'
      /\ ~cut' => viewerCh' = Append(viewerCh, add(to))
  <2>1. \A i \in DOMAIN viewerCh : viewerCh[i].track.share <= share
    BY <1>0 DEF NoneAhead
  <2> QED BY <1>0, <1>2, <1>3, <1>4, <2>1, QueueTypes
<1>6. /\ exchange' \in Exchanges /\ exchange'.at # "add"
      /\ \A u \in {exchange'.from, exchange'.to} : u # NoTrack => u \in {exchange.from, to}
  <2>1. CASE exchange' = idle
    BY <2>1, ExchangeFacts
  <2>2. CASE exchange' = [exchange EXCEPT !.at = "changed"]
    BY <1>0, <1>1, <1>2, <2>2 DEF ScreenTypes, Exchanges
  <2> QED BY <1>2, <2>1, <2>2
<1>7. ScreenTypes'
  BY <1>0, <1>2, <1>5, <1>6 DEF ScreenTypes, loopVars
<1>8. NoneAhead'
  <2>1. \A u \in {exchange'.from, exchange'.to} : u # NoTrack => u.share <= share
    BY <1>0, <1>1, <1>6 DEF NoneAhead
  <2> QED BY <1>0, <1>2, <1>5, <2>1 DEF NoneAhead, loopVars
<1>9. ExpectedChosen'
  BY <1>0, <1>2, ChoiceKept
<1>10. ASSUME ~cut', ~stale' PROVE LoopInv'
  <2>1. OfThisShare /\ SendersInUse /\ Replaced
    BY <1>2, <1>5, <1>10 DEF ScreenInv, LoopInv
  <2>2. to.share = share
    BY <1>1, <1>2, <2>1 DEF OfThisShare
  <2>3. UNCHANGED <<share, loopVars>> /\ viewerCh' = Append(viewerCh, add(to))
    BY <1>2, <1>5, <1>10
  <2>4. \A u \in Tracks : arrival'[u] = "chosen" => arrival[u] = "chosen"
    BY <1>2
  <2> QED BY <1>0, <1>3, <1>6, <2>1, <2>2, <2>3, <2>4, AddQueued
<1> QED BY <1>7, <1>8, <1>9, <1>10 DEF ScreenInv

\* A share ends with nothing of it to be added, and nothing is of the next one.
LEMMA EndShareKeeps ==
  ASSUME ScreenInv, EndShare
  PROVE  ScreenInv'
<1>0. ScreenTypes /\ NoneAhead
  BY DEF ScreenInv
<1>1. /\ share' = share + 1 /\ outScreenTracks' = noTracks /\ screenSender' = NoTrack
      /\ IF screenSender # NoTrack THEN queue(remove(screenSender)) ELSE UNCHANGED <<viewerCh, cut>>
      /\ stale' = (stale \/ pendingAdd(share)) /\ ~looking
      /\ UNCHANGED <<arrival, target, negotiated, senders, exchange>>
  BY DEF EndShare, handlerVars
<1>2. /\ viewerCh' \in Seq(Messages) /\ \A i \in DOMAIN viewerCh' : viewerCh'[i].track.share <= share
      /\ cut => cut'
  <2>1. CASE screenSender = NoTrack
    BY <1>0, <1>1, <2>1 DEF ScreenTypes, NoneAhead
  <2>2. CASE screenSender # NoTrack
    <3>1. screenSender \in Tracks /\ screenSender.share <= share
      BY <1>0, <2>2 DEF ScreenTypes, NoneAhead, MaybeTrack
    <3>2. remove(screenSender) \in Messages /\ remove(screenSender).track = screenSender
      BY <3>1 DEF remove, Messages
    <3>3. \A i \in DOMAIN viewerCh : viewerCh[i].track.share <= share
      BY <1>0 DEF NoneAhead
    <3> QED BY <1>0, <1>1, <2>2, <3>1, <3>2, <3>3, QueueTypes
  <2> QED BY <2>1, <2>2
<1>3. ScreenTypes'
  BY <1>0, <1>1, <1>2 DEF ScreenTypes, noTracks, MaybeTrack
\* Everything is of a share before the next.
<1>4. /\ \A t \in Tracks : arrival[t] \notin {"none", "refused"} => t.share <= share' /\ t.share # share'
      /\ \A i \in DOMAIN viewerCh' : viewerCh'[i].track.share <= share' /\ viewerCh'[i].track.share # share'
      /\ \A t \in senders : t.share <= share' /\ t.share # share'
      /\ \A t \in {negotiated, exchange.from, exchange.to} : t # NoTrack => t.share <= share'
  <2>1. /\ share \in Nat /\ share' = share + 1
        /\ \A t \in senders : t \in Tracks
        /\ \A i \in DOMAIN viewerCh' : viewerCh'[i].track \in Tracks
        /\ \A t \in {negotiated, exchange.from, exchange.to} : t # NoTrack => t \in Tracks
    BY <1>0, <1>1, <1>2, TrackFacts, ExchangeFacts DEF ScreenTypes, MaybeTrack
  <2>2. \A t \in Tracks : t.share <= share => t.share <= share' /\ t.share # share'
    BY <2>1, TrackFacts
  <2> QED BY <1>0, <1>2, <2>1, <2>2 DEF NoneAhead
<1>5. NoneAhead'
  BY <1>1, <1>4 DEF NoneAhead, noTracks
<1>6. ExpectedChosen'
  <2>1. \A level : level \notin looked(share)'
    BY <1>1, <1>4, LookedAt
  <2> QED BY <2>1 DEF ExpectedChosen
<1>7. ASSUME ~cut', ~stale' PROVE LoopInv'
  <2>1. OfThisShare /\ ~pendingAdd(share)
    BY <1>1, <1>2, <1>7 DEF ScreenInv, LoopInv
  <2>2. negotiated = NoTrack /\ exchange.at # "add" /\ \A i \in DOMAIN viewerCh : viewerCh[i].action # "add"
    BY <2>1 DEF OfThisShare, pendingAdd
  <2>3. \A i \in DOMAIN viewerCh' : viewerCh'[i].action # "add"
    <3>1. CASE viewerCh' = viewerCh
      BY <2>2, <3>1
    <3>2. CASE screenSender # NoTrack /\ viewerCh' = Append(viewerCh, remove(screenSender))
      <4>1. remove(screenSender) \in Messages /\ remove(screenSender).action = "remove"
        BY <1>0, <3>2 DEF ScreenTypes, MaybeTrack, remove, Messages
      <4>2. PICK n \in Nat :
              /\ DOMAIN viewerCh = 1..n /\ DOMAIN viewerCh' = 1..(n + 1)
              /\ viewerCh' \in Seq(Messages) /\ viewerCh'[n + 1] = remove(screenSender)
              /\ \A i \in 1..n : viewerCh'[i] = viewerCh[i] /\ i \in 1..(n + 1) /\ n + 1 > i
              /\ \A i \in 1..(n + 1) : i \in 1..n \/ i = n + 1
              /\ n + 1 \in 1..(n + 1)
        BY <1>0, <3>2, <4>1, Queued DEF ScreenTypes
      <4> QED BY <2>2, <4>1, <4>2
    <3> QED BY <1>1, <3>1, <3>2 DEF queue
  <2>4. OfThisShare'
    BY <1>1, <2>2, <2>3 DEF OfThisShare, looking
  <2>5. SendersInUse' /\ Replaced'
    BY <1>1, <1>4 DEF SendersInUse, Replaced
  <2>6. AnnouncedServed'
    BY <1>1, <1>4 DEF AnnouncedServed
  <2> QED BY <2>4, <2>5, <2>6 DEF LoopInv
<1> QED BY <1>3, <1>5, <1>6, <1>7 DEF ScreenInv

\* What RemoveTrack and AddTrack take from the channel.
LEMMA HeadTaken ==
  ASSUME ScreenTypes, viewerCh # <<>>, viewerCh' = Tail(viewerCh)
  PROVE  \E n \in Nat :
           /\ DOMAIN viewerCh = 1..(n + 1) /\ DOMAIN viewerCh' = 1..n /\ Head(viewerCh) = viewerCh[1]
           /\ viewerCh[1] \in Messages /\ viewerCh' \in Seq(Messages)
           /\ \A i \in 1..n : viewerCh'[i] = viewerCh[i + 1] /\ i + 1 \in 1..(n + 1)
           /\ \A i \in 2..(n + 1) : i - 1 \in 1..n /\ viewerCh'[i - 1] = viewerCh[i]
           /\ 1 \in 1..(n + 1)
<1>1. viewerCh \in Seq(Messages)
  BY DEF ScreenTypes
<1>2. PICK n \in Nat : n = Len(viewerCh) - 1
  BY <1>1
<1>3. /\ DOMAIN viewerCh = 1..(n + 1) /\ DOMAIN viewerCh' = 1..n /\ Head(viewerCh) = viewerCh[1]
      /\ viewerCh[1] \in Messages /\ viewerCh' \in Seq(Messages)
  BY <1>1, <1>2
<1>4. \A i \in 1..n : viewerCh'[i] = viewerCh[i + 1] /\ i + 1 \in 1..(n + 1)
  BY <1>1, <1>2
<1>5. \A i \in 2..(n + 1) : i - 1 \in 1..n /\ (i - 1) + 1 = i
  BY <1>2
<1>6. 1 \in 1..(n + 1)
  BY <1>2
<1> QED BY <1>3, <1>4, <1>5, <1>6

\* A removal that stays in the channel keeps the track behind it, unless that
\* was the one taken.
LEMMA ReplacedBehind ==
  ASSUME ScreenTypes, Replaced, viewerCh # <<>>, viewerCh' = Tail(viewerCh), UNCHANGED <<share, exchange>>
  PROVE  Replaced'
<1> SUFFICES ASSUME NEW i \in DOMAIN viewerCh', viewerCh'[i].action = "remove",
                    viewerCh'[i].track.share = share', exchange'.at # "add"
             PROVE  \E j \in DOMAIN viewerCh' : j > i /\ viewerCh'[j].action = "add"
  BY Zenon DEF Replaced
<1>1. PICK n \in Nat :
           /\ DOMAIN viewerCh = 1..(n + 1) /\ DOMAIN viewerCh' = 1..n /\ Head(viewerCh) = viewerCh[1]
           /\ viewerCh[1] \in Messages /\ viewerCh' \in Seq(Messages)
           /\ \A k \in 1..n : viewerCh'[k] = viewerCh[k + 1] /\ k + 1 \in 1..(n + 1)
           /\ \A k \in 2..(n + 1) : k - 1 \in 1..n /\ viewerCh'[k - 1] = viewerCh[k]
           /\ 1 \in 1..(n + 1)
  BY HeadTaken
<1>2. i \in 1..n /\ viewerCh[i + 1] = viewerCh'[i] /\ i + 1 \in DOMAIN viewerCh
  BY <1>1
<1>3. PICK k \in DOMAIN viewerCh : k > i + 1 /\ viewerCh[k].action = "add"
  BY <1>2 DEF Replaced
<1>4. k \in 2..(n + 1) /\ k - 1 > i
  BY <1>1, <1>2, <1>3
<1>5. k - 1 \in DOMAIN viewerCh' /\ viewerCh'[k - 1] = viewerCh[k]
  BY <1>1, <1>4
<1> QED BY <1>3, <1>4, <1>5

\* A track of this share goes only with another one behind it.
LEMMA RemoveTrackKeeps ==
  ASSUME ScreenInv, RemoveTrack
  PROVE  ScreenInv'
<1>0. ScreenTypes /\ NoneAhead /\ ExpectedChosen
  BY DEF ScreenInv
<1>1. /\ viewerCh # <<>> /\ negotiated = NoTrack /\ Head(viewerCh).action = "remove"
      /\ viewerCh' = Tail(viewerCh)
      /\ UNCHANGED <<share, arrival, outScreenTracks, target, negotiated, exchange, cut, moved, stale>>
  BY DEF RemoveTrack, shareVars, handlerVars, screenHistories
<1>2. PICK n \in Nat :
           /\ DOMAIN viewerCh = 1..(n + 1) /\ DOMAIN viewerCh' = 1..n /\ Head(viewerCh) = viewerCh[1]
           /\ viewerCh[1] \in Messages /\ viewerCh' \in Seq(Messages)
           /\ \A i \in 1..n : viewerCh'[i] = viewerCh[i + 1] /\ i + 1 \in 1..(n + 1)
           /\ \A i \in 2..(n + 1) : i - 1 \in 1..n /\ viewerCh'[i - 1] = viewerCh[i]
           /\ 1 \in 1..(n + 1)
  BY <1>0, <1>1, HeadTaken
<1>3. PICK t : /\ t = viewerCh[1].track /\ senders' = senders \ {t}
               /\ screenSender' = IF t \in senders /\ screenSender = t THEN NoTrack ELSE screenSender
  BY <1>2 DEF RemoveTrack
<1>4. ScreenTypes'
  BY <1>0, <1>1, <1>2, <1>3 DEF ScreenTypes, MaybeTrack
<1>5. NoneAhead'
  BY <1>0, <1>1, <1>2, <1>3 DEF NoneAhead
<1>6. ExpectedChosen'
  BY <1>0, <1>1, ChoiceKept
<1>7. ASSUME ~cut', ~stale' PROVE LoopInv'
  <2>0. OfThisShare /\ SendersInUse /\ Replaced /\ AnnouncedServed
    BY <1>1, <1>7 DEF ScreenInv, LoopInv
  <2>1. OfThisShare'
    BY <1>1, <1>2, <1>3, <2>0 DEF OfThisShare
  <2>2. SendersInUse'
    BY <1>1, <1>3, <2>0 DEF SendersInUse
  <2>3. Replaced'
    BY <1>0, <1>1, <2>0, ReplacedBehind
  <2>4. hasTrack => hasTrack'
    <3> SUFFICES ASSUME hasTrack PROVE hasTrack'
      OBVIOUS
    <3>1. ASSUME NEW i \in 1..(n + 1), viewerCh[i].action = "add", viewerCh[i].track.share = share
          PROVE  pendingAdd(share)'
      <4>1. i \in 2..(n + 1)
        BY <1>1, <1>2, <3>1
      <4>2. PICK j \in 1..n : viewerCh'[j] = viewerCh[i]
        BY <1>2, <4>1
      <4>3. j \in DOMAIN viewerCh' /\ viewerCh'[j].action = "add" /\ viewerCh'[j].track.share = share'
        BY <1>1, <1>2, <3>1, <4>2
      <4> QED BY <4>3 DEF pendingAdd
    <3>2. CASE screenSender # NoTrack
      <4>1. CASE screenSender' = screenSender
        BY <3>2, <4>1 DEF hasTrack
      <4>2. CASE screenSender = t
        <5>1. viewerCh[1].track.share = share /\ viewerCh[1].action = "remove"
          BY <1>1, <1>2, <1>3, <2>0, <3>2, <4>2 DEF OfThisShare
        <5>2. CASE exchange.at = "add"
          BY <1>1, <2>0, <5>2 DEF OfThisShare, hasTrack, pendingAdd
        <5>3. CASE exchange.at # "add"
          <6>1. PICK j \in 1..(n + 1) : viewerCh[j].action = "add"
            BY <1>2, <2>0, <5>1, <5>3 DEF Replaced
          <6>2. viewerCh[j].track.share = share
            BY <1>2, <2>0, <6>1 DEF OfThisShare
          <6> QED BY <3>1, <6>1, <6>2 DEF hasTrack
        <5> QED BY <5>2, <5>3
      <4> QED BY <1>3, <4>1, <4>2
    <3>3. CASE screenSender = NoTrack
      <4>1. pendingAdd(share)
        BY <3>3 DEF hasTrack
      <4> QED BY <1>1, <1>2, <3>1, <4>1 DEF hasTrack, pendingAdd
    <3> QED BY <3>2, <3>3
  <2>5. AnnouncedServed'
    BY <1>1, <2>0, <2>4 DEF AnnouncedServed
  <2> QED BY <2>1, <2>2, <2>3, <2>5 DEF LoopInv
<1> QED BY <1>4, <1>5, <1>6, <1>7 DEF ScreenInv

\* A track is refused only when the viewer has one.
LEMMA AddTrackKeeps ==
  ASSUME ScreenInv, AddTrack
  PROVE  ScreenInv'
<1>0. ScreenTypes /\ NoneAhead /\ ExpectedChosen
  BY DEF ScreenInv
<1>1. /\ viewerCh # <<>> /\ negotiated = NoTrack /\ Head(viewerCh).action = "add"
      /\ viewerCh' = Tail(viewerCh)
      /\ UNCHANGED <<share, arrival, outScreenTracks, target, screenSender, exchange, cut, moved, stale>>
  BY DEF AddTrack, shareVars, handlerVars, screenHistories
<1>2. PICK n \in Nat :
           /\ DOMAIN viewerCh = 1..(n + 1) /\ DOMAIN viewerCh' = 1..n /\ Head(viewerCh) = viewerCh[1]
           /\ viewerCh[1] \in Messages /\ viewerCh' \in Seq(Messages)
           /\ \A i \in 1..n : viewerCh'[i] = viewerCh[i + 1] /\ i + 1 \in 1..(n + 1)
           /\ \A i \in 2..(n + 1) : i - 1 \in 1..n /\ viewerCh'[i - 1] = viewerCh[i]
           /\ 1 \in 1..(n + 1)
  BY <1>0, <1>1, HeadTaken
<1>3. PICK t : /\ t = viewerCh[1].track
               /\ IF refused(t) THEN UNCHANGED <<negotiated, senders>>
                  ELSE negotiated' = t /\ senders' = senders \cup {t}
  BY <1>2 DEF AddTrack
<1>4. t \in Tracks /\ t.share <= share /\ t # NoTrack
  BY <1>0, <1>2, <1>3, TrackFacts DEF NoneAhead
<1>5. ScreenTypes'
  BY <1>0, <1>1, <1>2, <1>3, <1>4 DEF ScreenTypes, MaybeTrack
<1>6. NoneAhead'
  BY <1>0, <1>1, <1>2, <1>3, <1>4 DEF NoneAhead
<1>7. ExpectedChosen'
  BY <1>0, <1>1, ChoiceKept
<1>8. ASSUME ~cut', ~stale' PROVE LoopInv'
  <2>0. OfThisShare /\ SendersInUse /\ Replaced
    BY <1>1, <1>8 DEF ScreenInv, LoopInv
  <2>1. t.share = share
    BY <1>1, <1>2, <1>3, <2>0 DEF OfThisShare
  <2>2. refused(t) <=> screenSender # NoTrack
    BY <1>1, <1>4, <2>0, <2>1 DEF refused, SendersInUse
  <2>3. OfThisShare'
    BY <1>1, <1>2, <1>3, <2>0, <2>1, <2>2 DEF OfThisShare
  <2>4. SendersInUse'
    BY <1>0, <1>1, <1>3, <2>0, TrackFacts DEF SendersInUse, ScreenTypes
  <2>5. Replaced'
    BY <1>0, <1>1, <2>0, ReplacedBehind
  <2>6. hasTrack'
    BY <1>1, <1>3, <1>4, <2>1, <2>2 DEF hasTrack, pendingAdd
  <2> QED BY <2>3, <2>4, <2>5, <2>6 DEF LoopInv, AnnouncedServed
<1> QED BY <1>5, <1>6, <1>7, <1>8 DEF ScreenInv

LEMMA AnsweredKeeps ==
  ASSUME ScreenInv, Answered
  PROVE  ScreenInv'
<1>0. ScreenTypes /\ NoneAhead /\ ExpectedChosen
  BY DEF ScreenInv
<1>1. /\ negotiated # NoTrack /\ negotiated' = NoTrack
      /\ \/ screenSender' = negotiated /\ UNCHANGED <<senders, cut>>
         \/ senders' = senders \ {negotiated} /\ cut' = TRUE /\ UNCHANGED screenSender
      /\ UNCHANGED <<share, arrival, outScreenTracks, target, viewerCh, exchange, moved, stale>>
  BY DEF Answered, shareVars, handlerVars
<1>2. ScreenTypes' /\ NoneAhead'
  BY <1>0, <1>1 DEF ScreenTypes, NoneAhead, MaybeTrack
<1>3. ExpectedChosen'
  BY <1>0, <1>1, ChoiceKept
<1>4. ASSUME ~cut', ~stale' PROVE LoopInv'
  <2>0. OfThisShare /\ SendersInUse /\ Replaced
    BY <1>1, <1>4 DEF ScreenInv, LoopInv
  <2>1. screenSender' = negotiated /\ screenSender = NoTrack /\ UNCHANGED <<senders, cut>>
    BY <1>1, <1>4, <2>0 DEF OfThisShare
  <2>2. OfThisShare' /\ SendersInUse' /\ Replaced'
    BY <1>1, <2>0, <2>1 DEF OfThisShare, SendersInUse, Replaced
  <2>3. AnnouncedServed'
    BY <1>1, <2>1 DEF AnnouncedServed, hasTrack
  <2> QED BY <2>2, <2>3 DEF LoopInv
<1> QED BY <1>2, <1>3, <1>4 DEF ScreenInv

\* Once a track of a share was announced, or both were looked at, its viewer
\* has one of them or has one coming: whatever the goroutines of the tracks
\* and the rate handler read between each other's steps, and for any number of
\* shares, any estimates and any size of tracksCh.
THEOREM ViewerStaysServed == ScreenSpec => []ViewerServed
<1>1. ScreenInit => ScreenInv
  <2> SUFFICES ASSUME ScreenInit PROVE ScreenInv
    OBVIOUS
  <2>1. ScreenTypes
    BY ExchangeFacts DEF ScreenInit, ScreenTypes, Stages, MaybeTrack, noTracks
  <2>2. NoneAhead
    BY ExchangeFacts DEF ScreenInit, NoneAhead, noTracks
  <2>3. ExpectedChosen
    <3>1. \A level : level \notin looked(share)
      BY LookedAt DEF ScreenInit
    <3> QED BY <3>1 DEF ExpectedChosen
  <2>4. LoopInv
    BY ExchangeFacts DEF ScreenInit, LoopInv, OfThisShare, SendersInUse, Replaced, AnnouncedServed
  <2> QED BY <2>1, <2>2, <2>3, <2>4 DEF ScreenInv
<1>2. ScreenInv /\ [ScreenNext]_screenVars => ScreenInv'
  <2> SUFFICES ASSUME ScreenInv, [ScreenNext]_screenVars PROVE ScreenInv'
    OBVIOUS
  <2>1. ASSUME UNCHANGED <<share, arrival, outScreenTracks, target, viewerCh, loopVars, exchange,
                           cut, moved, stale>>
        PROVE  ScreenInv'
    <3>1. ExpectedChosen'
      BY <2>1, ChoiceKept DEF ScreenInv
    <3> QED BY <2>1, <3>1, HandlerStep
  <2>2. ASSUME NEW level \in SimulcastLevels, Measure(level) PROVE ScreenInv'
    BY <2>1, <2>2 DEF Measure, handlerVars, screenHistories
  <2>3. CASE StartShare
    BY <2>1, <2>3 DEF StartShare, handlerVars, screenHistories
  <2>4. CASE BackoffEnds
    BY <2>1, <2>4 DEF BackoffEnds, shareVars, screenHistories
  <2>5. CASE UNCHANGED screenVars
    BY <2>1, <2>5 DEF screenVars, loopVars
  <2>6. ASSUME NEW r \in Estimates, Estimate(r) PROVE ScreenInv'
    <3>1. /\ retarget(r)
          /\ UNCHANGED <<share, arrival, outScreenTracks, viewerCh, loopVars, exchange, cut, stale>>
      BY <2>6 DEF Estimate, shareVars, handlerVars
    <3>2. ExpectedChosen'
      BY <3>1, Retargeted DEF ScreenInv
    <3> QED BY <3>1, <3>2, HandlerStep
  <2>7. ASSUME NEW t \in Tracks, Arrive(t) \/ SetTrack(t) \/ Choose(t) \/ Announce(t) PROVE ScreenInv'
    BY <2>7, ArriveKeeps, SetTrackKeeps, ChooseKeeps, AnnounceKeeps
  <2>8. ASSUME NEW dropped \in BOOLEAN, RateChange(dropped) PROVE ScreenInv'
    BY <2>8, HandlerReads
  <2>9. ASSUME NEW r, NEW l, ReadSender \/ ReadSource(r, l) \/ ReadTrack \/ ReadRate PROVE ScreenInv'
    BY <2>9, HandlerReads
  <2> QED BY <2>2, <2>3, <2>4, <2>5, <2>6, <2>7, <2>8, <2>9, EndShareKeeps, RemoveTrackKeeps,
             AddTrackKeeps, AnsweredKeeps, QueueRemoveKeeps, QueueAddKeeps, LevelChangedKeeps
          DEF ScreenNext
<1>3. ScreenInv => ViewerServed
  <2> SUFFICES ASSUME ScreenInv, ~cut, ~stale,
                      \/ \E t \in Tracks : t.share = share /\ arrival[t] = "announced"
                      \/ looked(share) = SimulcastLevels /\ ~moved
               PROVE  (screenSender # NoTrack /\ screenSender.share = share) \/ pendingAdd(share)
    BY DEF ViewerServed
  <2>1. OfThisShare /\ AnnouncedServed
    BY DEF ScreenInv, LoopInv
  <2>2. PICK t \in Tracks : t.share = share /\ arrival[t] \in {"chosen", "announced"}
    BY TrackFacts DEF ScreenInv, ExpectedChosen
  <2>3. hasTrack
    <3>1. CASE arrival[t] = "announced"
      BY <2>1, <2>2, <3>1 DEF AnnouncedServed
    <3>2. CASE arrival[t] = "chosen"
      BY <2>2, <3>2 DEF hasTrack, pendingAdd
    <3> QED BY <2>2, <3>1, <3>2
  <2> QED BY <2>1, <2>3 DEF hasTrack, OfThisShare
<1> QED BY <1>1, <1>2, <1>3, PTL DEF ScreenSpec

-----------------------------------------------------------------------------
(* VoiceActivity *)

\* Until a track comes nothing is reported, so the monitor its OnTrack makes
\* begins in the state that was reported last.
VoiceInv ==
  /\ pushing \in [AudioTracks -> {"none", "idle", "fills", "last", "inner", "decides"}]
  /\ replaced \in BOOLEAN
  /\ (\A t \in AudioTracks : pushing[t] = "none") => told = FALSE
  /\ VoiceAgrees

\* A track that compared the pointer with the end moves it from where it was.
PointerInv ==
  /\ pushing \in [AudioTracks -> {"none", "idle", "fills", "last", "inner", "decides"}]
  /\ replaced \in BOOLEAN
  /\ ~replaced =>
       /\ ~vadPanic
       /\ samplePtr \in 0..(VoiceLevelsSampleSize - 1) /\ sample \in Seq(AudioLevels)
       /\ \A t, u \in AudioTracks : pushing[t] # "none" /\ pushing[u] # "none" => t = u
       /\ \A t \in AudioTracks : /\ pushing[t] = "last" => atEnd
                                 /\ pushing[t] = "inner" => ~atEnd

\* The monitor's state is reported: the voice message sent last says what
\* voiceState is, through pushes, mutes and the goroutines of two tracks.
THEOREM VoiceReported == VoiceSpec => []VoiceAgrees
<1>1. VoiceInit => VoiceInv
  BY DEF VoiceInit, VoiceInv, VoiceAgrees, AudioTracks
<1>2. VoiceInv /\ [VoiceNext]_voiceVars => VoiceInv'
  <2> SUFFICES ASSUME VoiceInv, [VoiceNext]_voiceVars PROVE VoiceInv'
    OBVIOUS
  <2>1. ASSUME NEW t \in AudioTracks, InitVAD(t) PROVE VoiceInv'
    <3>1. pushing[t] = "none" /\ pushing'[t] = "idle"
      BY <2>1 DEF InitVAD, VoiceInv
    <3>2. replaced' \/ \A u \in AudioTracks : pushing[u] = "none"
      BY <2>1 DEF InitVAD
    <3> QED BY <2>1, <3>1, <3>2 DEF InitVAD, VoiceInv, VoiceAgrees
  <2>2. ASSUME NEW t \in AudioTracks, Fill(t) PROVE VoiceInv'
    BY <2>2 DEF Fill, VoiceInv, VoiceAgrees
  <2>3. ASSUME NEW t \in AudioTracks, NEW level \in AudioLevels, AppendLevel(t, level) PROVE VoiceInv'
    <3>1. /\ pushing[t] = "fills" /\ pushing' = [pushing EXCEPT ![t] = "idle"]
          /\ UNCHANGED <<voiceState, told, unheard, replaced>>
      BY <2>3 DEF AppendLevel
    <3> QED BY <3>1 DEF VoiceInv, VoiceAgrees
  <2>4. ASSUME NEW t \in AudioTracks, NEW level \in AudioLevels, Put(t, level) PROVE VoiceInv'
    BY <2>4 DEF Put, VoiceInv, VoiceAgrees
  <2>5. ASSUME NEW t \in AudioTracks, Advance(t) PROVE VoiceInv'
    BY <2>5 DEF Advance, VoiceInv, VoiceAgrees
  <2>6. ASSUME NEW t \in AudioTracks, Decide(t) PROVE VoiceInv'
    <3>1. pushing[t] # "none" /\ pushing'[t] = "idle"
      BY <2>6 DEF Decide, VoiceInv
    <3> QED BY <2>6, <3>1 DEF Decide, send, VoiceInv, VoiceAgrees
  <2>7. ASSUME Mute PROVE VoiceInv'
    BY <2>7 DEF Mute, Reset, send, VoiceInv, VoiceAgrees, AudioTracks
  <2>8. ASSUME ActivationEnds \/ UNCHANGED voiceVars PROVE VoiceInv'
    BY <2>8 DEF ActivationEnds, voiceVars, VoiceInv, VoiceAgrees
  <2> QED BY <2>1, <2>2, <2>4, <2>5, <2>6, <2>7, <2>8, <2>3 DEF VoiceNext
<1>3. VoiceInv => VoiceAgrees
  BY DEF VoiceInv
<1> QED BY <1>1, <1>2, <1>3, PTL DEF VoiceSpec

\* PushAudioLevel of a monitor with one track never indexes past the window.
THEOREM PointerBounded == VoiceSpec => []PointerInWindow
<1>1. VoiceInit => PointerInv
  <2>1. 0 \in 0..(VoiceLevelsSampleSize - 1) /\ <<>> \in Seq(AudioLevels)
    BY VoiceAssumption, SMTT(20)
  <2> QED BY <2>1 DEF VoiceInit, PointerInv
<1>2. PointerInv /\ [VoiceNext]_voiceVars => PointerInv'
  <2> SUFFICES ASSUME PointerInv, [VoiceNext]_voiceVars PROVE PointerInv'
    OBVIOUS
  <2>1. ASSUME NEW t \in AudioTracks, InitVAD(t) PROVE PointerInv'
    <3>1. /\ pushing' = [pushing EXCEPT ![t] = "idle"] /\ vadPanic' = vadPanic
          /\ replaced' = (replaced \/ \E u \in AudioTracks : pushing[u] # "none")
      BY <2>1 DEF InitVAD
    <3>2. /\ samplePtr' = 0 /\ 0 \in 0..(VoiceLevelsSampleSize - 1)
          /\ sample' \in Seq(AudioLevels)
      BY <2>1, VoiceAssumption DEF InitVAD
    <3>3. \A u \in AudioTracks : pushing'[u] = "last" \/ pushing'[u] = "inner" => pushing[u] # "none" /\ u # t
      BY <3>1 DEF PointerInv
    <3> QED BY <3>1, <3>2, <3>3 DEF PointerInv
  <2>2. ASSUME NEW t \in AudioTracks, Fill(t) PROVE PointerInv'
    BY <2>2 DEF Fill, PointerInv, atEnd
  <2>3. ASSUME NEW t \in AudioTracks, NEW level \in AudioLevels, AppendLevel(t, level) PROVE PointerInv'
    <3>1. /\ pushing[t] = "fills" /\ pushing' = [pushing EXCEPT ![t] = "idle"]
          /\ UNCHANGED <<samplePtr, vadPanic, replaced>>
          /\ sample' \in {Append(sample, level), sample}
      BY <2>3 DEF AppendLevel
    <3>2. ~replaced => sample' \in Seq(AudioLevels)
      BY <3>1 DEF PointerInv
    <3> QED BY <3>1, <3>2 DEF PointerInv, atEnd
  <2>4. ASSUME NEW t \in AudioTracks, NEW level \in AudioLevels, Put(t, level) PROVE PointerInv'
    <3>1. ~replaced => samplePtr < Len(sample) /\ samplePtr + 1 \in 1..Len(sample)
      BY <2>4, VoiceAssumption DEF Put, PointerInv
    <3>2. atEnd' = atEnd /\ samplePtr' = samplePtr /\ replaced' = replaced
      BY <2>4 DEF Put, atEnd
    <3>3. ~replaced => /\ sample' = [sample EXCEPT ![samplePtr + 1] = level]
                       /\ pushing' = [pushing EXCEPT ![t] = IF atEnd THEN "last" ELSE "inner"]
                       /\ vadPanic' = vadPanic
      BY <2>4, <3>1 DEF Put
    <3>4. ~replaced => sample' \in Seq(AudioLevels)
      BY <3>1, <3>3 DEF PointerInv
    <3> QED BY <2>4, <3>2, <3>3, <3>4 DEF Put, PointerInv
  <2>5. ASSUME NEW t \in AudioTracks, Advance(t) PROVE PointerInv'
    <3>1. ~replaced => \A u \in AudioTracks : u # t => pushing[u] = "none"
      BY <2>5 DEF Advance, PointerInv
    <3>2. ~replaced => samplePtr' \in 0..(VoiceLevelsSampleSize - 1)
      BY <2>5, VoiceAssumption DEF Advance, PointerInv, atEnd
    <3> QED BY <2>5, <3>1, <3>2 DEF Advance, PointerInv
  <2>6. ASSUME NEW t \in AudioTracks, Decide(t) PROVE PointerInv'
    <3>1. UNCHANGED <<sample, samplePtr, vadPanic, replaced>> /\ pushing[t] # "none" /\ pushing' = [pushing EXCEPT ![t] = "idle"]
      BY <2>6 DEF Decide
    <3> QED BY <3>1 DEF PointerInv, atEnd
  <2>7. ASSUME Mute PROVE PointerInv'
    <3>1. /\ UNCHANGED <<pushing, vadPanic, replaced>> /\ sample' = <<>>
          /\ samplePtr' = 0 /\ 0 \in 0..(VoiceLevelsSampleSize - 1)
      BY <2>7, VoiceAssumption DEF Mute, Reset
    <3>2. \A t \in AudioTracks : pushing[t] \in {"none", "idle"}
      BY <2>7 DEF Mute, locked, inPush
    <3> QED BY <3>1, <3>2 DEF PointerInv
  <2>8. ASSUME ActivationEnds \/ UNCHANGED voiceVars PROVE PointerInv'
    BY <2>8 DEF ActivationEnds, voiceVars, PointerInv, atEnd
  <2> QED BY <2>1, <2>2, <2>4, <2>5, <2>6, <2>7, <2>8, <2>3 DEF VoiceNext
<1>3. PointerInv => PointerInWindow
  BY DEF PointerInv, PointerInWindow
<1> QED BY <1>1, <1>2, <1>3, PTL DEF VoiceSpec

-----------------------------------------------------------------------------
(* RateMonitor *)

Samples == [ts : Nat, size : Nat]
Packets == [ts : Nat, size : Nat, before : Nat]

\* Where the ring begins: the samples are those of indices start to
\* samplesPtr - 1.
start == samplesPtr - Len(samples)

RateTypes ==
  /\ clock \in Nat /\ samples \in Seq(Samples)
  /\ pushed \in Seq(Packets)
  /\ samplesPtr = Len(pushed) /\ start \in Nat
  /\ filled => samples # <<>>
  /\ filled \/ start = 0

\* Every index of the ring holds the packet that was pushed as that one.
RingHolds ==
  \A i \in start..(samplesPtr - 1) :
    at(samples, i) = [ts |-> pushed[i + 1].ts, size |-> pushed[i + 1].size]

\* The bytes before a packet are those before the last one and its own.
BytesAddUp ==
  \A i \in 1..(samplesPtr - 1) : pushed[i + 1].before = pushed[i].before + pushed[i].size

RateInv == RateTypes /\ RingHolds /\ BytesAddUp

LEMMA ModSmall ==
  ASSUME NEW n \in Nat, NEW i \in 0..(n - 1)
  PROVE  i % n = i
OBVIOUS

\* Two indices less than a round apart are at different places of the ring.
LEMMA ModApart ==
  ASSUME NEW n \in Nat \ {0}, NEW p \in Nat, NEW i \in Nat, i < p, p < i + n
  PROVE  (p % n) + 1 # (i % n) + 1
<1> SUFFICES ASSUME p % n = i % n PROVE FALSE
  OBVIOUS
<1>0. p \div n \in Int /\ i \div n \in Int
  OBVIOUS
<1>1. PICK q \in Int, r \in Int : q = p \div n /\ r = i \div n
  BY <1>0
<1>2. p = n * q + (p % n) /\ i = n * r + (i % n)
  BY <1>1
<1>3. p - i = n * (q - r)
  BY <1>2
<1>4. PICK d \in Int : d = q - r
  OBVIOUS
<1>5. CASE d <= 0
  BY <1>3, <1>4, <1>5
<1>6. CASE d >= 1
  BY <1>3, <1>4, <1>6
<1> QED BY <1>4, <1>5, <1>6

LEMMA ModBounds ==
  ASSUME NEW n \in Nat \ {0}, NEW i \in Nat
  PROVE  (i % n) + 1 \in 1..n
OBVIOUS

\* The bytes pushed so far.
LEMMA BytesSoFar ==
  ASSUME RateTypes
  PROVE  /\ pushedBytes \in Nat
         /\ samplesPtr # 0 => pushedBytes = pushed[samplesPtr].before + pushed[samplesPtr].size
<1>1. pushed = <<>> <=> samplesPtr = 0
  BY DEF RateTypes
<1>2. samplesPtr = Len(pushed) /\ (samplesPtr # 0 => samplesPtr \in 1..Len(pushed))
  BY DEF RateTypes
<1>3. CASE samplesPtr = 0
  BY <1>1, <1>3 DEF pushedBytes
<1>4. CASE samplesPtr # 0
  <2>1. pushed[samplesPtr] \in Packets
    <3>1. pushed \in Seq(Packets) /\ samplesPtr \in 1..Len(pushed)
      BY <1>2, <1>4 DEF RateTypes
    <3> QED BY <3>1
  <2>2. pushedBytes = pushed[samplesPtr].before + pushed[samplesPtr].size
    BY <1>1, <1>2, <1>4 DEF pushedBytes
  <2> QED BY <2>1, <2>2 DEF Packets
<1> QED BY <1>3, <1>4

LEMMA PushSampleKeeps ==
  ASSUME RateInv, NEW size \in PacketSizes, PushSample(size)
  PROVE  RateInv'
<1>0. RateTypes /\ RingHolds /\ BytesAddUp
  BY DEF RateInv
<1>p. PICK packet, p, n : packet = [ts |-> clock, size |-> size] /\ p = samplesPtr /\ n = Len(samples)
  OBVIOUS
<1>q. PICK entry : entry = [ts |-> clock, size |-> size, before |-> pushedBytes]
  OBVIOUS
<1>1. /\ pushed' = Append(pushed, entry) /\ samplesPtr' = p + 1 /\ UNCHANGED clock
      /\ IF filled THEN samples' = [samples EXCEPT ![place] = packet] /\ UNCHANGED filled
         ELSE samples' = Append(samples, packet)
  BY <1>p, <1>q DEF PushSample
<1>2. /\ packet \in Samples /\ entry \in Packets
      /\ packet = [ts |-> entry.ts, size |-> entry.size] /\ entry.before = pushedBytes
  <2>1. size \in Nat /\ clock \in Nat /\ pushedBytes \in Nat
    BY <1>0, BytesSoFar, RateAssumption DEF RateTypes
  <2> QED BY <1>p, <1>q, <2>1 DEF Samples, Packets
<1>3. /\ p \in Nat /\ n \in Nat /\ p = Len(pushed) /\ p - n \in Nat /\ start = p - n
      /\ pushed \in Seq(Packets) /\ samples \in Seq(Samples)
      /\ filled => n # 0
      /\ ~filled => n = p
  BY <1>0, <1>p DEF RateTypes, start
<1>4. /\ pushed' \in Seq(Packets) /\ Len(pushed') = p + 1
      /\ pushed'[p + 1] = entry /\ \A i \in 1..p : pushed'[i] = pushed[i]
  BY <1>1, <1>2, <1>3
<1>5. BytesAddUp'
  <2>1. ASSUME NEW i \in 1..p PROVE pushed'[i + 1].before = pushed'[i].before + pushed'[i].size
    <3>1. CASE i = p
      BY <1>0, <1>2, <1>3, <1>4, <1>p, <3>1, BytesSoFar
    <3>2. CASE i # p
      <4>1. i \in 1..(p - 1) /\ i + 1 \in 1..p
        BY <1>3, <3>2
      <4> QED BY <1>0, <1>4, <1>p, <4>1 DEF BytesAddUp
    <3> QED BY <3>1, <3>2
  <2>2. samplesPtr' - 1 = p
    BY <1>1, <1>3
  <2> QED BY <2>1, <2>2 DEF BytesAddUp
<1>6. \A i \in 0..(p - 1) : i + 1 \in 1..p
  BY <1>3
<1>7. CASE filled
  <2>1. place = (p % n) + 1 /\ place \in 1..n /\ DOMAIN samples = 1..n
    <3>1. n \in Nat \ {0} /\ place = (p % n) + 1
      BY <1>3, <1>7, <1>p DEF place
    <3>2. (p % n) + 1 \in 1..n
      BY <1>3, <3>1, ModBounds
    <3>3. DOMAIN samples = 1..n
      BY <1>3, <1>p
    <3> QED BY <3>1, <3>2, <3>3
  <2>2. /\ samples' = [samples EXCEPT ![place] = packet] /\ filled'
        /\ samples' \in Seq(Samples) /\ Len(samples') = n /\ samples'[place] = packet
        /\ \A k \in 1..n : k # place => samples'[k] = samples[k]
    <3>1. PICK k : k = place /\ k \in 1..n /\ samples' = [samples EXCEPT ![k] = packet] /\ filled'
      BY <1>1, <1>7, <2>1
    <3>2. samples \in Seq(Samples) /\ Len(samples) = n /\ packet \in Samples
      BY <1>2, <1>3, <1>p
    <3>3. /\ samples' \in Seq(Samples) /\ Len(samples') = n /\ samples'[k] = packet
          /\ \A j \in 1..n : j # k => samples'[j] = samples[j]
      BY <3>1, <3>2
    <3> QED BY <3>1, <3>3
  <2>3. start' = p + 1 - n /\ samplesPtr' - 1 = p /\ samples' # <<>>
    <3>0. Len(samples') = n /\ samplesPtr' = p + 1 /\ start' = samplesPtr' - Len(samples')
      BY <1>1, <2>2 DEF start
    <3>1. start' = p + 1 - n /\ samplesPtr' - 1 = p
      BY <1>3, <3>0
    <3>2. n # 0 /\ Len(samples') = n
      BY <1>3, <1>7, <2>2
    <3> QED BY <3>1, <3>2
  <2>4. RateTypes'
    BY <1>0, <1>1, <1>3, <1>4, <2>2, <2>3 DEF RateTypes
  <2>5. ASSUME NEW i \in (p + 1 - n)..p
        PROVE  at(samples, i)' = [ts |-> pushed'[i + 1].ts, size |-> pushed'[i + 1].size]
    <3>1. at(samples, i)' = samples'[(i % n) + 1]
      BY <2>2 DEF at
    <3>2. CASE i = p
      BY <1>2, <1>4, <2>1, <2>2, <3>1, <3>2
    <3>3. CASE i # p
      <4>1. i \in (p - n)..(p - 1) /\ i \in 0..(p - 1) /\ i \in Nat /\ i < p /\ p < i + n
        BY <1>3, <1>7, <3>3
      <4>2. (p % n) + 1 # (i % n) + 1 /\ (i % n) + 1 \in 1..n
        BY <1>3, <1>7, <4>1, ModApart, ModBounds
      <4>3. (i % n) + 1 \in 1..n /\ (i % n) + 1 # place
        BY <2>1, <4>2
      <4>4. at(samples, i) = samples[(i % n) + 1]
        BY <1>p DEF at
      <4>5. at(samples, i) = [ts |-> pushed[i + 1].ts, size |-> pushed[i + 1].size]
        BY <1>0, <1>3, <1>p, <4>1 DEF RingHolds
      <4> QED BY <1>4, <1>6, <2>2, <3>1, <4>1, <4>3, <4>4, <4>5
    <3> QED BY <3>2, <3>3
  <2>6. RingHolds'
    BY <2>3, <2>5 DEF RingHolds
  <2> QED BY <1>5, <2>4, <2>6 DEF RateInv
<1>8. CASE ~filled
  <2>1. /\ samples' \in Seq(Samples) /\ Len(samples') = p + 1 /\ samples'[p + 1] = packet
        /\ \A k \in 1..p : samples'[k] = samples[k]
    <3>1. samples' = Append(samples, packet) /\ Len(samples) = p
      BY <1>1, <1>3, <1>8, <1>p
    <3> QED BY <1>2, <1>3, <3>1
  <2>2. start' = 0 /\ samplesPtr' - 1 = p /\ samples' # <<>>
    BY <1>1, <1>3, <2>1 DEF start
  <2>3. RateTypes'
    BY <1>0, <1>1, <1>3, <1>4, <2>1, <2>2 DEF RateTypes
  <2>4. ASSUME NEW i \in 0..p
        PROVE  at(samples, i)' = [ts |-> pushed'[i + 1].ts, size |-> pushed'[i + 1].size]
    <3>1. at(samples, i)' = samples'[i + 1]
      <4>1. i % (p + 1) = i
        <5>1. p + 1 \in Nat /\ i \in 0..((p + 1) - 1)
          BY <1>3
        <5> QED BY <5>1, ModSmall
      <4> QED BY <2>1, <4>1 DEF at
    <3>2. CASE i = p
      BY <1>2, <1>4, <2>1, <3>1, <3>2
    <3>3. CASE i # p
      <4>1. i \in 0..(p - 1) /\ i + 1 \in 1..p
        BY <1>3, <3>3
      <4>2. at(samples, i) = samples[i + 1]
        <5>1. i % p = i
          BY <1>3, <4>1, ModSmall
        <5> QED BY <1>3, <1>8, <1>p, <5>1 DEF at
      <4>3. at(samples, i) = [ts |-> pushed[i + 1].ts, size |-> pushed[i + 1].size]
        BY <1>0, <1>3, <1>8, <1>p, <4>1 DEF RingHolds
      <4> QED BY <1>4, <2>1, <3>1, <4>1, <4>2, <4>3
    <3> QED BY <3>2, <3>3
  <2>5. RingHolds'
    BY <2>2, <2>4 DEF RingHolds
  <2> QED BY <1>5, <2>3, <2>5 DEF RateInv
<1> QED BY <1>7, <1>8

\* The loop ends at an index that is old enough, or at the start of the ring.
stops(i) == clock - pushed[i + 1].ts >= SamplingSize \/ i = start

StopsAt(i, w) == w \in start..i /\ stops(w) /\ \A j \in (w + 1)..i : ~stops(j)

stopOf(i) == CHOOSE w : StopsAt(i, w)

\* Bytes of the packets before index i.
bytesTo(i) == IF i = samplesPtr THEN pushedBytes ELSE pushed[i + 1].before

\* What the loop ends with when it starts at index i.
gathered(i) == [bytes |-> bytesTo(i + 1) - bytesTo(stopOf(i)), duration |-> clock - pushed[stopOf(i) + 1].ts]

\* One turn of the loop, for the results g of the indices below.
turn(g, i) ==
  LET s == at(samples, i)
      duration == clock - s.ts
  IN  IF duration >= SamplingSize \/ i = samplesPtr - Len(samples)
      THEN [bytes |-> s.size, duration |-> duration]
      ELSE [bytes |-> s.size + g[i - 1].bytes, duration |-> g[i - 1].duration]

isLoop(g) == g = [i \in start..(samplesPtr - 1) |-> turn(g, i)]

LEMMA GatherIsLoop ==
  ASSUME \E g : isLoop(g)
  PROVE  isLoop(gather)
<1>1. gather = CHOOSE g : isLoop(g)
  BY DEF gather, isLoop, turn, start
<1> QED BY <1>1

\* Where the loop stops is the last index that stops it.
LEMMA StopFound ==
  ASSUME RateTypes, NEW i \in start..(samplesPtr - 1)
  PROVE  StopsAt(i, stopOf(i)) /\ \A w : StopsAt(i, w) => w = stopOf(i)
<1>1. start \in Nat /\ samplesPtr \in Nat /\ i \in Nat
  BY DEF RateTypes
<1> DEFINE S == {k \in Nat : k <= i - start /\ stops(i - k)}
<1>2. i - start \in S
  <2>1. i - start \in Nat /\ i - (i - start) = start
    BY <1>1
  <2> QED BY <2>1 DEF stops
<1>3. PICK k \in S : \A y \in S : k <= y
  BY <1>2, LeastNumber
<1>4. k \in Nat /\ k <= i - start /\ stops(i - k)
  BY <1>3
<1>5. ASSUME NEW j \in ((i - k) + 1)..i PROVE ~stops(j)
  <2>1. i - j \in Nat /\ i - j <= i - start /\ ~(k <= i - j) /\ i - (i - j) = j
    BY <1>1, <1>4, <1>5
  <2> QED BY <1>3, <2>1
<1>6. StopsAt(i, i - k)
  BY <1>1, <1>4, <1>5 DEF StopsAt
<1>7. StopsAt(i, stopOf(i))
  BY <1>6 DEF stopOf
<1>8. ASSUME NEW v, NEW w, StopsAt(i, v), StopsAt(i, w) PROVE v = w
  <2>1. v \in start..i /\ w \in start..i /\ ~(w \in (v + 1)..i) /\ ~(v \in (w + 1)..i)
    BY <1>8 DEF StopsAt
  <2> QED BY <1>1, <2>1
<1> QED BY <1>7, <1>8

LEMMA BytesTo ==
  ASSUME RateInv, NEW i \in start..(samplesPtr - 1)
  PROVE  /\ bytesTo(i) \in Nat /\ bytesTo(i + 1) = bytesTo(i) + pushed[i + 1].size
         /\ pushed[i + 1] \in Packets /\ i + 1 \in 1..samplesPtr
<1>0. RateTypes /\ BytesAddUp
  BY DEF RateInv
<1>1. start \in Nat /\ samplesPtr \in Nat /\ i \in Nat /\ i + 1 \in 1..samplesPtr /\ i # samplesPtr
  BY <1>0 DEF RateTypes
<1>2. pushed[i + 1] \in Packets
  <2>1. pushed \in Seq(Packets) /\ i + 1 \in 1..Len(pushed)
    BY <1>0, <1>1 DEF RateTypes
  <2> QED BY <2>1
<1>3. bytesTo(i) = pushed[i + 1].before /\ pushed[i + 1].before \in Nat
  BY <1>1, <1>2 DEF bytesTo, Packets
<1>4. CASE i + 1 = samplesPtr
  BY <1>0, <1>1, <1>2, <1>3, <1>4, BytesSoFar DEF bytesTo
<1>5. CASE i + 1 # samplesPtr
  <2>1. i + 1 \in 1..(samplesPtr - 1)
    BY <1>1, <1>5
  <2> QED BY <1>0, <1>1, <1>2, <1>3, <1>5, <2>1 DEF bytesTo, BytesAddUp
<1> QED BY <1>1, <1>2, <1>3, <1>4, <1>5

\* A turn at index i gathers what there is from i, when the one below gathered
\* what there is from there.
LEMMA TurnGathers ==
  ASSUME RateInv, NEW g, NEW i \in start..(samplesPtr - 1),
         ~stops(i) => i - 1 \in start..(samplesPtr - 1) /\ g[i - 1] = gathered(i - 1)
  PROVE  turn(g, i) = gathered(i)
<1>0. RateTypes /\ RingHolds
  BY DEF RateInv
<1>1. start \in Nat /\ samplesPtr \in Nat /\ i \in Nat
  BY <1>0 DEF RateTypes
<1>2. at(samples, i).ts = pushed[i + 1].ts /\ at(samples, i).size = pushed[i + 1].size
  BY <1>0 DEF RingHolds
<1>3. turn(g, i) = IF stops(i)
                   THEN [bytes |-> pushed[i + 1].size, duration |-> clock - pushed[i + 1].ts]
                   ELSE [bytes |-> pushed[i + 1].size + g[i - 1].bytes, duration |-> g[i - 1].duration]
  BY <1>2 DEF turn, stops, start
<1>4. /\ bytesTo(i) \in Nat /\ bytesTo(i + 1) = bytesTo(i) + pushed[i + 1].size
      /\ pushed[i + 1].size \in Nat
  BY BytesTo DEF Packets
<1>5. CASE stops(i)
  <2>1. StopsAt(i, i)
    BY <1>1, <1>5 DEF StopsAt
  <2>2. stopOf(i) = i
    BY <1>0, <2>1, StopFound
  <2>3. bytesTo(i + 1) - bytesTo(i) = pushed[i + 1].size
    BY <1>4
  <2> QED BY <1>3, <1>5, <2>2, <2>3 DEF gathered
<1>6. CASE ~stops(i)
  <2>1. i - 1 \in start..(samplesPtr - 1) /\ g[i - 1] = gathered(i - 1)
    BY <1>6
  <2>2. PICK w : w = stopOf(i - 1) /\ StopsAt(i - 1, w)
    BY <1>0, <2>1, StopFound
  <2>3. w \in start..(i - 1) /\ stops(w) /\ \A j \in (w + 1)..(i - 1) : ~stops(j)
    BY <2>2 DEF StopsAt
  <2>4. w \in start..i /\ w \in start..(samplesPtr - 1) /\ \A j \in (w + 1)..i : j = i \/ j \in (w + 1)..(i - 1)
    BY <1>1, <2>3
  <2>5. stopOf(i) = w
    <3>1. StopsAt(i, w)
      BY <1>6, <2>3, <2>4 DEF StopsAt
    <3> QED BY <1>0, <3>1, StopFound
  <2>6. (i - 1) + 1 = i /\ bytesTo(w) \in Nat
    BY <1>1, <2>4, BytesTo
  <2>7. gathered(i - 1) = [bytes |-> bytesTo(i) - bytesTo(w), duration |-> clock - pushed[w + 1].ts]
    BY <2>2, <2>6 DEF gathered
  <2>8. bytesTo(i + 1) - bytesTo(w) = pushed[i + 1].size + (bytesTo(i) - bytesTo(w))
    BY <1>4, <2>6
  <2> QED BY <1>3, <1>6, <2>1, <2>5, <2>7, <2>8 DEF gathered
<1> QED BY <1>5, <1>6

\* The loop adds up the packets from where it starts back to where it stops.
LEMMA GatherValue ==
  ASSUME RateInv, NEW i \in start..(samplesPtr - 1)
  PROVE  gather[i] = gathered(i)
<1> DEFINE D == start..(samplesPtr - 1)
           g0 == [j \in D |-> gathered(j)]
<1>0. start \in Nat /\ samplesPtr \in Nat
  BY DEF RateInv, RateTypes
<1>1. ASSUME NEW j \in D, ~stops(j) PROVE j - 1 \in D
  <2>1. j # start
    BY <1>1 DEF stops
  <2> QED BY <1>0, <2>1
<1>2. \A j \in D : turn(g0, j) = gathered(j)
  <2> SUFFICES ASSUME NEW j \in D PROVE turn(g0, j) = gathered(j)
    OBVIOUS
  <2>1. ~stops(j) => j - 1 \in D /\ g0[j - 1] = gathered(j - 1)
    BY <1>1
  <2> HIDE DEF g0
  <2> QED BY <2>1, TurnGathers
<1>3. isLoop(g0)
  BY <1>2 DEF isLoop
<1>4. isLoop(gather)
  BY <1>3, GatherIsLoop
<1>5. \A j \in D : gather[j] = turn(gather, j)
  BY <1>4 DEF isLoop
<1> DEFINE S == {k \in Nat : start + k \in D /\ gather[start + k] # gathered(start + k)}
<1>6. S = {}
  <2> SUFFICES ASSUME S # {} PROVE FALSE
    OBVIOUS
  <2>1. PICK k \in S : \A y \in S : k <= y
    BY LeastNumber
  <2>2. PICK j : j = start + k /\ j \in D /\ gather[j] # gathered(j) /\ k \in Nat
    BY <2>1
  <2>3. ASSUME ~stops(j) PROVE j - 1 \in D /\ gather[j - 1] = gathered(j - 1)
    <3>1. j - 1 \in D
      BY <1>1, <2>2, <2>3
    <3>2. k - 1 \in Nat /\ start + (k - 1) = j - 1 /\ ~(k <= k - 1)
      BY <1>0, <2>2, <3>1
    <3> QED BY <2>1, <3>1, <3>2
  <2>4. turn(gather, j) = gathered(j)
    BY <2>2, <2>3, TurnGathers
  <2> QED BY <1>5, <2>2, <2>4
<1>7. i - start \in Nat /\ start + (i - start) = i
  BY <1>0
<1> QED BY <1>6, <1>7

\* The oldest packet of the window is where the loop of GetRate stops.
LEMMA OldestStops ==
  ASSUME RateTypes, filled
  PROVE  samplesPtr - 1 \in start..(samplesPtr - 1) /\ oldest = stopOf(samplesPtr - 1) + 1
<1> DEFINE held == (Len(pushed) - Len(samples) + 1)..Len(pushed)
           old == {i \in held : clock - pushed[i].ts >= SamplingSize}
<1>0. /\ start \in Nat /\ samplesPtr \in Nat /\ Len(samples) \in Nat \ {0}
      /\ samplesPtr = Len(pushed) /\ start = samplesPtr - Len(samples)
  BY DEF RateTypes, start
<1>1. samplesPtr - 1 \in start..(samplesPtr - 1) /\ held = (start + 1)..samplesPtr
  BY <1>0
<1>2. oldest = IF old = {} THEN Min(held) ELSE Max(old)
  BY DEF oldest
<1>3. PICK w : w = stopOf(samplesPtr - 1) /\ StopsAt(samplesPtr - 1, w)
  BY <1>1, StopFound
<1>4. /\ w \in start..(samplesPtr - 1) /\ stops(w)
      /\ \A j \in (w + 1)..(samplesPtr - 1) : ~stops(j)
  BY <1>3 DEF StopsAt
<1>5. \A i \in held : /\ i - 1 \in start..(samplesPtr - 1) /\ (i - 1) + 1 = i
                      /\ i - 1 \in (w + 1)..(samplesPtr - 1) \/ i <= w + 1
  BY <1>0, <1>1, <1>4
<1>6. \A i \in old : stops(i - 1) /\ i <= w + 1
  <2>1. \A i \in old : i \in held /\ clock - pushed[i].ts >= SamplingSize
    OBVIOUS
  <2>2. \A i \in old : stops(i - 1)
    BY <1>5, <2>1 DEF stops
  <2> HIDE DEF held, old
  <2> QED BY <1>4, <1>5, <2>1, <2>2
<1>7. CASE old = {}
  <2>1. w + 1 \in held /\ w + 1 \notin old /\ w \in Nat
    BY <1>0, <1>1, <1>4, <1>7
  <2>2. w = start
    BY <1>4, <2>1 DEF stops
  <2>3. w + 1 \in held /\ \A y \in held : w + 1 <= y
    BY <1>0, <1>1, <2>1, <2>2
  <2> HIDE DEF held, old
  <2>4. Min(held) = w + 1
    <3>1. \A x \in held : (\A y \in held : x <= y) => x = w + 1
      BY <1>0, <1>1, <2>3
    <3>2. PICK x : x = Min(held) /\ x \in held /\ \A y \in held : x <= y
      BY <2>3 DEF Min
    <3> QED BY <3>1, <3>2
  <2> QED BY <1>1, <1>2, <1>3, <1>7, <2>4
<1>8. CASE old # {}
  <2>1. PICK v : v \in old
    BY <1>8
  <2>2. v \in held /\ stops(v - 1) /\ v <= w + 1 /\ clock - pushed[v].ts >= SamplingSize
    BY <1>6, <2>1
  <2>3. w + 1 \in old
    <3>1. w + 1 \in held
      BY <1>0, <1>1, <1>4
    <3>2. CASE w = start
      <4>1. v = w + 1
        BY <1>0, <1>1, <2>2, <3>2
      <4> QED BY <2>1, <4>1
    <3>3. CASE w # start
      BY <1>4, <3>1, <3>3 DEF stops
    <3> QED BY <3>2, <3>3
  <2>4. old \subseteq Int
    BY <1>0, <1>1
  <2> HIDE DEF held, old
  <2>5. Max(old) = w + 1
    <3>0. w + 1 \in old /\ \A y \in old : w + 1 >= y
      BY <1>6, <2>3, <2>4
    <3>1. ASSUME NEW x \in old, \A y \in old : x >= y PROVE x = w + 1
      <4>1. PICK top \in Int : top = w + 1 /\ x \in Int /\ x >= top /\ top >= x
        BY <2>4, <3>0, <3>1
      <4> QED BY <4>1
    <3>2. PICK x : x = Max(old) /\ x \in old /\ \A y \in old : x >= y
      BY <3>0 DEF Max
    <3> QED BY <3>1, <3>2
  <2> QED BY <1>1, <1>2, <1>3, <1>8, <2>5
<1> QED BY <1>7, <1>8

\* GetRate takes every packet of its window once, wherever the ring begins and
\* for any length of the ring and any sizes and times of packets.
THEOREM RateIsOfWindow == RateSpec => []RateOfWindow
<1>1. RateInit => RateInv
  <2> SUFFICES ASSUME RateInit PROVE RateInv
    OBVIOUS
  <2>1. samples = <<>> /\ pushed = <<>> /\ samplesPtr = 0 /\ ~filled /\ clock = 0
    BY DEF RateInit
  <2>2. start = 0
    <3>1. Len(samples) = 0 /\ samplesPtr = 0
      BY <2>1
    <3> QED BY <3>1 DEF start
  <2> QED BY <2>1, <2>2 DEF RateInv, RateTypes, RingHolds, BytesAddUp
<1>2. RateInv /\ [RateNext]_rateVars => RateInv'
  <2> SUFFICES ASSUME RateInv, [RateNext]_rateVars PROVE RateInv'
    OBVIOUS
  <2>1. ASSUME UNCHANGED <<samples, samplesPtr, filled, pushed>>, clock' \in Nat PROVE RateInv'
    BY <2>1 DEF RateInv, RateTypes, RingHolds, BytesAddUp, start, at
  <2>2. CASE Tick
    BY <2>1, <2>2 DEF Tick, RateInv, RateTypes
  <2>3. CASE UNCHANGED rateVars
    BY <2>1, <2>3 DEF rateVars, RateInv, RateTypes
  <2> QED BY <2>2, <2>3, PushSampleKeeps DEF RateNext
<1>3. RateInv => RateOfWindow
  <2> SUFFICES ASSUME RateInv, filled
               PROVE  GetRate = [bytes |-> pushedBytes - pushed[oldest].before,
                                 duration |-> clock - pushed[oldest].ts]
    BY DEF RateOfWindow
  <2>0. RateTypes
    BY DEF RateInv
  <2>1. PICK i, w : i = samplesPtr - 1 /\ i \in start..(samplesPtr - 1) /\ w = stopOf(i) /\ oldest = w + 1
    BY <2>0, OldestStops
  <2>2. StopsAt(i, w)
    BY <2>0, <2>1, StopFound
  <2>3. w # samplesPtr /\ i + 1 = samplesPtr
    BY <2>0, <2>1, <2>2 DEF StopsAt, RateTypes
  <2>4. GetRate = gathered(i)
    BY <2>1, GatherValue DEF GetRate
  <2> QED BY <2>1, <2>3, <2>4 DEF gathered, bytesTo
<1> QED BY <1>1, <1>2, <1>3, PTL DEF RateSpec
=============================================================================
