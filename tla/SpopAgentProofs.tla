--------------------------- MODULE SpopAgentProofs ---------------------------
(****************************************************************************)
(* Proofs about SpopAgent for every set of connections, number of workers,  *)
(* queue capacity and number of NOTIFYs.  First what the pieces of frames   *)
(* on the wire of a connection look like when the writers take turns, and   *)
(* that each frame written as a whole keeps them so; then the types, and    *)
(* the steps of the agent.                                                  *)
(****************************************************************************)
EXTENDS SpopAgent, SequenceTheorems, TLAPS

-------------------------------------------------------------------------------
(* Frames on a wire *)

\* The pieces of one frame follow each other.
Intact(s) == \A i \in 1 .. Len(s) :
    IF s[i].part = 1
    THEN i > 1 => s[i - 1].part = s[i - 1].of
    ELSE i > 1 /\ s[i - 1] = [s[i] EXCEPT !.part = s[i].part - 1]

\* A hello comes first, ACKs of NOTIFYs up to n come after it in order, and
\* nothing comes after a disconnect.
Ordered(s, n) == \A i \in 1 .. Len(s) :
    /\ s[i].part <= s[i].of
    /\ s[i].type = "hello" => i = s[i].part
    /\ s[i].type = "ack" => i > s[i].part /\ s[i].id \in 1 .. n
    /\ s[i].type = "disconnect" => \A j \in 1 .. Len(s) : i < j =>
           s[j].type = "disconnect" /\ s[i].part < s[j].part
    /\ s[i].type = "ack" => \A j \in 1 .. Len(s) : i < j /\ s[j].type = "ack" =>
           \/ s[i].id < s[j].id
           \/ s[i].id = s[j].id /\ s[i].of = s[j].of /\ s[i].part < s[j].part

Clean(s, n) == Intact(s) /\ Ordered(s, n)

\* The last frame is complete.
Whole(s)   == s # <<>> => s[Len(s)].part = s[Len(s)].of
Good(s, n) == Clean(s, n) /\ Whole(s)

NoPiece(s, type) == \A i \in 1 .. Len(s) : s[i].type # type
AcksBelow(s, n)  == \A i \in 1 .. Len(s) : s[i].type = "ack" => s[i].id < n

-------------------------------------------------------------------------------

\* The pieces of a frame.
LEMMA PiecesOfFrame ==
  ASSUME NEW kind, NEW id \in Nat, NEW n \in {2, 3}, kind \in {"hello", "ack", "disconnect"}
  PROVE  Pieces(kind, id, n) \in Seq(Piece) /\ Len(Pieces(kind, id, n)) = n
<1>1. \A i \in 1 .. n : [type |-> kind, id |-> id, part |-> i, of |-> n] \in Piece
  BY DEF Piece
<1>2. Pieces(kind, id, n) \in [1 .. n -> Piece]
  BY <1>1 DEF Pieces
<1>3. n \in Nat /\ Pieces(kind, id, n) \in Seq(Piece)
  BY <1>2
<1> QED
  BY <1>2, <1>3, LenProperties

LEMMA PieceOfFrame ==
  ASSUME NEW kind, NEW id, NEW n, NEW i \in 1 .. n
  PROVE  Pieces(kind, id, n)[i] = [type |-> kind, id |-> id, part |-> i, of |-> n]
  BY DEF Pieces

LEMMA PieceFieldsOf ==
  ASSUME NEW p \in Piece
  PROVE  /\ p.type \in {"hello", "ack", "disconnect"}
         /\ p.id \in Nat /\ p.part \in 1 .. 3 /\ p.of \in {2, 3}
  BY DEF Piece

\* A piece has a place in its frame.
LEMMA PieceFields ==
  ASSUME NEW s \in Seq(Piece), NEW i \in 1 .. Len(s)
  PROVE  /\ s[i] \in Piece /\ s[i].type \in {"hello", "ack", "disconnect"}
         /\ s[i].id \in Nat /\ s[i].part \in 1 .. 3 /\ s[i].of \in {2, 3}
<1>1. s[i] \in Piece
  BY ElementOfSeq
<1> QED
  BY <1>1, PieceFieldsOf

\* The places of two sequences in their concatenation.
LEMMA PlacesOfConcat ==
  ASSUME NEW s \in Seq(Piece), NEW t \in Seq(Piece)
  PROVE  /\ s \o t \in Seq(Piece) /\ Len(s \o t) = Len(s) + Len(t)
         /\ Len(s) \in Nat /\ Len(t) \in Nat
         /\ \A i \in 1 .. Len(s) : i \in 1 .. Len(s \o t) /\ (s \o t)[i] = s[i]
         /\ \A i \in 1 .. Len(t) : /\ i + Len(s) \in 1 .. Len(s \o t)
                                   /\ (s \o t)[i + Len(s)] = t[i]
         /\ \A i \in 1 .. Len(s \o t) : i \in 1 .. Len(s) \/ i - Len(s) \in 1 .. Len(t)
<1>1. /\ s \o t \in Seq(Piece) /\ Len(s \o t) = Len(s) + Len(t)
      /\ \A i \in 1 .. Len(s) + Len(t) : (s \o t)[i] = IF i <= Len(s) THEN s[i] ELSE t[i - Len(s)]
  BY ConcatProperties
<1>2. Len(s) \in Nat /\ Len(t) \in Nat
  OBVIOUS
<1> QED
  BY <1>1, <1>2

\* Nothing has been written.
LEMMA NothingIsGood == ASSUME NEW n \in Nat
                       PROVE  Good(<<>>, n)
  BY DEF Good, Clean, Intact, Ordered, Whole

\* What is in good order stays so when more NOTIFYs have been sent.
LEMMA CleanGrows ==
  ASSUME NEW s \in Seq(Piece), NEW n \in Nat, NEW m \in Nat, n <= m
  PROVE  (Clean(s, n) => Clean(s, m)) /\ (Good(s, n) => Good(s, m))
<1>1. \A k : k \in 1 .. n => k \in 1 .. m
  OBVIOUS
<1> QED
  BY <1>1 DEF Good, Clean, Ordered

\* What has been written of a sequence in good order is in good order.
LEMMA CleanBefore ==
  ASSUME NEW s \in Seq(Piece), NEW t \in Seq(Piece), NEW n \in Nat, Clean(s \o t, n)
  PROVE  Clean(s, n)
<1>1. Len(s) \in Nat /\ \A i \in 1 .. Len(s) : i \in 1 .. Len(s \o t) /\ (s \o t)[i] = s[i]
  BY PlacesOfConcat
<1>2. \A i \in 1 .. Len(s) : i > 1 => i - 1 \in 1 .. Len(s)
  BY <1>1
<1>3. Intact(s)
  BY <1>1, <1>2 DEF Clean, Intact
<1>4. Ordered(s, n)
  BY <1>1, SMTT(30) DEF Clean, Ordered
<1> QED
  BY <1>3, <1>4 DEF Clean

\* The frames are apart: a whole frame after whole frames.
LEMMA IntactOn ==
  ASSUME NEW s \in Seq(Piece), Intact(s), Whole(s),
         NEW kind, NEW id \in Nat, NEW k \in {2, 3}, kind \in {"hello", "ack", "disconnect"}
  PROVE  Intact(s \o Pieces(kind, id, k)) /\ Whole(s \o Pieces(kind, id, k))
<1> DEFINE t == Pieces(kind, id, k)
           u == s \o t
<1>1. /\ t \in Seq(Piece) /\ Len(t) = k
      /\ \A i \in 1 .. k : t[i] = [type |-> kind, id |-> id, part |-> i, of |-> k]
  <2>1. t \in Seq(Piece) /\ Len(t) = k
    BY PiecesOfFrame
  <2>2. \A i \in 1 .. k : t[i] = [type |-> kind, id |-> id, part |-> i, of |-> k]
    BY PieceOfFrame
  <2> QED
    BY <2>1, <2>2
<1> HIDE DEF t
<1>2. /\ u \in Seq(Piece) /\ Len(u) = Len(s) + Len(t) /\ Len(s) \in Nat
      /\ \A i \in 1 .. Len(s) : i \in 1 .. Len(u) /\ u[i] = s[i]
      /\ \A i \in 1 .. Len(t) : i + Len(s) \in 1 .. Len(u) /\ u[i + Len(s)] = t[i]
      /\ \A i \in 1 .. Len(u) : i \in 1 .. Len(s) \/ i - Len(s) \in 1 .. Len(t)
  BY <1>1, PlacesOfConcat
<1> HIDE DEF u
<1>3. ASSUME NEW i \in 1 .. Len(u)
      PROVE  IF u[i].part = 1 THEN i > 1 => u[i - 1].part = u[i - 1].of
             ELSE i > 1 /\ u[i - 1] = [u[i] EXCEPT !.part = u[i].part - 1]
  <2>1. CASE i \in 1 .. Len(s)
    <3>1. u[i] = s[i] /\ (i > 1 => u[i - 1] = s[i - 1])
      BY <1>2, <2>1
    <3> QED
      BY <3>1, <2>1 DEF Intact
  <2>2. CASE i = Len(s) + 1
    <3>1. u[i].part = 1
      BY <1>1, <1>2, <2>2
    <3>2. i > 1 => s # <<>> /\ u[i - 1] = s[Len(s)]
      BY <1>2, <2>2
    <3> QED
      BY <3>1, <3>2 DEF Whole
  <2>3. CASE i > Len(s) + 1
    <3> DEFINE j == i - Len(s)
    <3>1. j \in 2 .. k /\ j - 1 \in 1 .. k /\ i > 1
      BY <1>1, <1>2, <2>3
    <3>2. u[i] = t[j]
      <4>1. j \in 1 .. Len(t) /\ j + Len(s) = i
        BY <1>1, <1>2, <3>1
      <4> QED
        BY <4>1, <1>2
    <3>3. u[i - 1] = t[j - 1]
      <4>1. j - 1 \in 1 .. Len(t) /\ (j - 1) + Len(s) = i - 1
        BY <1>1, <1>2, <3>1
      <4> QED
        BY <4>1, <1>2
    <3>4. /\ u[i] = [type |-> kind, id |-> id, part |-> j, of |-> k]
          /\ u[i - 1] = [type |-> kind, id |-> id, part |-> j - 1, of |-> k]
      BY <1>1, <3>1, <3>2, <3>3
    <3> HIDE DEF j
    <3> QED
      BY <3>1, <3>4
  <2> QED
    BY <1>2, <2>1, <2>2, <2>3
<1>4. u[Len(u)].part = u[Len(u)].of
  <2>1. k \in 1 .. Len(t) /\ Len(u) = k + Len(s)
    BY <1>1, <1>2
  <2> QED
    BY <1>1, <1>2, <2>1
<1> QED
  BY <1>3, <1>4 DEF Intact, Whole, u, t

\* An ACK of the last NOTIFY may follow the hello and the ACKs before it.
LEMMA AckIsGood ==
  ASSUME NEW s \in Seq(Piece), NEW n \in Nat, NEW k \in {2, 3}, n # 0,
         Good(s, n), s # <<>>, NoPiece(s, "disconnect"), AcksBelow(s, n)
  PROVE  Good(s \o Pieces("ack", n, k), n)
<1> DEFINE t == Pieces("ack", n, k)
           u == s \o t
<1>1. /\ t \in Seq(Piece) /\ Len(t) = k
      /\ \A i \in 1 .. k : t[i] = [type |-> "ack", id |-> n, part |-> i, of |-> k]
  <2>1. t \in Seq(Piece) /\ Len(t) = k
    BY PiecesOfFrame
  <2>2. \A i \in 1 .. k : t[i] = [type |-> "ack", id |-> n, part |-> i, of |-> k]
    BY PieceOfFrame
  <2> QED
    BY <2>1, <2>2
<1>2. Intact(u) /\ Whole(u)
  BY IntactOn DEF Good, Clean
<1> HIDE DEF t
<1>3. /\ u \in Seq(Piece) /\ Len(u) = Len(s) + Len(t) /\ Len(s) \in Nat
      /\ \A i \in 1 .. Len(s) : i \in 1 .. Len(u) /\ u[i] = s[i]
      /\ \A i \in 1 .. Len(t) : i + Len(s) \in 1 .. Len(u) /\ u[i + Len(s)] = t[i]
      /\ \A i \in 1 .. Len(u) : i \in 1 .. Len(s) \/ i - Len(s) \in 1 .. Len(t)
  BY <1>1, PlacesOfConcat
<1>4. Len(s) # 0
  OBVIOUS
<1> HIDE DEF u
<1>5. ASSUME NEW j \in 1 .. Len(u), j \notin 1 .. Len(s)
      PROVE  u[j] = [type |-> "ack", id |-> n, part |-> j - Len(s), of |-> k]
             /\ u[j].id = n /\ j - Len(s) \in 1 .. k /\ j > Len(s)
  <2>1. j - Len(s) \in 1 .. k /\ (j - Len(s)) + Len(s) = j
    BY <1>1, <1>3, <1>5
  <2>2. u[j] = t[j - Len(s)]
    BY <1>1, <1>3, <2>1
  <2> QED
    BY <1>1, <1>3, <2>1, <2>2
<1>6. ASSUME NEW i \in 1 .. Len(u)
      PROVE  /\ u[i].part <= u[i].of
             /\ u[i].type = "hello" => i = u[i].part
             /\ u[i].type = "ack" => i > u[i].part /\ u[i].id \in 1 .. n
             /\ u[i].type # "disconnect"
             /\ u[i].type = "ack" => \A j \in 1 .. Len(u) : i < j /\ u[j].type = "ack" =>
                    \/ u[i].id < u[j].id
                    \/ u[i].id = u[j].id /\ u[i].of = u[j].of /\ u[i].part < u[j].part
  <2>1. CASE i \in 1 .. Len(s)
    <3>1. u[i] = s[i] /\ u[i].type # "disconnect"
      BY <1>3, <2>1 DEF NoPiece
    <3>2. /\ u[i].part <= u[i].of
          /\ u[i].type = "hello" => i = u[i].part
          /\ u[i].type = "ack" => i > u[i].part /\ u[i].id \in 1 .. n
      BY <2>1, <3>1 DEF Good, Clean, Ordered
    <3>3. ASSUME NEW j \in 1 .. Len(u), u[i].type = "ack", i < j, u[j].type = "ack"
          PROVE  \/ u[i].id < u[j].id
                 \/ u[i].id = u[j].id /\ u[i].of = u[j].of /\ u[i].part < u[j].part
      <4>1. CASE j \in 1 .. Len(s)
        <5>1. u[j] = s[j]
          BY <1>3, <4>1
        <5> QED
          BY <2>1, <3>1, <3>3, <4>1, <5>1 DEF Good, Clean, Ordered
      <4>2. CASE j \notin 1 .. Len(s)
        <5>1. u[j].id = n
          BY <1>5, <4>2
        <5> QED
          BY <2>1, <3>1, <3>3, <5>1 DEF AcksBelow
      <4> QED
        BY <4>1, <4>2
    <3> QED
      BY <3>1, <3>2, <3>3
  <2>2. CASE i \notin 1 .. Len(s)
    <3>1. /\ u[i] = [type |-> "ack", id |-> n, part |-> i - Len(s), of |-> k]
          /\ i - Len(s) \in 1 .. k /\ i > Len(s)
      BY <1>5, <2>2
    <3>2. ASSUME NEW j \in 1 .. Len(u), i < j
          PROVE  u[i].id = u[j].id /\ u[i].of = u[j].of /\ u[i].part < u[j].part
      <4>1. j \notin 1 .. Len(s)
        BY <1>3, <3>1, <3>2
      <4>2. u[j] = [type |-> "ack", id |-> n, part |-> j - Len(s), of |-> k]
        BY <1>5, <4>1
      <4> QED
        BY <1>3, <3>1, <3>2, <4>2
    <3> QED
      BY <1>3, <1>4, <3>1, <3>2
  <2> QED
    BY <2>1, <2>2
<1>7. Ordered(u, n)
  BY <1>6 DEF Ordered
<1> QED
  BY <1>2, <1>7 DEF Good, Clean, u, t

\* A disconnect may follow everything but another.
LEMMA DisconnectIsGood ==
  ASSUME NEW s \in Seq(Piece), NEW n \in Nat, Good(s, n), NoPiece(s, "disconnect")
  PROVE  Good(s \o Pieces("disconnect", 0, 2), n)
<1> DEFINE t == Pieces("disconnect", 0, 2)
           u == s \o t
<1>1. /\ t \in Seq(Piece) /\ Len(t) = 2
      /\ \A i \in 1 .. 2 : t[i] = [type |-> "disconnect", id |-> 0, part |-> i, of |-> 2]
  <2>1. t \in Seq(Piece) /\ Len(t) = 2
    BY PiecesOfFrame
  <2>2. \A i \in 1 .. 2 : t[i] = [type |-> "disconnect", id |-> 0, part |-> i, of |-> 2]
    BY PieceOfFrame
  <2> QED
    BY <2>1, <2>2
<1>2. Intact(u) /\ Whole(u)
  BY IntactOn DEF Good, Clean
<1> HIDE DEF t
<1>3. /\ u \in Seq(Piece) /\ Len(u) = Len(s) + Len(t) /\ Len(s) \in Nat
      /\ \A i \in 1 .. Len(s) : i \in 1 .. Len(u) /\ u[i] = s[i]
      /\ \A i \in 1 .. Len(t) : i + Len(s) \in 1 .. Len(u) /\ u[i + Len(s)] = t[i]
      /\ \A i \in 1 .. Len(u) : i \in 1 .. Len(s) \/ i - Len(s) \in 1 .. Len(t)
  BY <1>1, PlacesOfConcat
<1> HIDE DEF u
<1>4. ASSUME NEW j \in 1 .. Len(u), j \notin 1 .. Len(s)
      PROVE  u[j] = [type |-> "disconnect", id |-> 0, part |-> j - Len(s), of |-> 2]
             /\ u[j].type = "disconnect" /\ j - Len(s) \in 1 .. 2 /\ j > Len(s)
  <2>1. j - Len(s) \in 1 .. 2 /\ (j - Len(s)) + Len(s) = j
    BY <1>1, <1>3, <1>4
  <2> QED
    BY <1>1, <1>3, <1>4, <2>1
<1>5. ASSUME NEW i \in 1 .. Len(u)
      PROVE  /\ u[i].part <= u[i].of
             /\ u[i].type = "hello" => i = u[i].part
             /\ u[i].type = "ack" => i > u[i].part /\ u[i].id \in 1 .. n
             /\ u[i].type = "disconnect" => \A j \in 1 .. Len(u) : i < j =>
                    u[j].type = "disconnect" /\ u[i].part < u[j].part
             /\ u[i].type = "ack" => \A j \in 1 .. Len(u) : i < j /\ u[j].type = "ack" =>
                    \/ u[i].id < u[j].id
                    \/ u[i].id = u[j].id /\ u[i].of = u[j].of /\ u[i].part < u[j].part
  <2>1. CASE i \in 1 .. Len(s)
    <3>1. u[i] = s[i] /\ u[i].type # "disconnect"
      BY <1>3, <2>1 DEF NoPiece
    <3>2. /\ u[i].part <= u[i].of
          /\ u[i].type = "hello" => i = u[i].part
          /\ u[i].type = "ack" => i > u[i].part /\ u[i].id \in 1 .. n
      BY <2>1, <3>1 DEF Good, Clean, Ordered
    <3>3. ASSUME NEW j \in 1 .. Len(u), u[i].type = "ack", i < j, u[j].type = "ack"
          PROVE  \/ u[i].id < u[j].id
                 \/ u[i].id = u[j].id /\ u[i].of = u[j].of /\ u[i].part < u[j].part
      <4>1. j \in 1 .. Len(s)
        <5>1. ASSUME j \notin 1 .. Len(s) PROVE u[j].type = "disconnect"
          BY <1>4, <5>1
        <5> QED
          BY <3>3, <5>1
      <4>2. u[j] = s[j]
        BY <1>3, <4>1
      <4> QED
        BY <2>1, <3>1, <3>3, <4>1, <4>2 DEF Good, Clean, Ordered
    <3> QED
      BY <3>1, <3>2, <3>3
  <2>2. CASE i \notin 1 .. Len(s)
    <3>1. /\ u[i] = [type |-> "disconnect", id |-> 0, part |-> i - Len(s), of |-> 2]
          /\ i - Len(s) \in 1 .. 2 /\ i > Len(s)
      BY <1>4, <2>2
    <3>2. ASSUME NEW j \in 1 .. Len(u), i < j
          PROVE  u[j].type = "disconnect" /\ u[i].part < u[j].part
      <4>1. j \notin 1 .. Len(s)
        BY <1>3, <3>1, <3>2
      <4>2. u[j] = [type |-> "disconnect", id |-> 0, part |-> j - Len(s), of |-> 2]
        BY <1>4, <4>1
      <4> QED
        BY <1>3, <3>1, <3>2, <4>2
    <3>3. u[i].part <= u[i].of /\ u[i].type = "disconnect"
      BY <3>1
    <3> QED
      BY <3>2, <3>3
  <2> QED
    BY <2>1, <2>2
<1>6. Ordered(u, n)
  BY <1>5 DEF Ordered
<1> QED
  BY <1>2, <1>6 DEF Good, Clean, u, t

\* The hello is the first frame.
Greeting == Pieces("hello", 0, 2)

LEMMA GreetingFacts ==
  /\ Greeting \in Seq(Piece) /\ Len(Greeting) = 2 /\ Greeting # <<>>
  /\ \A i \in 1 .. Len(Greeting) :
        Greeting[i] = [type |-> "hello", id |-> 0, part |-> i, of |-> 2]
<1>1. Greeting \in Seq(Piece) /\ Len(Greeting) = 2
  BY PiecesOfFrame DEF Greeting
<1>2. \A i \in 1 .. 2 : Greeting[i] = [type |-> "hello", id |-> 0, part |-> i, of |-> 2]
  BY PieceOfFrame DEF Greeting
<1> HIDE DEF Greeting
<1>3. Greeting # <<>>
  BY <1>1
<1> QED
  BY <1>1, <1>2, <1>3

LEMMA GreetingIsGood == ASSUME NEW n \in Nat
                        PROVE  Good(Greeting, n)
<1>1. Ordered(Greeting, n)
  BY GreetingFacts DEF Ordered
<1>2. Whole(Greeting)
  BY GreetingFacts DEF Whole
<1>3. Intact(Greeting)
  BY GreetingFacts DEF Intact
<1> QED
  BY <1>1, <1>2, <1>3 DEF Good, Clean

-------------------------------------------------------------------------------
(* Writing *)

\* A call of Write moves the first piece to the wire.
LEMMA WriteHead ==
  ASSUME NEW s \in Seq(Piece), NEW o \in Seq(Piece), o # <<>>
  PROVE  /\ Head(o) \in Piece /\ Head(o) = o[1] /\ Len(o) \in Nat \ {0}
         /\ Append(s, Head(o)) \in Seq(Piece) /\ Append(s, Head(o)) # <<>>
         /\ Tail(o) \in Seq(Piece) /\ Append(s, Head(o)) \o Tail(o) = s \o o
         /\ Len(o) = 1 => Append(s, Head(o)) = s \o o
         /\ Len(o) # 1 => Tail(o) # <<>>
         /\ \A i \in 1 .. Len(Tail(o)) : i + 1 \in 1 .. Len(o) /\ Tail(o)[i] = o[i + 1]
<1>1. /\ Head(o) \in Piece /\ Head(o) = o[1] /\ Len(o) \in Nat \ {0} /\ Tail(o) \in Seq(Piece)
      /\ Len(Tail(o)) = Len(o) - 1
      /\ \A i \in 1 .. Len(Tail(o)) : i + 1 \in 1 .. Len(o) /\ Tail(o)[i] = o[i + 1]
  BY HeadTailProperties, EmptySeq
<1>2. /\ Append(s, Head(o)) \in Seq(Piece) /\ Append(s, Head(o)) # <<>>
      /\ Len(Append(s, Head(o))) = Len(s) + 1
      /\ Append(s, Head(o))[Len(s) + 1] = o[1]
      /\ \A i \in 1 .. Len(s) : Append(s, Head(o))[i] = s[i]
  BY <1>1, AppendProperties
<1> DEFINE a == Append(s, Head(o))
           t == Tail(o)
<1>3. a \in Seq(Piece) /\ t \in Seq(Piece) /\ Len(a) = Len(s) + 1 /\ Len(t) = Len(o) - 1
      /\ a[Len(s) + 1] = o[1] /\ (\A i \in 1 .. Len(s) : a[i] = s[i])
      /\ \A i \in 1 .. Len(t) : i + 1 \in 1 .. Len(o) /\ t[i] = o[i + 1]
  BY <1>1, <1>2
<1> HIDE DEF a, t
<1>4. /\ s \o o \in Seq(Piece) /\ Len(s \o o) = Len(s) + Len(o) /\ Len(s) \in Nat
      /\ \A i \in 1 .. Len(s) + Len(o) : (s \o o)[i] = IF i <= Len(s) THEN s[i] ELSE o[i - Len(s)]
  BY ConcatProperties
<1>5. /\ a \o t \in Seq(Piece) /\ Len(a \o t) = Len(a) + Len(t)
      /\ \A i \in 1 .. Len(a) + Len(t) : (a \o t)[i] = IF i <= Len(a) THEN a[i] ELSE t[i - Len(a)]
  BY <1>3, ConcatProperties
<1>6. Len(a \o t) = Len(s \o o)
  BY <1>1, <1>3, <1>4, <1>5
<1>7. ASSUME NEW i \in 1 .. Len(s \o o)
      PROVE  (a \o t)[i] = (s \o o)[i]
  <2>1. CASE i <= Len(s)
    BY <1>1, <1>3, <1>4, <1>5, <2>1
  <2>2. CASE i = Len(s) + 1
    BY <1>1, <1>3, <1>4, <1>5, <2>2
  <2>3. CASE i > Len(s) + 1
    <3>1. i - Len(a) \in 1 .. Len(t) /\ (i - Len(a)) + 1 = i - Len(s)
      BY <1>1, <1>3, <1>4, <2>3
    <3>2. (a \o t)[i] = t[i - Len(a)]
      BY <1>3, <1>4, <1>5, <1>6, <3>1
    <3>3. t[i - Len(a)] = o[i - Len(s)]
      BY <1>3, <3>1
    <3>4. (s \o o)[i] = o[i - Len(s)]
      BY <1>4, <2>3
    <3> QED
      BY <3>2, <3>3, <3>4
  <2>4. i <= Len(s) \/ i = Len(s) + 1 \/ i > Len(s) + 1
    BY <1>4
  <2> QED
    BY <2>1, <2>2, <2>3, <2>4
<1>8. a \o t = s \o o
  BY <1>4, <1>5, <1>6, <1>7, SeqEqual
<1>9. Len(o) = 1 => t = <<>>
  BY <1>3, EmptySeq
<1>10. Len(o) = 1 => a = s \o o
  BY <1>3, <1>8, <1>9, ConcatEmptySeq
<1>11. Len(o) # 1 => t # <<>>
  BY <1>1, <1>3
<1> QED
  BY <1>1, <1>2, <1>8, <1>10, <1>11 DEF a, t

-------------------------------------------------------------------------------
(* Two writers at once: an ACK and AGENT-DISCONNECT *)

Other(p, q) == {p.type, q.type} = {"ack", "disconnect"}

\* The pieces of the two frames may mix, but keep their order in each frame.
Woven(s) == \A i \in 1 .. Len(s) :
    /\ s[i].part = 1 /\ i > 1 => s[i - 1].part = s[i - 1].of \/ Other(s[i], s[i - 1])
    /\ s[i].part > 1 => \E j \in 1 .. i - 1 :
           /\ s[j] = [s[i] EXCEPT !.part = s[i].part - 1]
           /\ \A k \in j + 1 .. i - 1 : Other(s[i], s[k])

\* The frames are in order, except that the ACK of NOTIFY n, the last one, may
\* come after a disconnect.
Placed(s, n) == \A i \in 1 .. Len(s) :
    /\ s[i].type = "hello" => i = s[i].part
    /\ s[i].type = "ack" => i > 1 /\ s[i].id \in 1 .. n
    /\ s[i].type = "disconnect" => \A j \in 1 .. Len(s) : i < j =>
           \/ s[j].type = "disconnect" /\ s[i].part < s[j].part
           \/ s[j].type = "ack" /\ s[j].id = n
    /\ s[i].type = "ack" => \A j \in 1 .. Len(s) : i < j /\ s[j].type = "ack" =>
           \/ s[i].id < s[j].id
           \/ s[i].id = s[j].id /\ s[i].part < s[j].part

Mixed(s, n) == Woven(s) /\ Placed(s, n)

\* Piece p of the ACK of n, or of a disconnect, may be written next.
MayFollow(s, n, p) ==
    /\ p \in Piece /\ s # <<>>
    /\ p.type = "disconnect" \/ (p.type = "ack" /\ p.id = n /\ n # 0)
    /\ p.part = 1 => s[Len(s)].part = s[Len(s)].of \/ Other(p, s[Len(s)])
    /\ p.part > 1 => \E j \in 1 .. Len(s) :
           /\ s[j] = [p EXCEPT !.part = p.part - 1]
           /\ \A k \in j + 1 .. Len(s) : Other(p, s[k])
    /\ \A i \in 1 .. Len(s) :
           s[i].type = p.type /\ (p.type = "ack" => s[i].id = n) => s[i].part < p.part

\* The pieces of one frame, or the rest of them.
Run(o) == \A i \in 1 .. Len(o) : i > 1 => o[i] = [o[i - 1] EXCEPT !.part = o[i - 1].part + 1]

\* The pieces o may be written one after the other, whatever comes between them.
Ready(s, n, o) == MayFollow(s, n, o[1]) /\ Run(o)

\* Two pieces of one frame that follow each other.
LEMMA PieceMoved ==
  ASSUME NEW p \in Piece, NEW k
  PROVE  [p EXCEPT !.part = k] = [type |-> p.type, id |-> p.id, part |-> k, of |-> p.of]
  BY DEF Piece

LEMMA PieceAfter ==
  ASSUME NEW p \in Piece, NEW q \in Piece, q = [p EXCEPT !.part = p.part + 1]
  PROVE  /\ q.part = p.part + 1 /\ q.type = p.type /\ q.id = p.id
         /\ p = [q EXCEPT !.part = q.part - 1]
<1>1. /\ p = [type |-> p.type, id |-> p.id, part |-> p.part, of |-> p.of]
      /\ p.part \in 1 .. 3
  BY DEF Piece
<1>2. q = [type |-> p.type, id |-> p.id, part |-> p.part + 1, of |-> p.of]
  BY PieceMoved
<1>3. q.part = p.part + 1 /\ q.type = p.type /\ q.id = p.id /\ q.of = p.of
  BY <1>2
<1>4. [q EXCEPT !.part = q.part - 1] = [type |-> q.type, id |-> q.id, part |-> q.part - 1, of |-> q.of]
  BY PieceMoved
<1>5. q.part - 1 = p.part
  BY <1>1, <1>3
<1> QED
  BY <1>1, <1>3, <1>4, <1>5

LEMMA PieceBefore ==
  ASSUME NEW p \in Piece, NEW q \in Piece, p = [q EXCEPT !.part = q.part - 1]
  PROVE  q = [p EXCEPT !.part = p.part + 1]
<1>1. /\ q = [type |-> q.type, id |-> q.id, part |-> q.part, of |-> q.of]
      /\ q.part \in 1 .. 3
  BY DEF Piece
<1>2. p = [type |-> q.type, id |-> q.id, part |-> q.part - 1, of |-> q.of]
  BY PieceMoved
<1>3. p.part = q.part - 1 /\ p.type = q.type /\ p.id = q.id /\ p.of = q.of
  BY <1>2
<1>4. [p EXCEPT !.part = p.part + 1] = [type |-> p.type, id |-> p.id, part |-> p.part + 1, of |-> p.of]
  BY PieceMoved
<1>5. p.part + 1 = q.part
  BY <1>1, <1>3
<1> QED
  BY <1>1, <1>3, <1>4, <1>5

\* Frames in good order are not mixed.
LEMMA CleanIsMixed ==
  ASSUME NEW s \in Seq(Piece), NEW n \in Nat, Clean(s, n)
  PROVE  Mixed(s, n)
<1> SUFFICES ASSUME NEW i \in 1 .. Len(s)
             PROVE  /\ s[i].part = 1 /\ i > 1 => s[i - 1].part = s[i - 1].of \/ Other(s[i], s[i - 1])
                    /\ s[i].part > 1 => \E j \in 1 .. i - 1 :
                           /\ s[j] = [s[i] EXCEPT !.part = s[i].part - 1]
                           /\ \A k \in j + 1 .. i - 1 : Other(s[i], s[k])
                    /\ s[i].type = "hello" => i = s[i].part
                    /\ s[i].type = "ack" => i > 1 /\ s[i].id \in 1 .. n
                    /\ s[i].type = "disconnect" => \A j \in 1 .. Len(s) : i < j =>
                           \/ s[j].type = "disconnect" /\ s[i].part < s[j].part
                           \/ s[j].type = "ack" /\ s[j].id = n
                    /\ s[i].type = "ack" => \A j \in 1 .. Len(s) : i < j /\ s[j].type = "ack" =>
                           \/ s[i].id < s[j].id
                           \/ s[i].id = s[j].id /\ s[i].part < s[j].part
  BY DEF Mixed, Woven, Placed
<1>1. s[i].part \in 1 .. 3 /\ Len(s) \in Nat
  BY PieceFields
<1>2. s[i].part = 1 /\ i > 1 => s[i - 1].part = s[i - 1].of
  BY DEF Clean, Intact
<1>3. ASSUME s[i].part > 1
      PROVE  \E j \in 1 .. i - 1 : /\ s[j] = [s[i] EXCEPT !.part = s[i].part - 1]
                                   /\ \A k \in j + 1 .. i - 1 : Other(s[i], s[k])
  <2>1. i > 1 /\ s[i - 1] = [s[i] EXCEPT !.part = s[i].part - 1]
    BY <1>1, <1>3 DEF Clean, Intact
  <2>2. i - 1 \in 1 .. i - 1 /\ \A k \in (i - 1) + 1 .. i - 1 : FALSE
    BY <2>1
  <2> QED
    BY <2>1, <2>2
<1>4. /\ s[i].type = "hello" => i = s[i].part
      /\ s[i].type = "ack" => i > 1 /\ s[i].id \in 1 .. n
  BY <1>1 DEF Clean, Ordered
<1>5. s[i].type = "disconnect" => \A j \in 1 .. Len(s) : i < j =>
          s[j].type = "disconnect" /\ s[i].part < s[j].part
  BY DEF Clean, Ordered
<1>6. s[i].type = "ack" => \A j \in 1 .. Len(s) : i < j /\ s[j].type = "ack" =>
          \/ s[i].id < s[j].id
          \/ s[i].id = s[j].id /\ s[i].part < s[j].part
  BY DEF Clean, Ordered
<1> QED
  BY <1>2, <1>3, <1>4, <1>5, <1>6

\* A piece that may follow does.
LEMMA MixedAppend ==
  ASSUME NEW s \in Seq(Piece), NEW n \in Nat, NEW p, Mixed(s, n), MayFollow(s, n, p)
  PROVE  Mixed(Append(s, p), n)
<1> DEFINE u == Append(s, p)
           m == Len(s)
<1>1. /\ u \in Seq(Piece) /\ Len(u) = m + 1 /\ u[m + 1] = p /\ m \in Nat \ {0} /\ p \in Piece
      /\ \A i \in 1 .. m : i \in 1 .. Len(u) /\ u[i] = s[i]
  <2>1. p \in Piece /\ s # <<>>
    BY DEF MayFollow
  <2> QED
    BY <2>1, AppendProperties, EmptySeq
<1>2. \A i \in 1 .. Len(u) : i \in 1 .. m \/ i = m + 1
  BY <1>1
<1> HIDE DEF u
<1>3. p.part \in 1 .. 3 /\ p.type \in {"hello", "ack", "disconnect"} /\ p.id \in Nat
  BY <1>1 DEF Piece
<1> SUFFICES ASSUME NEW i \in 1 .. Len(u)
             PROVE  /\ u[i].part = 1 /\ i > 1 => u[i - 1].part = u[i - 1].of \/ Other(u[i], u[i - 1])
                    /\ u[i].part > 1 => \E j \in 1 .. i - 1 :
                           /\ u[j] = [u[i] EXCEPT !.part = u[i].part - 1]
                           /\ \A k \in j + 1 .. i - 1 : Other(u[i], u[k])
                    /\ u[i].type = "hello" => i = u[i].part
                    /\ u[i].type = "ack" => i > 1 /\ u[i].id \in 1 .. n
                    /\ u[i].type = "disconnect" => \A j \in 1 .. Len(u) : i < j =>
                           \/ u[j].type = "disconnect" /\ u[i].part < u[j].part
                           \/ u[j].type = "ack" /\ u[j].id = n
                    /\ u[i].type = "ack" => \A j \in 1 .. Len(u) : i < j /\ u[j].type = "ack" =>
                           \/ u[i].id < u[j].id
                           \/ u[i].id = u[j].id /\ u[i].part < u[j].part
  BY DEF Mixed, Woven, Placed, u
<1>4. CASE i \in 1 .. m
  <2>1. u[i] = s[i] /\ (i > 1 => i - 1 \in 1 .. m /\ u[i - 1] = s[i - 1])
    BY <1>1, <1>4
  <2>2. u[i].part = 1 /\ i > 1 => u[i - 1].part = u[i - 1].of \/ Other(u[i], u[i - 1])
    BY <1>4, <2>1 DEF Mixed, Woven
  <2>3. ASSUME u[i].part > 1
        PROVE  \E j \in 1 .. i - 1 : /\ u[j] = [u[i] EXCEPT !.part = u[i].part - 1]
                                     /\ \A k \in j + 1 .. i - 1 : Other(u[i], u[k])
    <3>1. PICK j \in 1 .. i - 1 : /\ s[j] = [s[i] EXCEPT !.part = s[i].part - 1]
                                  /\ \A k \in j + 1 .. i - 1 : Other(s[i], s[k])
      BY <1>4, <2>1, <2>3 DEF Mixed, Woven
    <3>2. j \in 1 .. m /\ \A k \in j + 1 .. i - 1 : k \in 1 .. m
      BY <1>1, <1>4
    <3>3. u[j] = [u[i] EXCEPT !.part = u[i].part - 1] /\ \A k \in j + 1 .. i - 1 : Other(u[i], u[k])
      BY <1>1, <2>1, <3>1, <3>2
    <3> QED
      BY <3>3
  <2>4. /\ u[i].type = "hello" => i = u[i].part
        /\ u[i].type = "ack" => i > 1 /\ u[i].id \in 1 .. n
    BY <1>4, <2>1 DEF Mixed, Placed
  <2>5. ASSUME u[i].type = "disconnect", NEW j \in 1 .. Len(u), i < j
        PROVE  \/ u[j].type = "disconnect" /\ u[i].part < u[j].part
               \/ u[j].type = "ack" /\ u[j].id = n
    <3>1. CASE j \in 1 .. m
      <4>1. u[j] = s[j] /\ Placed(s, n)
        BY <1>1, <3>1 DEF Mixed
      <4> QED
        BY <1>4, <2>1, <2>5, <3>1, <4>1 DEF Placed
    <3>2. CASE j = m + 1
      BY <1>1, <1>3, <1>4, <2>1, <2>5, <3>2 DEF MayFollow
    <3> QED
      BY <1>2, <3>1, <3>2
  <2>6. ASSUME u[i].type = "ack", NEW j \in 1 .. Len(u), i < j, u[j].type = "ack"
        PROVE  u[i].id < u[j].id \/ (u[i].id = u[j].id /\ u[i].part < u[j].part)
    <3>1. CASE j \in 1 .. m
      <4>1. u[j] = s[j] /\ Placed(s, n)
        BY <1>1, <3>1 DEF Mixed
      <4> QED
        BY <1>4, <2>1, <2>6, <3>1, <4>1 DEF Placed
    <3>2. CASE j = m + 1
      <4>1. p.type = "ack" /\ p.id = n /\ u[j] = p
        BY <1>1, <2>6, <3>2 DEF MayFollow
      <4>2. u[i].id \in 1 .. n
        BY <2>4, <2>6
      <4>3. u[i].id = n => u[i].part < p.part
        BY <1>4, <2>1, <2>6, <4>1 DEF MayFollow
      <4> QED
        BY <4>1, <4>2, <4>3
    <3> QED
      BY <1>2, <3>1, <3>2
  <2> QED
    BY <2>2, <2>3, <2>4, <2>5, <2>6
<1>5. CASE i = m + 1
  <2>1. u[i] = p /\ i > 1 /\ i - 1 = m /\ u[i - 1] = s[m] /\ (\A j \in 1 .. Len(u) : ~ (i < j))
    BY <1>1, <1>5
  <2>2. u[i].part = 1 => u[i - 1].part = u[i - 1].of \/ Other(u[i], u[i - 1])
    BY <2>1 DEF MayFollow
  <2>3. ASSUME u[i].part > 1
        PROVE  \E j \in 1 .. i - 1 : /\ u[j] = [u[i] EXCEPT !.part = u[i].part - 1]
                                     /\ \A k \in j + 1 .. i - 1 : Other(u[i], u[k])
    <3>1. PICK j \in 1 .. m : /\ s[j] = [p EXCEPT !.part = p.part - 1]
                              /\ \A k \in j + 1 .. m : Other(p, s[k])
      BY <2>1, <2>3 DEF MayFollow
    <3>2. \A k \in j + 1 .. i - 1 : k \in j + 1 .. m /\ k \in 1 .. m
      BY <1>1, <2>1
    <3>3. u[j] = [u[i] EXCEPT !.part = u[i].part - 1] /\ \A k \in j + 1 .. i - 1 : Other(u[i], u[k])
      BY <1>1, <2>1, <3>1, <3>2
    <3> QED
      BY <2>1, <3>3
  <2>4. u[i].type # "hello" /\ (u[i].type = "ack" => u[i].id \in 1 .. n)
    BY <1>3, <2>1 DEF MayFollow
  <2> QED
    BY <2>1, <2>2, <2>3, <2>4
<1> QED
  BY <1>2, <1>4, <1>5

\* So does the next piece of its frame ...
LEMMA NextMayFollow ==
  ASSUME NEW s \in Seq(Piece), NEW n \in Nat, NEW p, NEW q \in Piece, MayFollow(s, n, p),
         q = [p EXCEPT !.part = p.part + 1]
  PROVE  MayFollow(Append(s, p), n, q)
<1> DEFINE u == Append(s, p)
           m == Len(s)
<1>1. /\ u \in Seq(Piece) /\ Len(u) = m + 1 /\ u[m + 1] = p /\ m \in Nat /\ p \in Piece
      /\ \A i \in 1 .. m : u[i] = s[i]
  <2>1. p \in Piece
    BY DEF MayFollow
  <2> QED
    BY <2>1, AppendProperties
<1> HIDE DEF u
<1>2. /\ p.part \in 1 .. 3 /\ q.part = p.part + 1 /\ q.type = p.type /\ q.id = p.id
      /\ p = [q EXCEPT !.part = q.part - 1]
  <2>1. p.part \in 1 .. 3
    BY <1>1, PieceFieldsOf
  <2>2. p \in Piece
    BY <1>1
  <2>3. /\ q.part = p.part + 1 /\ q.type = p.type /\ q.id = p.id
        /\ p = [q EXCEPT !.part = q.part - 1]
    BY <2>2, PieceAfter
  <2> QED
    BY <2>1, <2>3
<1>3. q.type = "disconnect" \/ (q.type = "ack" /\ q.id = n /\ n # 0)
  BY <1>2 DEF MayFollow
<1>4. \E j \in 1 .. Len(u) : /\ u[j] = [q EXCEPT !.part = q.part - 1]
                             /\ \A k \in j + 1 .. Len(u) : Other(q, u[k])
  <2>1. m + 1 \in 1 .. Len(u) /\ \A k \in (m + 1) + 1 .. Len(u) : FALSE
    BY <1>1
  <2> QED
    BY <1>1, <1>2, <2>1
<1>5. ASSUME NEW i \in 1 .. Len(u), u[i].type = q.type, q.type = "ack" => u[i].id = n
      PROVE  u[i].part < q.part
  <2>1. CASE i \in 1 .. m
    <3>1. s[i].part < p.part /\ s[i].part \in 1 .. 3
      BY <1>1, <1>2, <1>5, <2>1, PieceFields DEF MayFollow
    <3> QED
      BY <1>1, <1>2, <2>1, <3>1
  <2>2. CASE i = m + 1
    <3>1. u[i] = p
      BY <1>1, <2>2
    <3> QED
      BY <1>2, <3>1
  <2>3. i \in 1 .. m \/ i = m + 1
    BY <1>1
  <2> QED
    BY <2>1, <2>2, <2>3
<1>6. u # <<>> /\ q.part # 1
  BY <1>1, <1>2
<1> QED
  BY <1>3, <1>4, <1>5, <1>6 DEF MayFollow, u

\* ... and what the other writer is about to write.
LEMMA OtherMayFollow ==
  ASSUME NEW s \in Seq(Piece), NEW n \in Nat, NEW p, NEW q \in Piece, MayFollow(s, n, p), Other(p, q)
  PROVE  MayFollow(Append(s, q), n, p)
<1> DEFINE u == Append(s, q)
           m == Len(s)
<1>1. /\ u \in Seq(Piece) /\ Len(u) = m + 1 /\ u[m + 1] = q /\ m \in Nat
      /\ \A i \in 1 .. m : u[i] = s[i]
  BY AppendProperties
<1> HIDE DEF u
<1>2. p \in Piece /\ (p.type = "disconnect" \/ (p.type = "ack" /\ p.id = n /\ n # 0))
  BY DEF MayFollow
<1>3. u # <<>> /\ (p.part = 1 => Other(p, u[Len(u)]))
  BY <1>1
<1>4. ASSUME p.part > 1
      PROVE  \E j \in 1 .. Len(u) : /\ u[j] = [p EXCEPT !.part = p.part - 1]
                                    /\ \A k \in j + 1 .. Len(u) : Other(p, u[k])
  <2>1. PICK j \in 1 .. m : /\ s[j] = [p EXCEPT !.part = p.part - 1]
                            /\ \A k \in j + 1 .. m : Other(p, s[k])
    BY <1>4 DEF MayFollow
  <2>2. j \in 1 .. Len(u) /\ u[j] = s[j]
    BY <1>1
  <2>3. ASSUME NEW k \in j + 1 .. Len(u)
        PROVE  Other(p, u[k])
    <3>1. k = m + 1 \/ (k \in j + 1 .. m /\ k \in 1 .. m)
      BY <1>1, <2>3
    <3> QED
      BY <1>1, <2>1, <3>1
  <2> QED
    BY <2>1, <2>2, <2>3
<1>5. p.type # q.type
  <2> SUFFICES ASSUME p.type = q.type
               PROVE  FALSE
    OBVIOUS
  <2>1. {p.type, q.type} = {"ack", "disconnect"}
    BY DEF Other
  <2>2. "ack" \in {p.type, q.type} /\ "disconnect" \in {p.type, q.type}
    BY <2>1
  <2> QED
    BY <2>2
<1>6. ASSUME NEW i \in 1 .. Len(u), u[i].type = p.type, p.type = "ack" => u[i].id = n
      PROVE  u[i].part < p.part
  <2>1. i \in 1 .. m
    BY <1>1, <1>5, <1>6
  <2> QED
    BY <1>1, <1>6, <2>1 DEF MayFollow
<1> QED
  BY <1>2, <1>3, <1>4, <1>6 DEF MayFollow, u

\* One piece is written, and the rest may be.
LEMMA WriteReady ==
  ASSUME NEW s \in Seq(Piece), NEW n \in Nat, NEW o \in Seq(Piece), o # <<>>,
         Mixed(s, n), Ready(s, n, o)
  PROVE  /\ Mixed(Append(s, Head(o)), n)
         /\ Len(o) # 1 => Ready(Append(s, Head(o)), n, Tail(o)) /\ Tail(o)[1].type = o[1].type
<1>1. /\ Head(o) = o[1] /\ Tail(o) \in Seq(Piece) /\ (Len(o) # 1 => Tail(o) # <<>>)
      /\ \A i \in 1 .. Len(Tail(o)) : i + 1 \in 1 .. Len(o) /\ Tail(o)[i] = o[i + 1]
  BY WriteHead
<1>2. Mixed(Append(s, Head(o)), n)
  BY <1>1, MixedAppend DEF Ready
<1> DEFINE t == Tail(o)
<1>3. ASSUME Len(o) # 1
      PROVE  Ready(Append(s, Head(o)), n, t) /\ t[1].type = o[1].type
  <2>1. t # <<>> /\ t \in Seq(Piece) /\ \A i \in 1 .. Len(t) : i + 1 \in 1 .. Len(o) /\ t[i] = o[i + 1]
    BY <1>1, <1>3
  <2> HIDE DEF t
  <2>2. 1 \in 1 .. Len(t) /\ Len(t) \in Nat
    BY <2>1, EmptySeq
  <2>3. t[1] = o[2] /\ 2 \in 1 .. Len(o) /\ t[1] \in Piece
    BY <2>1, <2>2, ElementOfSeq
  <2>4. t[1] = [o[1] EXCEPT !.part = o[1].part + 1]
    <3>1. 2 > 1 /\ 2 - 1 = 1
      OBVIOUS
    <3> QED
      BY <2>3, <3>1 DEF Ready, Run
  <2>5. MayFollow(Append(s, Head(o)), n, t[1])
    BY <1>1, <2>3, <2>4, NextMayFollow DEF Ready
  <2>6. ASSUME NEW i \in 1 .. Len(t), i > 1
        PROVE  t[i] = [t[i - 1] EXCEPT !.part = t[i - 1].part + 1]
    <3>1. i - 1 \in 1 .. Len(t) /\ (i - 1) + 1 = i /\ (i + 1) - 1 = i /\ i + 1 > 1
      BY <2>2, <2>6
    <3>2. t[i] = o[i + 1] /\ t[i - 1] = o[i] /\ i + 1 \in 1 .. Len(o)
      BY <2>1, <3>1
    <3> QED
      BY <3>1, <3>2 DEF Ready, Run
  <2>7. Run(t)
    BY <2>6 DEF Run
  <2>8. o[1] \in Piece
    BY DEF Ready, MayFollow
  <2> QED
    BY <2>4, <2>5, <2>7, <2>8 DEF Ready, Piece
<1> QED
  BY <1>2, <1>3

\* The rest of an ACK that was being written when the writers took turns.
LEMMA RestIsReady ==
  ASSUME NEW s \in Seq(Piece), NEW n \in Nat, NEW o \in Seq(Piece), s # <<>>, o # <<>>,
         Good(s \o o, n), \A i \in 1 .. Len(o) : o[i].type = "ack" /\ o[i].id = n
  PROVE  Ready(s, n, o) /\ (s[Len(s)].type = "hello" => s[Len(s)].part = s[Len(s)].of)
<1> DEFINE u == s \o o
           m == Len(s)
<1>1. /\ u \in Seq(Piece) /\ Len(u) = m + Len(o) /\ m \in Nat \ {0} /\ Len(o) \in Nat \ {0}
      /\ \A i \in 1 .. m : i \in 1 .. Len(u) /\ u[i] = s[i]
      /\ \A i \in 1 .. Len(o) : i + m \in 1 .. Len(u) /\ u[i + m] = o[i]
  BY PlacesOfConcat, EmptySeq
<1> HIDE DEF u
<1>2. Intact(u) /\ Ordered(u, n)
  BY DEF Good, Clean, u
<1>3. \A i \in 1 .. Len(o) : o[i] \in Piece /\ o[i].part \in 1 .. 3
  BY PieceFields
<1>4. Run(o)
  <2> SUFFICES ASSUME NEW i \in 1 .. Len(o), i > 1
               PROVE  o[i] = [o[i - 1] EXCEPT !.part = o[i - 1].part + 1]
    BY DEF Run
  <2>1. i - 1 \in 1 .. Len(o) /\ (i + m) - 1 = (i - 1) + m
    BY <1>1
  <2>2. /\ i + m \in 1 .. Len(u) /\ (i - 1) + m \in 1 .. Len(u) /\ (i - 1) + m < i + m
        /\ u[i + m] = o[i] /\ u[(i - 1) + m] = o[i - 1]
    BY <1>1, <2>1
  <2>3. o[i - 1].part < o[i].part
    <3>1. o[i].type = "ack" /\ o[i - 1].type = "ack" /\ o[i].id = n /\ o[i - 1].id = n
      BY <2>1
    <3> DEFINE a == (i - 1) + m
               b == i + m
    <3>4. /\ a \in 1 .. Len(u) /\ b \in 1 .. Len(u) /\ a < b /\ Ordered(u, n)
          /\ u[a].type = "ack" /\ u[b].type = "ack"
      BY <1>2, <2>2, <3>1
    <3> HIDE DEF a, b
    <3>5. u[a].id < u[b].id \/ u[a].part < u[b].part
      BY <3>4 DEF Ordered
    <3>2. \/ u[(i - 1) + m].id < u[i + m].id
          \/ u[(i - 1) + m].part < u[i + m].part
      BY <3>5 DEF a, b
    <3>3. n \in Nat => ~ (n < n)
      OBVIOUS
    <3> QED
      BY <2>2, <3>1, <3>2, <3>3
  <2>4. o[i].part # 1
    BY <1>3, <2>1, <2>3
  <2>5. o[i - 1] = [o[i] EXCEPT !.part = o[i].part - 1]
    BY <1>2, <2>1, <2>2, <2>4 DEF Intact
  <2>6. o[i] \in Piece /\ o[i - 1] \in Piece
    BY <1>3, <2>1
  <2> QED
    BY <2>5, <2>6, PieceBefore
<1>5. 1 \in 1 .. Len(o) /\ 1 + m \in 1 .. Len(u) /\ u[1 + m] = o[1] /\ (1 + m) - 1 = m /\ 1 + m > 1
      /\ u[m] = s[m] /\ m \in 1 .. m
  BY <1>1
<1>6. o[1].type = "ack" /\ o[1].id = n /\ o[1] \in Piece /\ o[1].part \in 1 .. 3
  BY <1>3, <1>5
<1>7. n # 0
  BY <1>2, <1>5, <1>6 DEF Ordered
<1>8. /\ o[1].part = 1 => s[m].part = s[m].of
      /\ o[1].part # 1 => s[m] = [o[1] EXCEPT !.part = o[1].part - 1]
  BY <1>2, <1>5 DEF Intact
<1>9. o[1].part > 1 => \E j \in 1 .. m : /\ s[j] = [o[1] EXCEPT !.part = o[1].part - 1]
                                         /\ \A k \in j + 1 .. m : Other(o[1], s[k])
  <2>1. \A k \in m + 1 .. m : FALSE
    BY <1>1
  <2>2. o[1].part > 1 => o[1].part # 1
    BY <1>6
  <2> QED
    BY <1>5, <1>8, <2>1, <2>2
<1>10. ASSUME NEW i \in 1 .. m, s[i].type = "ack", s[i].id = n
       PROVE  s[i].part < o[1].part
  <2>1. i \in 1 .. Len(u) /\ u[i] = s[i] /\ i < 1 + m
    BY <1>1
  <2>2. \A k \in 1 .. Len(u) : i < k /\ u[k].type = "ack"
            => u[i].id < u[k].id \/ u[i].part < u[k].part
    <3>1. u[i].type = "ack"
      BY <1>10, <2>1
    <3> QED
      BY <1>2, <2>1, <3>1 DEF Ordered
  <2>3. u[i].id < u[1 + m].id \/ u[i].part < u[1 + m].part
    BY <1>5, <1>6, <2>1, <2>2
  <2>4. u[i].id = n /\ u[1 + m].id = n
    BY <1>5, <1>6, <1>10, <2>1
  <2>5. ~ (n < n)
    OBVIOUS
  <2> QED
    BY <1>5, <2>1, <2>3, <2>4, <2>5
<1>11. MayFollow(s, n, o[1])
  BY <1>6, <1>7, <1>8, <1>9, <1>10 DEF MayFollow
<1>12. s[m].type = "hello" => s[m].part = s[m].of
  BY <1>6, <1>8 DEF Piece
<1> QED
  BY <1>4, <1>11, <1>12 DEF Ready

\* A frame may be begun after a whole one, or beside the other writer's.
MayBegin(s, n, kind) ==
    /\ s # <<>>
    /\ s[Len(s)].part = s[Len(s)].of \/ {kind, s[Len(s)].type} = {"ack", "disconnect"}
    /\ \A i \in 1 .. Len(s) : s[i].type = kind => kind = "ack" /\ s[i].id < n

LEMMA FrameIsReady ==
  ASSUME NEW s \in Seq(Piece), NEW n \in Nat, NEW id \in Nat, NEW k \in {2, 3}, NEW kind,
         kind = "disconnect" \/ (kind = "ack" /\ id = n /\ n # 0), MayBegin(s, n, kind)
  PROVE  Ready(s, n, Pieces(kind, id, k)) /\ Pieces(kind, id, k)[1].type = kind
<1> DEFINE o == Pieces(kind, id, k)
<1>1. /\ o \in Seq(Piece) /\ Len(o) = k
      /\ \A i \in 1 .. k : o[i] = [type |-> kind, id |-> id, part |-> i, of |-> k]
  <2>1. o \in Seq(Piece) /\ Len(o) = k
    BY PiecesOfFrame
  <2>2. \A i \in 1 .. k : o[i] = [type |-> kind, id |-> id, part |-> i, of |-> k]
    BY PieceOfFrame
  <2> QED
    BY <2>1, <2>2
<1> HIDE DEF o
<1>2. 1 \in 1 .. k /\ 1 \in 1 .. Len(o)
  BY <1>1
<1>3. o[1] = [type |-> kind, id |-> id, part |-> 1, of |-> k] /\ o[1] \in Piece
  BY <1>1, <1>2, ElementOfSeq
<1>4. o[1].type = kind /\ o[1].id = id /\ o[1].part = 1
  BY <1>3
<1>5. s[Len(s)].part = s[Len(s)].of \/ Other(o[1], s[Len(s)])
  BY <1>4 DEF Other, MayBegin
<1>6. /\ \A i \in 1 .. Len(s) :
          ~ (s[i].type = o[1].type /\ (o[1].type = "ack" => s[i].id = n))
      /\ s # <<>>
  BY <1>4 DEF MayBegin
<1>7. MayFollow(s, n, o[1])
  BY <1>3, <1>4, <1>5, <1>6 DEF MayFollow
<1>8. Run(o)
  <2> SUFFICES ASSUME NEW i \in 1 .. Len(o), i > 1
               PROVE  o[i] = [o[i - 1] EXCEPT !.part = o[i - 1].part + 1]
    BY DEF Run
  <2>1. i \in 1 .. k /\ i - 1 \in 1 .. k /\ (i - 1) + 1 = i
    BY <1>1
  <2>2. /\ o[i] = [type |-> kind, id |-> id, part |-> i, of |-> k]
        /\ o[i - 1] = [type |-> kind, id |-> id, part |-> i - 1, of |-> k]
    BY <1>1, <2>1
  <2> DEFINE h == i - 1
  <2>3. h + 1 = i /\ o[h] = [type |-> kind, id |-> id, part |-> h, of |-> k]
    BY <2>1, <2>2
  <2> HIDE DEF h
  <2>4. [o[h] EXCEPT !.part = o[h].part + 1] = [type |-> kind, id |-> id, part |-> h + 1, of |-> k]
    BY <2>3
  <2> QED
    BY <2>2, <2>3, <2>4 DEF h
<1> QED
  BY <1>4, <1>7, <1>8 DEF Ready, o

-------------------------------------------------------------------------------
(* Types *)

\* What a worker writes is the ACK of the NOTIFY it handles.
WorkOut ==
    \A w \in Workers : work[w] # Nil => \A i \in 1 .. Len(work[w].out) :
        /\ work[w].f.type = "notify"
        /\ work[w].out[i].type = "ack" /\ work[w].out[i].id = work[w].f.id

AgentTypes == TypeOK /\ WorkOut

\* Where the goroutine of a connection may be.
Places == {"none", "read", "hello", "schedule", "close", "disconnect", "ncClose", "closed"}

\* One Write keeps the types.
LEMMA WriteType ==
  ASSUME wire \in [Conns -> Seq(Piece)],
         NEW c \in Conns, NEW p \in Piece, NEW ok \in BOOLEAN, Write(c, p, ok)
  PROVE  wire' \in [Conns -> Seq(Piece)]
<1>1. Append(wire[c], p) \in Seq(Piece)
  BY AppendProperties
<1> QED
  BY <1>1 DEF Write

LEMMA TypesInit == Init => AgentTypes
<1> SUFFICES ASSUME Init
             PROVE  AgentTypes
  OBVIOUS
<1>1. /\ <<>> \in Seq(InFrames) /\ <<>> \in Seq(Piece) /\ <<>> \in Seq([pc : Conns, f : InFrames])
      /\ Len(queue) = 0
  BY EmptySeq DEF Init
<1>2. /\ baseDone \in BOOLEAN /\ listening \in BOOLEAN
      /\ peer \in [Conns -> {"new", "greeting", "checking", "idle", "waiting", "leaving", "closed"}]
      /\ at \in [Conns -> {"none", "read", "hello", "schedule", "close", "disconnect", "ncClose", "closed"}]
      /\ sent \in [Conns -> Nat] /\ faulty \in [Conns -> BOOLEAN]
      /\ inbox \in [Conns -> Seq(InFrames)]
      /\ wire \in [Conns -> Seq(Piece)] /\ out \in [Conns -> Seq(Piece)]
      /\ gotHello \in [Conns -> BOOLEAN] /\ cancelled \in [Conns -> BOOLEAN]
      /\ cur \in [Conns -> InFrames \cup {Nil}]
  BY <1>1 DEF Init
<1>3. \A c \in Conns : at[c] = "none" /\ cur[c] = Nil /\ out[c] = <<>>
  BY DEF Init
<1>4. queue \in Seq([pc : Conns, f : InFrames]) /\ Len(queue) <= Cap
  BY <1>1, SizesAssumption DEF Init
<1>5. work \in [Workers -> Job \cup {Nil}]
      /\ \A w \in Workers : work[w] = Nil
  BY DEF Init
<1>6. TypeOK
  BY <1>2, <1>3, <1>4, <1>5 DEF TypeOK
<1>7. WorkOut
  BY <1>5 DEF WorkOut
<1> QED
  BY <1>6, <1>7 DEF AgentTypes

\* The pieces of the frames that are written.
LEMMA PiecesWritten ==
  /\ Pieces("hello", 0, 2) \in Seq(Piece) /\ Pieces("hello", 0, 2) # <<>>
  /\ Pieces("disconnect", 0, 2) \in Seq(Piece) /\ Pieces("disconnect", 0, 2) # <<>>
<1>1. /\ Pieces("hello", 0, 2) \in Seq(Piece) /\ Len(Pieces("hello", 0, 2)) = 2
      /\ Pieces("disconnect", 0, 2) \in Seq(Piece) /\ Len(Pieces("disconnect", 0, 2)) = 2
  BY PiecesOfFrame
<1> QED
  BY <1>1, EmptySeq

\* The goroutine of a connection keeps the types.
LEMMA ServeTypes ==
  ASSUME AgentTypes, NEW c \in Conns, Accept(c) \/ Serve(c)
  PROVE  AgentTypes'
<1> USE DEF AgentTypes
<1> TypeOK /\ WorkOut
  OBVIOUS
<1>0. /\ at[c] \in {"hello", "schedule"} => cur[c] \in InFrames
      /\ out[c] # <<>> <=> at[c] \in {"hello", "disconnect"}
      /\ queue \in Seq([pc : Conns, f : InFrames]) /\ Len(queue) \in Nat
      /\ wire \in [Conns -> Seq(Piece)]
  <2>1. \A d \in Conns : /\ at[d] \in {"hello", "schedule"} => cur[d] \in InFrames
                         /\ out[d] # <<>> <=> at[d] \in {"hello", "disconnect"}
    BY DEF TypeOK
  <2>2. /\ queue \in Seq([pc : Conns, f : InFrames]) /\ wire \in [Conns -> Seq(Piece)]
        /\ Len(queue) \in Nat
    BY DEF TypeOK
  <2> QED
    BY <2>1, <2>2, Zenon
<1>1. ASSUME inbox[c] # <<>>
      PROVE  /\ Head(inbox[c]) \in InFrames /\ Tail(inbox[c]) \in Seq(InFrames)
  BY <1>1, HeadTailProperties DEF TypeOK
<1>2. ASSUME out[c] # <<>>
      PROVE  /\ Head(out[c]) \in Piece /\ Tail(out[c]) \in Seq(Piece)
             /\ Len(out[c]) # 1 => Tail(out[c]) # <<>>
             /\ Len(out[c]) \in Nat /\ Len(out[c]) # 0
  <2>1. out[c] \in Seq(Piece)
    BY DEF TypeOK
  <2> QED
    BY <1>2, <2>1, WriteHead
<1>3. <<>> \in Seq(Piece) /\ <<>> \in Seq(InFrames)
  BY EmptySeq
<1>4. work' = work => WorkOut'
  BY DEF WorkOut
<1>5. CASE Accept(c)
  BY <1>4, <1>5 DEF Accept, TypeOK, env, peers, conn
<1>6. CASE ReadHello(c)
  BY <1>1, <1>4, <1>6, PiecesWritten DEF ReadHello, TypeOK, env, peers, conn
<1>7. CASE WriteHello(c)
  <2>1. /\ at[c] = "hello" /\ work' = work
        /\ UNCHANGED <<baseDone, listening, peer, sent, faulty, inbox, gotHello, queue, work>>
    BY <1>7 DEF WriteHello, env, peers
  <2>2. out[c] # <<>> /\ wire \in [Conns -> Seq(Piece)]
    BY <1>0, <2>1
  <2>3. PICK ok \in BOOLEAN :
            /\ Write(c, Head(out[c]), ok)
            /\ IF ok /\ Len(out[c]) > 1
               THEN /\ out' = [out EXCEPT ![c] = Tail(@)]
                    /\ UNCHANGED <<cur, at, cancelled>>
               ELSE /\ out' = [out EXCEPT ![c] = <<>>]
                    /\ cur' = [cur EXCEPT ![c] = Nil]
                    /\ IF EndsWithHello(c) THEN Cancel(c) ELSE UNCHANGED cancelled
                    /\ at' = [at EXCEPT ![c] =
                                 IF ok /\ ~ cancelled'[c] /\ ~ baseDone THEN "read" ELSE "close"]
    BY <1>7 DEF WriteHello
  <2>4. wire' \in [Conns -> Seq(Piece)]
    BY <1>2, <2>2, <2>3, WriteType
  <2>5. CASE ok /\ Len(out[c]) > 1
    <3>1. /\ out' = [out EXCEPT ![c] = Tail(@)] /\ UNCHANGED <<cur, at, cancelled>>
          /\ Tail(out[c]) \in Seq(Piece) /\ Tail(out[c]) # <<>>
      <4>1. Len(out[c]) # 1
        <5> DEFINE n == Len(out[c])
        <5>1. n \in Nat /\ n > 1
          BY <1>2, <2>2, <2>5, Zenon
        <5> HIDE DEF n
        <5>2. n # 1
          BY <5>1
        <5> QED
          BY <5>2 DEF n
      <4> QED
        BY <1>2, <2>2, <2>3, <2>5, <4>1
    <3> DEFINE t == Tail(out[c])
    <3>2. out' = [out EXCEPT ![c] = t] /\ t \in Seq(Piece) /\ t # <<>>
      BY <3>1
    <3> HIDE DEF t
    <3>3. \A d \in Conns : /\ at'[d] \in {"hello", "schedule"} => cur'[d] \in InFrames
                           /\ at'[d] \notin {"hello", "schedule"} => cur'[d] = Nil
                           /\ out'[d] # <<>> <=> at'[d] \in {"hello", "disconnect"}
      BY <2>1, <3>1, <3>2 DEF TypeOK
    <3>4. /\ out' \in [Conns -> Seq(Piece)] /\ at' \in [Conns -> Places]
          /\ cur' \in [Conns -> InFrames \cup {Nil}] /\ cancelled' \in [Conns -> BOOLEAN]
      BY <3>1, <3>2 DEF TypeOK, Places
    <3> QED
      BY <1>4, <2>1, <2>4, <3>3, <3>4 DEF TypeOK, Places
  <2>6. CASE ~ (ok /\ Len(out[c]) > 1)
    <3>1. cancelled' \in [Conns -> BOOLEAN]
      BY <2>3, <2>6 DEF Cancel, TypeOK
    <3>2. PICK p \in {"read", "close"} : at' = [at EXCEPT ![c] = p]
      BY <2>3, <2>6
    <3>3. out' = [out EXCEPT ![c] = <<>>] /\ cur' = [cur EXCEPT ![c] = Nil]
      BY <2>3, <2>6
    <3>4. /\ out' \in [Conns -> Seq(Piece)] /\ at' \in [Conns -> Places]
          /\ cur' \in [Conns -> InFrames \cup {Nil}]
      BY <1>3, <3>2, <3>3 DEF TypeOK, Places
    <3>5. \A d \in Conns : /\ at'[d] \in {"hello", "schedule"} => cur'[d] \in InFrames
                           /\ at'[d] \notin {"hello", "schedule"} => cur'[d] = Nil
                           /\ out'[d] # <<>> <=> at'[d] \in {"hello", "disconnect"}
      BY <3>2, <3>3 DEF TypeOK
    <3> QED
      BY <1>4, <2>1, <2>4, <3>1, <3>4, <3>5 DEF TypeOK, Places
  <2> QED
    BY <2>5, <2>6
<1>8. CASE RefuseHello(c)
  BY <1>1, <1>4, <1>8 DEF RefuseHello, TypeOK, env, peers, conn, Cancel
<1>9. CASE ReadFrame(c)
  BY <1>1, <1>4, <1>9 DEF ReadFrame, TypeOK, env, peers, conn
<1>10. CASE Schedule(c)
  <2>1. [pc |-> c, f |-> cur[c]] \in [pc : Conns, f : InFrames]
    BY <1>0, <1>10 DEF Schedule
  <2>2. queue' \in Seq([pc : Conns, f : InFrames]) /\ Len(queue') = Len(queue) + 1
        /\ Len(queue) \in Nat /\ Len(queue) < Cap
    BY <1>0, <1>10, <2>1, AppendProperties DEF Schedule
  <2>3. Len(queue') <= Cap
    BY <2>2, SizesAssumption
  <2>4. /\ cur' = [cur EXCEPT ![c] = Nil] /\ at' = [at EXCEPT ![c] = "read"]
        /\ UNCHANGED <<env, peers, inbox, wire, out, gotHello, cancelled, work>>
        /\ at[c] = "schedule"
    BY <1>10 DEF Schedule
  <2> QED
    BY <1>0, <1>4, <2>2, <2>3, <2>4 DEF TypeOK, env, peers
<1>11. CASE ReadFails(c)
  BY <1>3, <1>4, <1>11 DEF ReadFails, TypeOK, env, peers, conn
<1>12. CASE Close(c)
  <2>1. CASE Done(c)
    BY <1>4, <1>12, <2>1 DEF Close, TypeOK, env, peers, conn
  <2>2. CASE ~ Done(c)
    <3> DEFINE p == Pieces("disconnect", 0, 2)
    <3>1. p \in Seq(Piece) /\ p # <<>>
      BY PiecesWritten
    <3>2. /\ at' = [at EXCEPT ![c] = "disconnect"] /\ out' = [out EXCEPT ![c] = p]
          /\ UNCHANGED <<env, peers, inbox, wire, cur, gotHello, cancelled, queue, work>>
          /\ at[c] = "close"
      BY <1>12, <2>2 DEF Close
    <3> HIDE DEF p
    <3>3. \A d \in Conns : /\ at'[d] \in {"hello", "schedule"} => cur'[d] \in InFrames
                           /\ at'[d] \notin {"hello", "schedule"} => cur'[d] = Nil
                           /\ out'[d] # <<>> <=> at'[d] \in {"hello", "disconnect"}
      BY <3>1, <3>2 DEF TypeOK
    <3> QED
      BY <1>4, <3>1, <3>2, <3>3 DEF TypeOK, env, peers
  <2> QED
    BY <2>1, <2>2
<1>13. CASE WriteDisconnect(c)
  <2>1. /\ at[c] = "disconnect" /\ work' = work
        /\ UNCHANGED <<baseDone, listening, peer, sent, faulty, inbox, cur, gotHello, queue, work>>
    BY <1>13 DEF WriteDisconnect, env, peers
  <2>2. out[c] # <<>> /\ wire \in [Conns -> Seq(Piece)]
    BY <1>0, <2>1
  <2>3. PICK ok \in BOOLEAN :
            /\ Write(c, Head(out[c]), ok)
            /\ IF ~ ok \/ Len(out[c]) = 1
               THEN /\ out' = [out EXCEPT ![c] = <<>>]
                    /\ at' = [at EXCEPT ![c] = "ncClose"]
                    /\ Cancel(c)
               ELSE /\ out' = [out EXCEPT ![c] = Tail(@)]
                    /\ UNCHANGED <<at, cancelled>>
    BY <1>13 DEF WriteDisconnect
  <2>4. wire' \in [Conns -> Seq(Piece)]
    BY <1>2, <2>2, <2>3, WriteType
  <2>5. CASE ~ ok \/ Len(out[c]) = 1
    <3>1. /\ out' = [out EXCEPT ![c] = <<>>] /\ at' = [at EXCEPT ![c] = "ncClose"]
          /\ cancelled' = [cancelled EXCEPT ![c] = TRUE]
      BY <2>3, <2>5 DEF Cancel
    <3>2. /\ out' \in [Conns -> Seq(Piece)] /\ cancelled' \in [Conns -> BOOLEAN]
          /\ at' \in [Conns -> {"none", "read", "hello", "schedule", "close",
                               "disconnect", "ncClose", "closed"}]
      BY <1>3, <3>1 DEF TypeOK
    <3>3. \A d \in Conns : /\ at'[d] \in {"hello", "schedule"} => cur'[d] \in InFrames
                           /\ at'[d] \notin {"hello", "schedule"} => cur'[d] = Nil
                           /\ out'[d] # <<>> <=> at'[d] \in {"hello", "disconnect"}
      BY <2>1, <3>1 DEF TypeOK
    <3> QED
      BY <1>4, <2>1, <2>4, <3>2, <3>3 DEF TypeOK
  <2>6. CASE ~ (~ ok \/ Len(out[c]) = 1)
    BY <1>2, <1>4, <2>1, <2>2, <2>3, <2>4, <2>6 DEF TypeOK
  <2> QED
    BY <2>5, <2>6
<1>14. CASE CloseConn(c)
  BY <1>3, <1>4, <1>14 DEF CloseConn, TypeOK, env, peers, conn
<1> QED
  BY <1>5, <1>6, <1>7, <1>8, <1>9, <1>10, <1>11, <1>12, <1>13, <1>14 DEF Serve

\* HAProxy and the environment keep the types.
LEMMA PeerTypes ==
  ASSUME AgentTypes, CancelBase \/ CloseListener \/ \E c \in Conns : Peer(c)
  PROVE  AgentTypes'
<1> USE DEF AgentTypes
<1> TypeOK /\ WorkOut
  OBVIOUS
<1>1. ASSUME NEW c \in Conns, NEW m \in InFrames,
             NEW next \in {"new", "greeting", "checking", "idle", "waiting", "leaving", "closed"},
             Send(c, m, next)
      PROVE  /\ inbox' \in [Conns -> Seq(InFrames)]
             /\ peer' \in [Conns -> {"new", "greeting", "checking", "idle", "waiting", "leaving", "closed"}]
  <2>1. Append(inbox[c], m) \in Seq(InFrames)
    BY AppendProperties DEF TypeOK
  <2> QED
    BY <1>1, <2>1 DEF Send, TypeOK
<1>2. \A t \in Firsts \cup Faults \cup {"notify", "disconnect"}, id \in Nat : Frame(t, id) \in InFrames
  BY PeerAssumption DEF InFrames, Frame, Types
<1>3. work' = work => WorkOut'
  BY DEF WorkOut
<1>4. CASE CancelBase \/ CloseListener
  BY <1>3, <1>4 DEF CancelBase, CloseListener, TypeOK, env, peers, conn
<1>5. ASSUME NEW c \in Conns, PeerOpens(c)
      PROVE  AgentTypes'
  BY <1>1, <1>2, <1>3, <1>5 DEF PeerOpens, TypeOK, env, peers, conn
<1>6. ASSUME NEW c \in Conns, PeerGreeted(c) \/ PeerAcked(c) \/ PeerCloses(c)
      PROVE  AgentTypes'
  BY <1>3, <1>6 DEF PeerGreeted, PeerAcked, PeerCloses, TypeOK, env, peers, conn
<1>7. ASSUME NEW c \in Conns, PeerNotifies(c)
      PROVE  AgentTypes'
  <2>1. sent' \in [Conns -> Nat]
    <3>1. sent' = [sent EXCEPT ![c] = @ + 1]
      BY <1>7 DEF PeerNotifies
    <3> QED
      BY <3>1 DEF TypeOK
  <2>2. sent[c] + 1 \in Nat
    BY DEF TypeOK
  <2>3. Frame("notify", sent[c] + 1) \in InFrames
    BY <1>2, <2>2
  <2>4. /\ Send(c, Frame("notify", sent[c] + 1), "waiting")
        /\ UNCHANGED <<env, faulty, wire, conn, cancelled, queue, work>>
    BY <1>7 DEF PeerNotifies
  <2> QED
    BY <1>1, <1>3, <2>1, <2>3, <2>4 DEF TypeOK, env, conn
<1>8. ASSUME NEW c \in Conns, PeerDisconnects(c) \/ PeerMisbehaves(c)
      PROVE  AgentTypes'
  BY <1>1, <1>2, <1>3, <1>8 DEF PeerDisconnects, PeerMisbehaves, TypeOK, env, peers, conn
<1> QED
  BY <1>4, <1>5, <1>6, <1>7, <1>8 DEF Peer

\* The workers keep the types.
LEMMA WorkerTypes ==
  ASSUME AgentTypes, NEW w \in Workers, QueueWorker(w)
  PROVE  AgentTypes'
<1> USE DEF AgentTypes
<1> TypeOK /\ WorkOut
  OBVIOUS
<1> USE DEF Job
<1>1. <<>> \in Seq(Piece) /\ Len(<<>>) = 0
  BY EmptySeq
<1>2. ASSUME NEW j \in Job \cup {Nil}, work' = [work EXCEPT ![w] = j],
             UNCHANGED <<env, peers, inbox, conn, queue>>,
             wire' \in [Conns -> Seq(Piece)], cancelled' \in [Conns -> BOOLEAN],
             j # Nil => \A i \in 1 .. Len(j.out) :
                 j.f.type = "notify" /\ j.out[i].type = "ack" /\ j.out[i].id = j.f.id
      PROVE  AgentTypes'
  <2>1. work' \in [Workers -> Job \cup {Nil}]
    BY <1>2 DEF TypeOK
  <2>2. WorkOut'
    BY <1>2 DEF WorkOut, TypeOK
  <2> QED
    BY <1>2, <2>1, <2>2 DEF TypeOK, env, peers, conn
<1>3. wire \in [Conns -> Seq(Piece)] /\ cancelled \in [Conns -> BOOLEAN]
      /\ (work[w] # Nil => work[w] \in Job)
  BY DEF TypeOK
<1>4. CASE Get(w)
  <2>1. queue \in Seq([pc : Conns, f : InFrames]) /\ queue # <<>> /\ Len(queue) <= Cap
    BY <1>4 DEF Get, TypeOK
  <2>2. /\ Head(queue) \in [pc : Conns, f : InFrames] /\ queue' \in Seq([pc : Conns, f : InFrames])
        /\ Len(queue') <= Cap
    <3>1. /\ Head(queue) \in [pc : Conns, f : InFrames] /\ Tail(queue) \in Seq([pc : Conns, f : InFrames])
          /\ Len(Tail(queue)) = Len(queue) - 1 /\ Len(queue) \in Nat
      <4> DEFINE S == [pc : Conns, f : InFrames]
      <4>1. queue \in Seq(S) /\ queue # <<>>
        BY <2>1
      <4> HIDE DEF S
      <4>2. Head(queue) \in S /\ Tail(queue) \in Seq(S) /\ Len(Tail(queue)) = Len(queue) - 1
            /\ Len(queue) \in Nat
        BY <4>1, HeadTailProperties
      <4> QED
        BY <4>2 DEF S
    <3> QED
      BY <1>4, <2>1, <3>1, SizesAssumption DEF Get
  <2> DEFINE j == [pc |-> Head(queue).pc, f |-> Head(queue).f, out |-> <<>>]
  <2>3. j \in Job /\ j.out = <<>>
    BY <1>1, <2>2
  <2>4. work' = [work EXCEPT ![w] = j]
    BY <1>4 DEF Get
  <2> HIDE DEF j
  <2>5. WorkOut'
    BY <1>1, <2>3, <2>4 DEF WorkOut, TypeOK
  <2>6. work' \in [Workers -> Job \cup {Nil}]
    BY <2>3, <2>4 DEF TypeOK
  <2>7. UNCHANGED <<baseDone, listening, peer, sent, faulty, inbox, wire, at, cur, out, gotHello, cancelled>>
    BY <1>4 DEF Get, env, peers, conn
  <2> QED
    BY <2>2, <2>5, <2>6, <2>7 DEF TypeOK
<1>5. CASE HandlerReturns(w)
  <2>1. work[w] \in Job /\ work[w].f.type = "notify"
    BY <1>3, <1>5 DEF HandlerReturns, Handling
  <2>2. PICK n \in {2, 3} : work' = [work EXCEPT ![w].out = Pieces("ack", work[w].f.id, n)]
    BY <1>5, HandlerAssumption DEF HandlerReturns
  <2> DEFINE p == Pieces("ack", work[w].f.id, n)
             j == [work[w] EXCEPT !.out = p]
  <2>3. work[w].f.id \in Nat
    BY <2>1 DEF InFrames
  <2>4. p \in Seq(Piece) /\ Len(p) = n
    BY <2>3, PiecesOfFrame
  <2>5. \A i \in 1 .. n : p[i] = [type |-> "ack", id |-> work[w].f.id, part |-> i, of |-> n]
    BY PieceOfFrame
  <2>6. work' = [work EXCEPT ![w] = j]
    BY <2>2
  <2> HIDE DEF p
  <2>7. j \in Job /\ j.f = work[w].f /\ j.out = p
    BY <2>1, <2>4
  <2>8. UNCHANGED <<env, peers, inbox, wire, conn, cancelled, queue>>
    BY <1>5 DEF HandlerReturns
  <2> HIDE DEF j
  <2>9. \A i \in 1 .. Len(j.out) :
            j.f.type = "notify" /\ j.out[i].type = "ack" /\ j.out[i].id = j.f.id
    BY <2>1, <2>4, <2>5, <2>7
  <2> QED
    BY <1>2, <1>3, <2>6, <2>7, <2>8, <2>9
<1>6. CASE HandlerFails(w) \/ OnRefused(w)
  BY <1>2, <1>3, <1>6 DEF HandlerFails, OnRefused, FinishWork
<1>7. CASE WriteAck(w)
  <2>1. /\ work[w] # Nil /\ work[w] \in Job /\ work[w].out # <<>> /\ work[w].pc \in Conns
        /\ work[w].out \in Seq(Piece)
    BY <1>3, <1>7 DEF WriteAck
  <2>2. PICK ok \in BOOLEAN : /\ Write(work[w].pc, Head(work[w].out), ok)
                              /\ IF ~ ok \/ Len(work[w].out) = 1
                                 THEN FinishWork(w)
                                 ELSE work' = [work EXCEPT ![w].out = Tail(@)]
    BY <1>7 DEF WriteAck
  <2>3. UNCHANGED <<env, peers, inbox, conn, cancelled, queue>>
    BY <1>7 DEF WriteAck
  <2> DEFINE o == work[w].out
  <2>4. /\ Head(o) \in Piece /\ Tail(o) \in Seq(Piece)
        /\ \A i \in 1 .. Len(Tail(o)) : i + 1 \in 1 .. Len(o) /\ Tail(o)[i] = o[i + 1]
    BY <2>1, WriteHead
  <2>5. wire' \in [Conns -> Seq(Piece)]
    BY <1>3, <2>1, <2>2, <2>4, WriteType
  <2>6. CASE FinishWork(w)
    BY <1>2, <1>3, <2>3, <2>5, <2>6 DEF FinishWork
  <2>7. CASE work' = [work EXCEPT ![w].out = Tail(@)]
    <3> DEFINE j == [work[w] EXCEPT !.out = Tail(o)]
    <3>1. work' = [work EXCEPT ![w] = j]
      BY <2>7
    <3>2. j \in Job /\ j.f = work[w].f /\ j.out = Tail(o)
      BY <2>1, <2>4
    <3> HIDE DEF j
    <3>3. \A i \in 1 .. Len(j.out) :
              j.f.type = "notify" /\ j.out[i].type = "ack" /\ j.out[i].id = j.f.id
      BY <2>1, <2>4, <3>2 DEF WorkOut
    <3> QED
      BY <1>2, <1>3, <2>3, <2>5, <3>1, <3>2, <3>3
  <2> QED
    BY <2>2, <2>6, <2>7
<1>8. CASE OnDisconnect(w)
  <2>1. cancelled' \in [Conns -> BOOLEAN]
    BY <1>3, <1>8 DEF OnDisconnect, Cancel
  <2> QED
    BY <1>2, <1>3, <1>8, <2>1 DEF OnDisconnect, FinishWork
<1> QED
  BY <1>4, <1>5, <1>6, <1>7, <1>8 DEF QueueWorker

LEMMA TypesStep == ASSUME AgentTypes, [Next]_vars
                   PROVE  AgentTypes'
<1>1. CASE Next
  BY <1>1, ServeTypes, PeerTypes, WorkerTypes DEF Next
<1>2. CASE UNCHANGED vars
  BY <1>2 DEF vars, env, peers, conn, AgentTypes, TypeOK, WorkOut
<1> QED
  BY <1>1, <1>2

\* Every variable keeps its type, the scheduler's queue its capacity, and Serve
\* holds a frame exactly while it handles the hello or schedules, for any number
\* of connections and workers.
THEOREM TypeCorrect == Spec => []TypeOK
<1>1. AgentTypes => TypeOK
  BY DEF AgentTypes
<1> QED
  BY <1>1, TypesInit, TypesStep, PTL DEF Spec

-------------------------------------------------------------------------------
(* The context of a connection that has ended *)

\* A done context stays done.
LEMMA DoneStays ==
  ASSUME AgentTypes, [Next]_vars, NEW c \in Conns, Done(c)
  PROVE  Done(c)'
<1> USE DEF Done, Cancel
<1> TypeOK
  BY DEF AgentTypes
<1>1. ASSUME NEW d \in Conns, Accept(d) \/ Serve(d)
      PROVE  Done(c)'
  BY <1>1 DEF Accept, Serve, ReadHello, WriteHello, RefuseHello, ReadFrame, Schedule, ReadFails,
       Close, WriteDisconnect, CloseConn, env, TypeOK
<1>2. ASSUME NEW d \in Conns, Peer(d)
      PROVE  Done(c)'
  BY <1>2 DEF Peer, PeerOpens, PeerGreeted, PeerNotifies, PeerAcked, PeerDisconnects,
       PeerMisbehaves, PeerCloses, env
<1>3. ASSUME NEW w \in Workers, QueueWorker(w)
      PROVE  Done(c)'
  BY <1>3 DEF QueueWorker, Get, HandlerReturns, HandlerFails, WriteAck, OnDisconnect, OnRefused,
       env, TypeOK
<1>4. CASE CancelBase \/ CloseListener \/ UNCHANGED vars
  BY <1>4 DEF CancelBase, CloseListener, vars, env
<1> QED
  BY <1>1, <1>2, <1>3, <1>4 DEF Next

LEMMA ClosedIsDoneStep ==
  ASSUME AgentTypes, ClosedIsDone, [Next]_vars
  PROVE  ClosedIsDone'
<1> SUFFICES ASSUME NEW c \in Conns, at'[c] \in {"ncClose", "closed"}
             PROVE  Done(c)'
  BY DEF ClosedIsDone
<1> TypeOK
  BY DEF AgentTypes
<1>1. CASE at[c] \in {"ncClose", "closed"}
  BY <1>1, DoneStays DEF ClosedIsDone
<1>2. ASSUME at[c] \notin {"ncClose", "closed"}, NEW d \in Conns, Accept(d) \/ Serve(d)
      PROVE  Done(c)'
  <2>1. d = c /\ (Close(c) \/ WriteDisconnect(c))
    BY <1>2, ZenonT(30) DEF Accept, Serve, ReadHello, WriteHello, RefuseHello, ReadFrame, Schedule, ReadFails,
         Close, WriteDisconnect, CloseConn, TypeOK
  <2> QED
    BY <1>2, <2>1 DEF Close, WriteDisconnect, Done, Cancel, TypeOK, env
<1>3. ASSUME at[c] \notin {"ncClose", "closed"}, UNCHANGED at
      PROVE  FALSE
  BY <1>3
<1>4. ASSUME NEW d \in Conns, Peer(d)
      PROVE  UNCHANGED at
  BY <1>4 DEF Peer, PeerOpens, PeerGreeted, PeerNotifies, PeerAcked, PeerDisconnects,
       PeerMisbehaves, PeerCloses, conn
<1>5. ASSUME NEW w \in Workers, QueueWorker(w)
      PROVE  UNCHANGED at
  BY <1>5 DEF QueueWorker, Get, HandlerReturns, HandlerFails, WriteAck, OnDisconnect, OnRefused, conn
<1>6. CASE CancelBase \/ CloseListener \/ UNCHANGED vars
  BY <1>1, <1>3, <1>6 DEF CancelBase, CloseListener, vars, conn
<1> QED
  BY <1>1, <1>2, <1>3, <1>4, <1>5, <1>6 DEF Next

\* When nc.Close is called, the context handed to the connection's handlers is
\* done, on every way out of protocolClient.Serve.
THEOREM EndedConnIsDone == Spec => []ClosedIsDone
<1>1. Init => ClosedIsDone
  BY DEF Init, ClosedIsDone
<1>2. AgentTypes /\ ClosedIsDone /\ [Next]_vars => ClosedIsDone'
  BY ClosedIsDoneStep
<1> QED
  BY <1>1, <1>2, TypesInit, TypesStep, PTL DEF Spec
===============================================================================
