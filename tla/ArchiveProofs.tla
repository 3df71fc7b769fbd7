---------------------------- MODULE ArchiveProofs ----------------------------
(***************************************************************************)
(* CleanIsCoherent of the archive reader, for any containers, records,     *)
(* blobs and limits: what it calls clean is the archive of its records,    *)
(* entry for entry.                                                        *)
(*                                                                         *)
(* While no issue is noted, there is a set S of records of which three     *)
(* things hold: the running maps say of S what Known lists and of its      *)
(* order what InOrder does; each of S stands at the place that the         *)
(* manifest plans for its rank (Placement); and S is all that was read     *)
(* (RecordsRead).  At the end the checks of finish add the totals.  Then   *)
(* each shard is a slice of the ordered records (EndShards), the entries   *)
(* are the payload of S (EndPayload), the manifest is that of S            *)
(* (EndManifestIs), the container is the two packed (EndPack), and S is    *)
(* sound (EndSound): this is Coherent, with S as its witness.              *)
(***************************************************************************)
EXTENDS ArchiveValidation, Sums

-----------------------------------------------------------------------------
(* Order.  Keys of one length are ordered part by part.                    *)

LEMMA LeastNumber ==
  ASSUME NEW N \in SUBSET Nat, N # {} PROVE \E n \in N : \A m \in N : n <= m
<1> SUFFICES ASSUME \A n \in N : \E m \in N : m < n PROVE FALSE
  BY SMT
<1> DEFINE P == {n \in Nat : \A m \in N : n <= m}
<1>1. 0 \in P
  OBVIOUS
<1>2. ASSUME NEW n \in P PROVE n + 1 \in P
  <2>1. n \notin N
    BY SMT
  <2> QED BY <2>1, SMT
<1>3. P = Nat
  <2> HIDE DEF P
  <2>1. P \in SUBSET Nat
    BY DEF P
  <2> QED BY <1>1, <1>2, <2>1, NatSet
<1> QED
  <2> PICK n \in N : TRUE
    OBVIOUS
  <2>1. n + 1 \in P
    BY <1>3
  <2> QED BY <2>1, SMT

LEMMA LessIsStrict ==
  ASSUME NEW n \in Nat, NEW a \in [1..n -> Int], NEW b \in [1..n -> Int], NEW c \in [1..n -> Int]
  PROVE  /\ ~Less(a, a)
         /\ Less(a, b) /\ Less(b, c) => Less(a, c)
         /\ Less(a, b) => ~Less(b, a)
         /\ a = b \/ Less(a, b) \/ Less(b, a)
<1>1. Len(a) = n /\ Len(b) = n /\ Len(c) = n
  OBVIOUS
<1>2. ~Less(a, a)
  BY <1>1 DEF Less
<1>3. ASSUME Less(a, b), Less(b, c) PROVE Less(a, c)
  <2>1. PICK i \in 1..n : a[i] < b[i] /\ \A k \in 1..(i - 1) : a[k] = b[k]
    BY <1>1, <1>3 DEF Less
  <2>2. PICK j \in 1..n : b[j] < c[j] /\ \A k \in 1..(j - 1) : b[k] = c[k]
    BY <1>1, <1>3 DEF Less
  <2>3. CASE i <= j
    <3>1. a[i] < c[i]
      <4>1. a[i] \in Int /\ b[i] \in Int /\ c[i] \in Int
        OBVIOUS
      <4>2. b[i] <= c[i]
        BY <2>2, <2>3, <4>1
      <4> QED BY <2>1, <4>1, <4>2
    <3>2. \A k \in 1..(i - 1) : a[k] = c[k]
      BY <2>1, <2>2, <2>3
    <3> QED BY <1>1, <3>1, <3>2 DEF Less
  <2>4. CASE j < i
    <3>1. a[j] < c[j] /\ \A k \in 1..(j - 1) : a[k] = c[k]
      BY <2>1, <2>2, <2>4
    <3> QED BY <1>1, <3>1 DEF Less
  <2> QED BY <2>3, <2>4
<1>4. a = b \/ Less(a, b) \/ Less(b, a)
  <2> SUFFICES ASSUME a # b PROVE Less(a, b) \/ Less(b, a)
    OBVIOUS
  <2> DEFINE N == {i \in 1..n : a[i] # b[i]}
  <2>1. N # {} /\ N \in SUBSET Nat
    <3>1. a = [i \in 1..n |-> a[i]] /\ b = [i \in 1..n |-> b[i]]
      OBVIOUS
    <3>2. N = {} => \A i \in 1..n : a[i] = b[i]
      OBVIOUS
    <3> QED BY <3>1, <3>2
  <2> HIDE DEF N
  <2>2. PICK i \in N : \A j \in N : i <= j
    BY <2>1, LeastNumber
  <2>3. i \in 1..n /\ a[i] # b[i] /\ \A j \in 1..(i - 1) : a[j] = b[j]
    BY <2>2 DEF N
  <2>4. a[i] < b[i] \/ b[i] < a[i]
    BY <2>3
  <2> QED BY <1>1, <2>3, <2>4 DEF Less
<1>5. ~(Less(a, b) /\ Less(b, a))
  <2> SUFFICES ASSUME Less(a, b), Less(b, a) PROVE FALSE
    OBVIOUS
  <2>1. PICK i \in 1..n : a[i] < b[i] /\ \A k \in 1..(i - 1) : a[k] = b[k]
    BY <1>1 DEF Less
  <2>2. PICK j \in 1..n : b[j] < a[j] /\ \A k \in 1..(j - 1) : b[k] = a[k]
    BY <1>1 DEF Less
  <2>3. a[i] \in Int /\ b[i] \in Int /\ a[j] \in Int /\ b[j] \in Int
    OBVIOUS
  <2> QED BY <2>1, <2>2, <2>3
<1> QED BY <1>2, <1>3, <1>4, <1>5

\* A finite set with keys that order it strictly.
Sortable(S, key) ==
    /\ IsFiniteSet(S)
    /\ \A x \in S : ~Less(key[x], key[x])
    /\ \A x, y, z \in S : Less(key[x], key[y]) /\ Less(key[y], key[z]) => Less(key[x], key[z])
    /\ \A x, y \in S : x = y \/ Less(key[x], key[y]) \/ Less(key[y], key[x])

LEMMA KeysSort ==
  ASSUME NEW S, IsFiniteSet(S), NEW key, NEW n \in Nat, \A x \in S : key[x] \in [1..n -> Int],
         \A x, y \in S : key[x] = key[y] => x = y
  PROVE  Sortable(S, key)
BY LessIsStrict DEF Sortable

Before(S, key, x) == {y \in S : Less(key[y], key[x])}

\* What comes before an element determines its place.
LEMMA Ranks ==
  ASSUME NEW S, NEW key, Sortable(S, key)
  PROVE  /\ \A x \in S : /\ IsFiniteSet(Before(S, key, x))
                         /\ Cardinality(Before(S, key, x)) \in 0..(Cardinality(S) - 1)
         /\ \A x, y \in S : Less(key[x], key[y]) =>
              Cardinality(Before(S, key, x)) < Cardinality(Before(S, key, y))
         /\ \A i \in 1..Cardinality(S) : \E x \in S : Cardinality(Before(S, key, x)) = i - 1
<1> DEFINE B(x) == Before(S, key, x)
<1>1. IsFiniteSet(S) /\ Cardinality(S) \in Nat
  BY FS_CardinalityType DEF Sortable
<1>2. \A x \in S : B(x) \in SUBSET (S \ {x})
  BY DEF Before, Sortable
<1>3. \A x \in S : IsFiniteSet(S \ {x}) /\ Cardinality(S \ {x}) = Cardinality(S) - 1
  BY <1>1, FS_RemoveElement
<1>4. ASSUME NEW x \in S PROVE IsFiniteSet(B(x)) /\ Cardinality(B(x)) \in 0..(Cardinality(S) - 1)
  BY <1>1, <1>2, <1>3, FS_Subset, FS_CardinalityType
<1>5. ASSUME NEW x \in S, NEW y \in S, Less(key[x], key[y])
      PROVE  Cardinality(B(x)) < Cardinality(B(y))
  <2>1. x \in B(y) /\ B(x) \in SUBSET (B(y) \ {x})
    BY <1>5 DEF Before, Sortable
  <2>2. IsFiniteSet(B(y) \ {x}) /\ Cardinality(B(y) \ {x}) = Cardinality(B(y)) - 1
    BY <1>4, <2>1, FS_RemoveElement
  <2>3. Cardinality(B(x)) <= Cardinality(B(y) \ {x})
    BY <2>1, <2>2, FS_Subset
  <2>4. Cardinality(B(x)) \in Nat /\ Cardinality(B(y)) \in Nat
    BY <1>4
  <2> HIDE DEF B
  <2> QED BY <2>2, <2>3, <2>4
<1>6. \A i \in 1..Cardinality(S) : \E x \in S : Cardinality(B(x)) = i - 1
  <2> DEFINE T == 0..(Cardinality(S) - 1)
             f == [x \in S |-> Cardinality(B(x))]
  <2>1. f \in [S -> T]
    BY <1>4
  <2>2. \A x, y \in S : f[x] = f[y] => x = y
    BY <1>4, <1>5 DEF Sortable
  <2>3. IsFiniteSet(T) /\ Cardinality(T) = Cardinality(S)
    BY <1>1, FS_Interval
  <2> HIDE DEF f, T
  <2>4. f \in Injection(S, T)
    BY <2>1, <2>2 DEF Injection, IsInjective
  <2>5. f \in Surjection(S, T)
    BY <2>3, <2>4, FS_Injection
  <2>6. \A i \in T : \E x \in S : f[x] = i
    BY <2>5 DEF Surjection
  <2> QED BY <1>1, <2>6 DEF f, T
<1> QED BY <1>4, <1>5, <1>6

LEMMA SingletonSeq == ASSUME NEW x PROVE SetToSeq({x})[1] = x
<1>1. Cardinality({x}) = 1
  BY FS_Singleton
<1>2. [i \in 1..1 |-> x] \in [1..1 -> {x}] /\ IsInjective([i \in 1..1 |-> x])
  BY DEF IsInjective
<1>3. SetToSeq({x}) \in [1..1 -> {x}]
  BY <1>1, <1>2 DEF SetToSeq
<1> QED BY <1>3

\* Arrange enumerates a set by its keys.
LEMMA Arranged ==
  ASSUME NEW S, NEW key, Sortable(S, key)
  PROVE  /\ Cardinality(S) \in Nat
         /\ Arrange(S, key) \in [1..Cardinality(S) -> S]
         /\ \A i \in 1..Cardinality(S) : Cardinality(Before(S, key, Arrange(S, key)[i])) = i - 1
         /\ \A i, j \in 1..Cardinality(S) : i < j => Less(key[Arrange(S, key)[i]], key[Arrange(S, key)[j]])
         /\ \A x \in S : \E i \in 1..Cardinality(S) : Arrange(S, key)[i] = x
<1> DEFINE n == Cardinality(S)
           s == Arrange(S, key)
           After(x) == {y \in S : Less(key[x], key[y])}
           Place(i) == CHOOSE x \in S : Cardinality(Before(S, key, x)) < i /\ i <= Cardinality(S \ After(x))
<1>1. IsFiniteSet(S) /\ n \in Nat
  BY FS_CardinalityType DEF Sortable
<1>2. \A x \in S : Cardinality(Before(S, key, x)) \in Nat
  BY Ranks, <1>1
<1>3. ASSUME NEW x \in S PROVE Cardinality(S \ After(x)) = Cardinality(Before(S, key, x)) + 1
  <2>1. S \ After(x) = Before(S, key, x) \cup {x} /\ x \notin Before(S, key, x)
    BY DEF Before, Sortable
  <2> QED BY <2>1, Ranks, FS_AddElement
<1>4. ASSUME NEW i \in 1..n
      PROVE  /\ s[i] \in S
             /\ Cardinality(Before(S, key, s[i])) = i - 1
  <2>1. PICK x \in S : Cardinality(Before(S, key, x)) = i - 1
    BY Ranks
  <2>2. \A y \in S : Cardinality(Before(S, key, y)) < i /\ i <= Cardinality(S \ After(y)) => y = x
    BY <1>2, <1>3, <2>1, Ranks DEF Sortable
  <2>3. Place(i) = x
    <3>1. Cardinality(Before(S, key, x)) < i /\ i <= Cardinality(S \ After(x))
      BY <1>3, <2>1
    <3> HIDE DEF After
    <3> QED BY <2>2, <3>1
  <2>4. {y \in S : key[y] = key[x]} = {x}
    BY DEF Sortable
  <2>5. s[i] = SetToSeq({y \in S : key[y] = key[x]})[i - Cardinality(Before(S, key, x))]
    BY <2>3 DEF Arrange, Before
  <2>6. s[i] = SetToSeq({x})[1]
    BY <2>1, <2>4, <2>5
  <2> QED BY <2>1, <2>6, SingletonSeq
<1>5. s \in [1..n -> S]
  <2>1. DOMAIN s = 1..n /\ s = [i \in 1..n |-> s[i]]
    BY DEF Arrange
  <2> HIDE DEF s, n
  <2> QED BY <1>4, <2>1
<1>6. ASSUME NEW i \in 1..n, NEW j \in 1..n, i < j PROVE Less(key[s[i]], key[s[j]])
  <2> HIDE DEF s, n
  <2> QED BY <1>1, <1>4, <1>6, Ranks DEF Sortable
<1>7. ASSUME NEW x \in S PROVE \E i \in 1..n : s[i] = x
  <2> DEFINE i == Cardinality(Before(S, key, x)) + 1
  <2>1. i \in 1..n
    BY <1>1, Ranks
  <2>2. s[i] \in S /\ Cardinality(Before(S, key, s[i])) = Cardinality(Before(S, key, x))
    <3> HIDE DEF s
    <3> QED BY <1>2, <1>4, <2>1
  <2>3. s[i] = x
    <3> HIDE DEF s, i
    <3> QED BY <1>2, <2>2, Ranks DEF Sortable
  <2> QED BY <2>1, <2>3
<1> QED BY <1>1, <1>4, <1>5, <1>6, <1>7

\* It is the only ascending enumeration.
LEMMA ArrangeIs ==
  ASSUME NEW S, NEW key, Sortable(S, key), NEW n \in Nat, NEW t \in [1..n -> S],
         \A i, j \in 1..n : i < j => Less(key[t[i]], key[t[j]]),
         \A x \in S : \E i \in 1..n : t[i] = x
  PROVE  n = Cardinality(S) /\ t = Arrange(S, key)
<1>1. \A i, j \in 1..n : t[i] = t[j] => i = j
  BY DEF Sortable
<1>2. Cardinality(S) = n
  <2>1. t \in Bijection(1..n, S)
    BY <1>1 DEF Bijection, Injection, Surjection, IsInjective
  <2> QED BY <2>1, FS_CountingElements DEF ExistsBijection
<1>3. ASSUME NEW i \in 1..n PROVE Cardinality(Before(S, key, t[i])) = i - 1
  <2> DEFINE b == [j \in 1..(i - 1) |-> t[j]]
  <2>1. ASSUME NEW x \in Before(S, key, t[i]) PROVE \E j \in 1..(i - 1) : t[j] = x
    BY <2>1 DEF Before, Sortable
  <2>2. b \in [1..(i - 1) -> Before(S, key, t[i])]
    BY DEF Before
  <2>3. b \in Bijection(1..(i - 1), Before(S, key, t[i]))
    BY <1>1, <2>1, <2>2 DEF Bijection, Injection, Surjection, IsInjective
  <2>4. i - 1 \in Nat
    OBVIOUS
  <2> HIDE DEF b
  <2> QED BY <2>3, <2>4, FS_CountingElements DEF ExistsBijection
<1> DEFINE s == Arrange(S, key)
<1>6. s \in [1..n -> S] /\ \A i \in 1..n : Cardinality(Before(S, key, s[i])) = i - 1
  <2>1. /\ s \in [1..Cardinality(S) -> S]
        /\ \A i \in 1..Cardinality(S) : Cardinality(Before(S, key, s[i])) = i - 1
    BY Arranged
  <2> QED BY <1>2, <2>1
<1> HIDE DEF s
<1>4. ASSUME NEW i \in 1..n PROVE t[i] = s[i]
  <2>1. s[i] \in S /\ Cardinality(Before(S, key, s[i])) = i - 1
    BY <1>6
  <2>2. t[i] \in S /\ Cardinality(Before(S, key, t[i])) = i - 1
    BY <1>3
  <2> QED BY <2>1, <2>2, Ranks DEF Sortable
<1> QED BY <1>2, <1>4, <1>6 DEF s
-----------------------------------------------------------------------------
(* What the accumulator knows of the records read so far (S), as long as   *)
(* it has noted no issue.                                                  *)

Fields ==
    {"channels", "messages", "revisions", "observations", "sources", "originals", "lastOrder",
     "lastRevision", "lastMedia", "lastObserved", "file", "line", "records", "channelRows",
     "revisionRows", "mediaRows", "provenanceRows", "visible", "hidden", "issues"}

ChannelsKnown(a, S) ==
    /\ a.channels = {c.chat : c \in OfType(S, "channel")}
    /\ a.channelRows = Cardinality(OfType(S, "channel"))

MessagesKnown(a, S) ==
    /\ \A x \in OfType(S, "message") :
         /\ x.chat \in a.channels
         /\ MessageKey(x) \in DOMAIN a.messages /\ a.messages[MessageKey(x)] = x.current
    /\ \A k \in DOMAIN a.messages : \E x \in OfType(S, "message") : MessageKey(x) = k
    /\ a.visible = Cardinality({x \in OfType(S, "message") : ~x.hidden})
    /\ a.hidden = Cardinality({x \in OfType(S, "message") : x.hidden})

\* What a.revisions says of a revision.
Summary(x, n) == [content |-> x.content, text |-> x.text, entities |-> x.entities, media |-> n]

RevisionsOf(S, k) == {x \in OfType(S, "revision") : MessageKey(x) = k}
MediaOf(S, k) == {x \in OfType(S, "revision-media") : RevisionKey(x) = k}
ObservedOf(S, k) == {x \in OfType(S, "provenance-media") : ProvenanceKey(x) = k}

RevisionsKnown(a, S) ==
    /\ \A x \in OfType(S, "revision") :
         /\ RevisionKey(x) \in DOMAIN a.revisions
         /\ a.revisions[RevisionKey(x)] = Summary(x, Cardinality(MediaOf(S, RevisionKey(x))))
         /\ MessageKey(x) \in DOMAIN a.messages /\ x.fits
         /\ MessageKey(x) \in DOMAIN a.lastRevision /\ x.rev \in 1..a.lastRevision[MessageKey(x)]
    /\ \A k \in DOMAIN a.revisions : \E x \in OfType(S, "revision") : RevisionKey(x) = k
    /\ \A k \in DOMAIN a.lastRevision : a.lastRevision[k] = Cardinality(RevisionsOf(S, k))
    /\ a.revisionRows = Cardinality(OfType(S, "revision"))

AttachedKnown(a, S) ==
    /\ \A x \in OfType(S, "revision-media") :
         /\ RevisionKey(x) \in DOMAIN a.revisions /\ x.located
         /\ RevisionKey(x) \in DOMAIN a.lastMedia /\ x.pos \in 0..a.lastMedia[RevisionKey(x)]
    /\ \A k \in DOMAIN a.lastMedia : a.lastMedia[k] = Cardinality(MediaOf(S, k)) - 1
    /\ a.mediaRows = Cardinality(OfType(S, "revision-media"))

HeldHashes(a) == {h \in DOMAIN a.originals : a.originals[h].is[4]}
References(a) == [h \in HeldHashes(a) |-> a.originals[h].references]

OriginalsKnown(a, m, S) ==
    /\ \A x \in Originals(S) :
         /\ x.original[1] \in DOMAIN a.originals
         /\ a.originals[x.original[1]].is = x.original
         /\ x.original[4] => x.available /\ m.media
    /\ \A h \in DOMAIN a.originals :
         /\ a.originals[h] \in [is : Hashes \X Nat \X Int \X BOOLEAN, references : Nat]
         /\ \E x \in Originals(S) : x.original[1] = h
    /\ IsFiniteSet(DOMAIN a.originals)
    /\ SumFunctionOnSet(References(a), HeldHashes(a)) = Cardinality(Included(S))

Referring(a, m, x) ==
    /\ m.provenance
    /\ MessageKey(x) \in DOMAIN a.messages
    /\ x.rev # 0 => RevisionKey(x) \in DOMAIN a.revisions

ObservationsKnown(a, m, S) ==
    /\ \A x \in OfType(S, "provenance-observation") : Referring(a, m, x)
    /\ a.observations = {ProvenanceKey(x) : x \in OfType(S, "provenance-observation")}
    /\ a.sources = {Identity(x.source) : x \in OfType(S, "provenance-observation")}
    /\ \A x, y \in OfType(S, "provenance-observation") : Identity(x.source) = Identity(y.source) => x = y

ObservedKnown(a, m, S) ==
    /\ \A x \in OfType(S, "provenance-media") :
         /\ Referring(a, m, x) /\ ProvenanceKey(x) \in a.observations /\ x.located
         /\ ProvenanceKey(x) \in DOMAIN a.lastObserved /\ x.pos \in 0..a.lastObserved[ProvenanceKey(x)]
    /\ \A k \in DOMAIN a.lastObserved : a.lastObserved[k] = Cardinality(ObservedOf(S, k)) - 1
    /\ a.provenanceRows = Cardinality(OfType(S, "provenance-observation"))
                          + Cardinality(OfType(S, "provenance-media"))

Known(a, m, S) ==
    /\ DOMAIN a = Fields
    /\ S \in SUBSET Records /\ IsFiniteSet(S)
    /\ ChannelsKnown(a, S) /\ MessagesKnown(a, S) /\ RevisionsKnown(a, S) /\ AttachedKnown(a, S)
    /\ OriginalsKnown(a, m, S) /\ ObservationsKnown(a, m, S) /\ ObservedKnown(a, m, S)

LEMMA NoneOfThem == ASSUME NEW c, NEW i PROVE When(c, i) = {} <=> ~c
BY DEF When

LEMMA OneMore ==
  ASSUME NEW S, IsFiniteSet(S), NEW r \in Records, r \notin S
  PROVE  /\ \A f : IsFiniteSet(OfType(S, f))
         /\ \A f : OfType(S \cup {r}, f) = IF r.type = f THEN OfType(S, f) \cup {r} ELSE OfType(S, f)
         /\ Cardinality(OfType(S \cup {r}, r.type)) = Cardinality(OfType(S, r.type)) + 1
         /\ \A f : Cardinality(OfType(S, f)) \in Nat
<1>1. \A f : IsFiniteSet(OfType(S, f))
  <2> TAKE f
  <2>1. OfType(S, f) \in SUBSET S
    BY DEF OfType
  <2> QED BY <2>1, FS_Subset
<1>2. \A f : OfType(S \cup {r}, f) = IF r.type = f THEN OfType(S, f) \cup {r} ELSE OfType(S, f)
  BY DEF OfType
<1>3. r \notin OfType(S, r.type)
  BY DEF OfType
<1> QED BY <1>1, <1>2, <1>3, FS_AddElement, FS_CardinalityType

LEMMA ChannelFields ==
  ASSUME NEW a, DOMAIN a = Fields, NEW r
  PROVE  LET b == AcceptChannel(a, r) IN
         /\ DOMAIN b = Fields
         /\ b.channels = a.channels \cup {r.chat} /\ b.channelRows = a.channelRows + 1
         /\ b.issues = {} => r.chat \notin a.channels /\ a.issues = {}
         /\ \A f \in Fields \ {"channels", "channelRows", "issues"} : b[f] = a[f]
BY NoneOfThem DEF AcceptChannel, Fields

LEMMA MessageFields ==
  ASSUME NEW a, DOMAIN a = Fields, NEW r
  PROVE  LET b == AcceptMessage(a, r) IN
         /\ DOMAIN b = Fields
         /\ b.messages = Put(a.messages, MessageKey(r), r.current)
         /\ b.visible = a.visible + (IF r.hidden THEN 0 ELSE 1)
         /\ b.hidden = a.hidden + (IF r.hidden THEN 1 ELSE 0)
         /\ b.issues = {} => r.chat \in a.channels /\ MessageKey(r) \notin DOMAIN a.messages /\ a.issues = {}
         /\ \A f \in Fields \ {"messages", "visible", "hidden", "issues"} : b[f] = a[f]
BY NoneOfThem DEF AcceptMessage, Fields

LEMMA RevisionFields ==
  ASSUME NEW a, DOMAIN a = Fields, NEW r
  PROVE  LET b == AcceptRevision(a, r) IN
         /\ DOMAIN b = Fields
         /\ b.lastRevision = Put(a.lastRevision, MessageKey(r), r.rev)
         /\ b.revisionRows = a.revisionRows + 1
         /\ b.revisions = Put(a.revisions, RevisionKey(r), Summary(r, 0))
         /\ b.issues = {} => /\ MessageKey(r) \in DOMAIN a.messages
                             /\ r.rev = Get(a.lastRevision, MessageKey(r), 0) + 1
                             /\ RevisionKey(r) \notin DOMAIN a.revisions
                             /\ r.fits /\ a.issues = {}
         /\ \A f \in Fields \ {"lastRevision", "revisionRows", "revisions", "issues"} : b[f] = a[f]
BY NoneOfThem DEF AcceptRevision, Fields, Summary

\* The part of a reference to media that is not about its original.
Attach(a, r) ==
    LET key == RevisionKey(r) IN
    [a EXCEPT
      !.lastMedia = Put(@, key, r.pos),
      !.revisions = CountMedium(@, key),
      !.mediaRows = @ + 1,
      !.issues = @ \cup When(key \notin DOMAIN a.revisions, "dangling_revision_media")
                   \cup When(r.pos # Get(a.lastMedia, key, -1) + 1, "media_position_invalid")
                   \cup When(~r.located, "media_source_locator_invalid")]

LEMMA AttachFields ==
  ASSUME NEW a, DOMAIN a = Fields, NEW r
  PROVE  LET b == Attach(a, r) IN
         /\ DOMAIN b = Fields
         /\ b.lastMedia = Put(a.lastMedia, RevisionKey(r), r.pos)
         /\ b.mediaRows = a.mediaRows + 1
         /\ b.revisions = CountMedium(a.revisions, RevisionKey(r))
         /\ b.issues = {} => /\ RevisionKey(r) \in DOMAIN a.revisions
                             /\ r.pos = Get(a.lastMedia, RevisionKey(r), -1) + 1
                             /\ r.located /\ a.issues = {}
         /\ \A f \in Fields \ {"lastMedia", "mediaRows", "revisions", "issues"} : b[f] = a[f]
<1> DEFINE b == Attach(a, r)
<1>1. DOMAIN b = Fields
  BY DEF Attach, Fields
<1>2. b.lastMedia = Put(a.lastMedia, RevisionKey(r), r.pos) /\ b.mediaRows = a.mediaRows + 1
  BY DEF Attach, Fields
<1>3. b.revisions = CountMedium(a.revisions, RevisionKey(r))
  BY DEF Attach, Fields
<1>4. b.issues = {} => /\ RevisionKey(r) \in DOMAIN a.revisions
                       /\ r.pos = Get(a.lastMedia, RevisionKey(r), -1) + 1
                       /\ r.located /\ a.issues = {}
  BY NoneOfThem DEF Attach, Fields
<1>5. \A f \in Fields \ {"lastMedia", "mediaRows", "revisions", "issues"} : b[f] = a[f]
  BY DEF Attach, Fields
<1> QED BY <1>1, <1>2, <1>3, <1>4, <1>5

KnownOriginal(a, o) == Get(a.originals, o[1], [is |-> o, references |-> 0])
Referred(known) == [known EXCEPT !.references = @ + 1]

LEMMA OriginalFields ==
  ASSUME NEW a, DOMAIN a = Fields, NEW r, NEW m
  PROVE  LET b == NoteOriginal(a, r, m)
             known == KnownOriginal(a, r.original) IN
         /\ DOMAIN b = Fields
         /\ b.originals = Put(a.originals, r.original[1], Referred(known))
         /\ b.issues = {} => /\ r.original[4] => r.available /\ m.media
                             /\ known.is = r.original /\ a.issues = {}
         /\ \A f \in Fields \ {"originals", "issues"} : b[f] = a[f]
<1> DEFINE b == NoteOriginal(a, r, m)
           known == KnownOriginal(a, r.original)
<1>1. b = [a EXCEPT
            !.originals = Put(@, r.original[1], Referred(known)),
            !.issues = @ \cup When(r.original[4] /\ ~r.available, "included_media_not_available")
                         \cup When(r.original[4] /\ ~m.media, "disabled_media_contains_blob")
                         \cup When(known.is # r.original, "blob_identity_conflict")]
  BY DEF NoteOriginal, KnownOriginal, Referred
<1> HIDE DEF b, known
<1>2. DOMAIN b = Fields /\ \A f \in Fields \ {"originals", "issues"} : b[f] = a[f]
  BY <1>1 DEF Fields
<1>3. b.originals = Put(a.originals, r.original[1], Referred(known))
  BY <1>1 DEF Fields
<1>4. b.issues = {} => /\ r.original[4] => r.available /\ m.media
                       /\ known.is = r.original /\ a.issues = {}
  BY <1>1, NoneOfThem DEF Fields
<1> QED BY <1>2, <1>3, <1>4 DEF b, known

\* The two together.
LEMMA MediaFields ==
  ASSUME NEW a, DOMAIN a = Fields, NEW r, NEW m
  PROVE  LET b == AcceptRevisionMedia(a, r, m)
             known == KnownOriginal(a, r.original) IN
         /\ DOMAIN b = Fields
         /\ b.lastMedia = Put(a.lastMedia, RevisionKey(r), r.pos)
         /\ b.mediaRows = a.mediaRows + 1
         /\ b.revisions = CountMedium(a.revisions, RevisionKey(r))
         /\ b.originals = IF r.original = <<>> THEN a.originals
                          ELSE Put(a.originals, r.original[1], Referred(known))
         /\ b.issues = {} => /\ RevisionKey(r) \in DOMAIN a.revisions
                             /\ r.pos = Get(a.lastMedia, RevisionKey(r), -1) + 1
                             /\ r.located /\ a.issues = {}
                             /\ r.original # <<>> => /\ r.original[4] => r.available /\ m.media
                                                     /\ known.is = r.original
         /\ \A f \in Fields \ {"lastMedia", "mediaRows", "revisions", "originals", "issues"} : b[f] = a[f]
<1> DEFINE b == AcceptRevisionMedia(a, r, m)
           c == Attach(a, r)
           known == KnownOriginal(a, r.original)
<1>1. b = IF r.original = <<>> THEN c ELSE NoteOriginal(c, r, m)
  BY DEF AcceptRevisionMedia, Attach
<1>2. /\ DOMAIN c = Fields
      /\ c.lastMedia = Put(a.lastMedia, RevisionKey(r), r.pos)
      /\ c.mediaRows = a.mediaRows + 1
      /\ c.revisions = CountMedium(a.revisions, RevisionKey(r))
      /\ c.issues = {} => /\ RevisionKey(r) \in DOMAIN a.revisions
                          /\ r.pos = Get(a.lastMedia, RevisionKey(r), -1) + 1
                          /\ r.located /\ a.issues = {}
      /\ \A f \in Fields \ {"lastMedia", "mediaRows", "revisions", "issues"} : c[f] = a[f]
  BY AttachFields
<1> HIDE DEF c
<1>3. KnownOriginal(c, r.original) = known
  BY <1>2 DEF KnownOriginal, Fields
<1> HIDE DEF b, known
<1>4. CASE r.original = <<>>
  BY <1>1, <1>2, <1>4 DEF Fields, b, known
<1>5. CASE r.original # <<>>
  <2>1. /\ DOMAIN b = Fields
        /\ b.originals = Put(c.originals, r.original[1], Referred(known))
        /\ b.issues = {} => /\ r.original[4] => r.available /\ m.media
                            /\ known.is = r.original /\ c.issues = {}
        /\ \A f \in Fields \ {"originals", "issues"} : b[f] = c[f]
    BY <1>1, <1>2, <1>3, <1>5, OriginalFields
  <2> QED BY <1>2, <1>5, <2>1 DEF Fields, b, known
<1> QED BY <1>4, <1>5

LEMMA ReferenceIsSound ==
  ASSUME NEW a, NEW r, NEW m, ReferenceIssues(a, r, m) = {} PROVE Referring(a, m, r)
BY NoneOfThem DEF ReferenceIssues, Referring

LEMMA ObservationFields ==
  ASSUME NEW a, DOMAIN a = Fields, NEW r, NEW m
  PROVE  LET b == AcceptObservation(a, r, m) IN
         /\ DOMAIN b = Fields
         /\ b.observations = a.observations \cup {ProvenanceKey(r)}
         /\ b.sources = a.sources \cup {Identity(r.source)}
         /\ b.provenanceRows = a.provenanceRows + 1
         /\ b.issues = {} => /\ Referring(a, m, r)
                             /\ Identity(r.source) \notin a.sources /\ a.issues = {}
         /\ \A f \in Fields \ {"observations", "sources", "provenanceRows", "issues"} : b[f] = a[f]
BY NoneOfThem, ReferenceIsSound DEF AcceptObservation, Fields

LEMMA ObservedFields ==
  ASSUME NEW a, DOMAIN a = Fields, NEW r, NEW m
  PROVE  LET b == AcceptObserved(a, r, m)
             key == ProvenanceKey(r) IN
         /\ DOMAIN b = Fields
         /\ b.lastObserved = Put(a.lastObserved, key, r.pos)
         /\ b.provenanceRows = a.provenanceRows + 1
         /\ b.issues = {} => /\ Referring(a, m, r) /\ key \in a.observations
                             /\ r.pos = Get(a.lastObserved, key, -1) + 1
                             /\ r.located /\ a.issues = {}
         /\ \A f \in Fields \ {"lastObserved", "provenanceRows", "issues"} : b[f] = a[f]
BY NoneOfThem, ReferenceIsSound DEF AcceptObserved, Fields

\* What a record of one family does to what is known of the others: nothing, unless the
\* fields that tell of them change.
LEMMA OtherFamilies ==
  ASSUME NEW S, NEW r, NEW f, OfType(S \cup {r}, f) = IF r.type = f THEN OfType(S, f) \cup {r} ELSE OfType(S, f),
         r.type # f
  PROVE  OfType(S \cup {r}, f) = OfType(S, f)
OBVIOUS

LEMMA SameChannels ==
  ASSUME NEW a, NEW b, NEW S, NEW T, ChannelsKnown(a, S), OfType(T, "channel") = OfType(S, "channel"),
         b.channels = a.channels, b.channelRows = a.channelRows
  PROVE  ChannelsKnown(b, T)
BY DEF ChannelsKnown

LEMMA SameMessages ==
  ASSUME NEW a, NEW b, NEW S, NEW T, MessagesKnown(a, S), OfType(T, "message") = OfType(S, "message"),
         a.channels \subseteq b.channels, b.messages = a.messages, b.visible = a.visible, b.hidden = a.hidden
  PROVE  MessagesKnown(b, T)
BY DEF MessagesKnown

LEMMA SameRevisions ==
  ASSUME NEW a, NEW b, NEW S, NEW T, RevisionsKnown(a, S), OfType(T, "revision") = OfType(S, "revision"),
         OfType(T, "revision-media") = OfType(S, "revision-media"),
         DOMAIN a.messages \subseteq DOMAIN b.messages, b.revisions = a.revisions,
         b.lastRevision = a.lastRevision, b.revisionRows = a.revisionRows
  PROVE  RevisionsKnown(b, T)
BY DEF RevisionsKnown, RevisionsOf, MediaOf

LEMMA SameAttached ==
  ASSUME NEW a, NEW b, NEW S, NEW T, AttachedKnown(a, S),
         OfType(T, "revision-media") = OfType(S, "revision-media"),
         DOMAIN a.revisions \subseteq DOMAIN b.revisions, b.lastMedia = a.lastMedia, b.mediaRows = a.mediaRows
  PROVE  AttachedKnown(b, T)
BY DEF AttachedKnown, MediaOf

LEMMA SameOriginals ==
  ASSUME NEW a, NEW b, NEW m, NEW S, NEW T, OriginalsKnown(a, m, S), Originals(T) = Originals(S),
         b.originals = a.originals
  PROVE  OriginalsKnown(b, m, T)
BY DEF OriginalsKnown, Included, HeldHashes, References

LEMMA SameObservations ==
  ASSUME NEW a, NEW b, NEW m, NEW S, NEW T, ObservationsKnown(a, m, S),
         OfType(T, "provenance-observation") = OfType(S, "provenance-observation"),
         DOMAIN a.messages \subseteq DOMAIN b.messages, DOMAIN a.revisions \subseteq DOMAIN b.revisions,
         b.observations = a.observations, b.sources = a.sources
  PROVE  ObservationsKnown(b, m, T)
BY DEF ObservationsKnown, Referring

LEMMA SameObserved ==
  ASSUME NEW a, NEW b, NEW m, NEW S, NEW T, ObservedKnown(a, m, S),
         OfType(T, "provenance-media") = OfType(S, "provenance-media"),
         OfType(T, "provenance-observation") = OfType(S, "provenance-observation"),
         DOMAIN a.messages \subseteq DOMAIN b.messages, DOMAIN a.revisions \subseteq DOMAIN b.revisions,
         a.observations \subseteq b.observations, b.lastObserved = a.lastObserved,
         b.provenanceRows = a.provenanceRows
  PROVE  ObservedKnown(b, m, T)
BY DEF ObservedKnown, ObservedOf, Referring

LEMMA OriginalsOfMedia ==
  ASSUME NEW S, NEW T, OfType(T, "revision-media") = OfType(S, "revision-media")
  PROVE  Originals(T) = Originals(S)
BY DEF Originals

\* A record that is new to S.
New(S, r) == r \in Records /\ r \notin S

LEMMA Grown ==
  ASSUME NEW a, NEW m, NEW S, Known(a, m, S), NEW r, New(S, r)
  PROVE  /\ \A f : f # r.type => OfType(S \cup {r}, f) = OfType(S, f)
         /\ OfType(S \cup {r}, r.type) = OfType(S, r.type) \cup {r}
         /\ Cardinality(OfType(S \cup {r}, r.type)) = Cardinality(OfType(S, r.type)) + 1
         /\ S \cup {r} \in SUBSET Records /\ IsFiniteSet(S \cup {r})
         /\ \A f : IsFiniteSet(OfType(S, f)) /\ Cardinality(OfType(S, f)) \in Nat
<1>1. IsFiniteSet(S) /\ r \in Records /\ r \notin S /\ S \in SUBSET Records
  BY DEF Known, New
<1>2. IsFiniteSet(S \cup {r})
  BY <1>1, FS_AddElement
<1> QED BY <1>1, <1>2, OneMore

LEMMA ChannelIsKnown ==
  ASSUME NEW a, NEW m, NEW S, Known(a, m, S), NEW r, New(S, r), r.type = "channel",
         AcceptChannel(a, r).issues = {}
  PROVE  Known(AcceptChannel(a, r), m, S \cup {r})
<1> DEFINE b == AcceptChannel(a, r)
           T == S \cup {r}
<1>1. /\ DOMAIN b = Fields
      /\ b.channels = a.channels \cup {r.chat} /\ b.channelRows = a.channelRows + 1
      /\ \A f \in Fields \ {"channels", "channelRows", "issues"} : b[f] = a[f]
  BY ChannelFields DEF Known
<1>2. /\ \A f \in {"message", "revision", "revision-media", "provenance-observation", "provenance-media"} :
           OfType(T, f) = OfType(S, f)
      /\ OfType(T, "channel") = OfType(S, "channel") \cup {r}
      /\ Cardinality(OfType(T, "channel")) = Cardinality(OfType(S, "channel")) + 1
      /\ T \in SUBSET Records /\ IsFiniteSet(T)
  BY Grown
<1> HIDE DEF b, T
<1>3. ChannelsKnown(b, T)
  BY <1>1, <1>2 DEF Known, ChannelsKnown
<1>4. MessagesKnown(b, T)
  BY <1>1, <1>2, SameMessages DEF Known, Fields
<1>5. RevisionsKnown(b, T)
  BY <1>1, <1>2, SameRevisions DEF Known, Fields
<1>6. AttachedKnown(b, T)
  BY <1>1, <1>2, SameAttached DEF Known, Fields
<1>7. OriginalsKnown(b, m, T)
  BY <1>1, <1>2, SameOriginals, OriginalsOfMedia DEF Known, Fields
<1>8. ObservationsKnown(b, m, T)
  BY <1>1, <1>2, SameObservations DEF Known, Fields
<1>9. ObservedKnown(b, m, T)
  BY <1>1, <1>2, SameObserved DEF Known, Fields
<1> QED BY <1>1, <1>2, <1>3, <1>4, <1>5, <1>6, <1>7, <1>8, <1>9 DEF Known, b, T

LEMMA PutFields ==
  ASSUME NEW map, NEW key, NEW value
  PROVE  /\ DOMAIN Put(map, key, value) = DOMAIN map \cup {key}
         /\ Put(map, key, value)[key] = value
         /\ \A k \in DOMAIN map : k # key => Put(map, key, value)[k] = map[k]
BY DEF Put

LEMMA MessageIsKnown ==
  ASSUME NEW a, NEW m, NEW S, Known(a, m, S), NEW r, New(S, r), r.type = "message",
         AcceptMessage(a, r).issues = {}
  PROVE  Known(AcceptMessage(a, r), m, S \cup {r})
<1> DEFINE b == AcceptMessage(a, r)
           T == S \cup {r}
<1>1. /\ DOMAIN b = Fields
      /\ b.messages = Put(a.messages, MessageKey(r), r.current)
      /\ b.visible = a.visible + (IF r.hidden THEN 0 ELSE 1)
      /\ b.hidden = a.hidden + (IF r.hidden THEN 1 ELSE 0)
      /\ r.chat \in a.channels /\ MessageKey(r) \notin DOMAIN a.messages
      /\ \A f \in Fields \ {"messages", "visible", "hidden", "issues"} : b[f] = a[f]
  BY MessageFields DEF Known
<1>2. /\ \A f \in {"channel", "revision", "revision-media", "provenance-observation", "provenance-media"} :
           OfType(T, f) = OfType(S, f)
      /\ OfType(T, "message") = OfType(S, "message") \cup {r}
      /\ T \in SUBSET Records /\ IsFiniteSet(T) /\ IsFiniteSet(OfType(S, "message"))
  <2>1. /\ \A f : f # r.type => OfType(T, f) = OfType(S, f)
        /\ OfType(T, r.type) = OfType(S, r.type) \cup {r}
        /\ Cardinality(OfType(T, r.type)) = Cardinality(OfType(S, r.type)) + 1
        /\ T \in SUBSET Records /\ IsFiniteSet(T)
        /\ \A f : IsFiniteSet(OfType(S, f)) /\ Cardinality(OfType(S, f)) \in Nat
    BY Grown
  <2> QED BY <2>1
<1> HIDE DEF b
<1>3. DOMAIN b.messages = DOMAIN a.messages \cup {MessageKey(r)} /\ b.messages[MessageKey(r)] = r.current
      /\ \A k \in DOMAIN a.messages : b.messages[k] = a.messages[k]
  BY <1>1 DEF Put
<1>4. MessagesKnown(b, T)
  <2>1. r.hidden \in BOOLEAN /\ r \notin OfType(S, "message")
    BY DEF New, Records, OfType
  <2> DEFINE V == {x \in OfType(S, "message") : ~x.hidden}
             H == {x \in OfType(S, "message") : x.hidden}
  <2>2. V \in SUBSET OfType(S, "message") /\ H \in SUBSET OfType(S, "message") /\ r \notin V /\ r \notin H
    BY <2>1
  <2>3. IsFiniteSet(V) /\ IsFiniteSet(H)
    BY <1>2, <2>2, FS_Subset
  <2>4. /\ Cardinality(V \cup {r}) = Cardinality(V) + 1 /\ Cardinality(H \cup {r}) = Cardinality(H) + 1
        /\ Cardinality(V) \in Nat /\ Cardinality(H) \in Nat
    BY <2>2, <2>3, FS_AddElement, FS_CardinalityType
  <2>5. /\ {x \in OfType(T, "message") : ~x.hidden} = IF r.hidden THEN V ELSE V \cup {r}
        /\ {x \in OfType(T, "message") : x.hidden} = IF r.hidden THEN H \cup {r} ELSE H
    BY <1>2, <2>1
  <2>10. a.visible = Cardinality(V) /\ a.hidden = Cardinality(H)
    BY DEF Known, MessagesKnown
  <2> DEFINE VT == {x \in OfType(T, "message") : ~x.hidden}
             HT == {x \in OfType(T, "message") : x.hidden}
  <2>11. VT = (IF r.hidden THEN V ELSE V \cup {r}) /\ HT = (IF r.hidden THEN H \cup {r} ELSE H)
    BY <2>5
  <2> HIDE DEF V, H, VT, HT
  <2>12. b.visible = Cardinality(VT) /\ b.hidden = Cardinality(HT)
    <3>1. CASE r.hidden
      <4>1. b.visible = a.visible + 0 /\ b.hidden = a.hidden + 1
        BY <1>1, <3>1
      <4> QED BY <2>4, <2>10, <2>11, <3>1, <4>1
    <3>2. CASE ~r.hidden
      <4>1. b.visible = a.visible + 1 /\ b.hidden = a.hidden + 0
        BY <1>1, <3>2
      <4> QED BY <2>4, <2>10, <2>11, <3>2, <4>1
    <3> QED BY <3>1, <3>2
  <2>8. \A x \in OfType(T, "message") :
          /\ x.chat \in b.channels
          /\ MessageKey(x) \in DOMAIN b.messages /\ b.messages[MessageKey(x)] = x.current
    BY <1>1, <1>2, <1>3 DEF Known, MessagesKnown, Fields
  <2>9. \A k \in DOMAIN b.messages : \E x \in OfType(T, "message") : MessageKey(x) = k
    BY <1>2, <1>3 DEF Known, MessagesKnown
  <2> HIDE DEF T
  <2> QED BY <2>8, <2>9, <2>12 DEF MessagesKnown, VT, HT
<1> HIDE DEF T
<1>5. ChannelsKnown(b, T)
  BY <1>1, <1>2, SameChannels DEF Known, Fields
<1>6. RevisionsKnown(b, T)
  BY <1>1, <1>2, <1>3, SameRevisions DEF Known, Fields
<1>7. AttachedKnown(b, T)
  BY <1>1, <1>2, SameAttached DEF Known, Fields
<1>8. OriginalsKnown(b, m, T)
  BY <1>1, <1>2, SameOriginals, OriginalsOfMedia DEF Known, Fields
<1>9. ObservationsKnown(b, m, T)
  BY <1>1, <1>2, <1>3, SameObservations DEF Known, Fields
<1>10. ObservedKnown(b, m, T)
  BY <1>1, <1>2, <1>3, SameObserved DEF Known, Fields
<1> QED BY <1>1, <1>2, <1>4, <1>5, <1>6, <1>7, <1>8, <1>9, <1>10 DEF Known, b, T
LEMMA RevisionIsKnown ==
  ASSUME NEW a, NEW m, NEW S, Known(a, m, S), NEW r, New(S, r), r.type = "revision",
         AcceptRevision(a, r).issues = {}
  PROVE  Known(AcceptRevision(a, r), m, S \cup {r})
<1> DEFINE b == AcceptRevision(a, r)
           T == S \cup {r}
           k == MessageKey(r)
           key == RevisionKey(r)
<1>1. /\ DOMAIN b = Fields
      /\ b.lastRevision = Put(a.lastRevision, k, r.rev)
      /\ b.revisionRows = a.revisionRows + 1
      /\ b.revisions = Put(a.revisions, key, Summary(r, 0))
      /\ k \in DOMAIN a.messages /\ r.rev = Get(a.lastRevision, k, 0) + 1
      /\ key \notin DOMAIN a.revisions /\ r.fits
      /\ \A f \in Fields \ {"lastRevision", "revisionRows", "revisions", "issues"} : b[f] = a[f]
  BY RevisionFields DEF Known
<1>2. /\ \A f \in {"channel", "message", "revision-media", "provenance-observation", "provenance-media"} :
           OfType(T, f) = OfType(S, f)
      /\ OfType(T, "revision") = OfType(S, "revision") \cup {r}
      /\ Cardinality(OfType(T, "revision")) = Cardinality(OfType(S, "revision")) + 1
      /\ T \in SUBSET Records /\ IsFiniteSet(T) /\ IsFiniteSet(OfType(S, "revision"))
  <2>1. /\ \A f : f # r.type => OfType(T, f) = OfType(S, f)
        /\ OfType(T, r.type) = OfType(S, r.type) \cup {r}
        /\ Cardinality(OfType(T, r.type)) = Cardinality(OfType(S, r.type)) + 1
        /\ T \in SUBSET Records /\ IsFiniteSet(T)
        /\ \A f : IsFiniteSet(OfType(S, f)) /\ Cardinality(OfType(S, f)) \in Nat
    BY Grown
  <2> QED BY <2>1
<1>3. r \notin OfType(S, "revision")
  BY DEF New, OfType
<1> HIDE DEF b, T
<1>4. /\ \A q : IsFiniteSet(RevisionsOf(S, q)) /\ Cardinality(RevisionsOf(S, q)) \in Nat
      /\ \A q : q # k => RevisionsOf(T, q) = RevisionsOf(S, q)
      /\ Cardinality(RevisionsOf(T, k)) = Cardinality(RevisionsOf(S, k)) + 1
  <2>1. ASSUME NEW q PROVE IsFiniteSet(RevisionsOf(S, q)) /\ Cardinality(RevisionsOf(S, q)) \in Nat
    <3>1. RevisionsOf(S, q) \in SUBSET OfType(S, "revision")
      BY DEF RevisionsOf
    <3> QED BY <1>2, <3>1, FS_Subset, FS_CardinalityType
  <2>2. \A q : q # k => RevisionsOf(T, q) = RevisionsOf(S, q)
    BY <1>2 DEF RevisionsOf
  <2>3. RevisionsOf(T, k) = RevisionsOf(S, k) \cup {r} /\ r \notin RevisionsOf(S, k)
    BY <1>2, <1>3 DEF RevisionsOf
  <2> QED BY <2>1, <2>2, <2>3, FS_AddElement
<1>5. Get(a.lastRevision, k, 0) = Cardinality(RevisionsOf(S, k))
  <2>1. CASE k \in DOMAIN a.lastRevision
    BY <2>1 DEF Get, Known, RevisionsKnown
  <2>2. CASE k \notin DOMAIN a.lastRevision
    <3>1. RevisionsOf(S, k) = {}
      BY <2>2 DEF RevisionsOf, Known, RevisionsKnown
    <3> QED BY <2>2, <3>1, FS_EmptySet DEF Get
  <2> QED BY <2>1, <2>2
<1>6. (\A q : MediaOf(T, q) = MediaOf(S, q)) /\ Cardinality(MediaOf(T, key)) = 0
  <2>1. \A q : MediaOf(T, q) = MediaOf(S, q)
    BY <1>2 DEF MediaOf
  <2>2. MediaOf(S, key) = {}
    BY <1>1 DEF MediaOf, Known, AttachedKnown
  <2> QED BY <2>1, <2>2, FS_EmptySet
<1>7. /\ DOMAIN b.lastRevision = DOMAIN a.lastRevision \cup {k} /\ b.lastRevision[k] = r.rev
      /\ \A q \in DOMAIN a.lastRevision : q # k => b.lastRevision[q] = a.lastRevision[q]
      /\ DOMAIN b.revisions = DOMAIN a.revisions \cup {key} /\ b.revisions[key] = Summary(r, 0)
      /\ \A q \in DOMAIN a.revisions : b.revisions[q] = a.revisions[q]
  BY <1>1 DEF Put
<1>8. b.messages = a.messages /\ b.channels = a.channels
  BY <1>1 DEF Fields
<1>9. RevisionsKnown(b, T)
  <2>1. ASSUME NEW x \in OfType(T, "revision")
        PROVE  /\ RevisionKey(x) \in DOMAIN b.revisions
               /\ b.revisions[RevisionKey(x)] = Summary(x, Cardinality(MediaOf(T, RevisionKey(x))))
    <3>1. CASE x = r
      BY <1>6, <1>7, <3>1
    <3>2. CASE x \in OfType(S, "revision")
      BY <1>6, <1>7, <3>2 DEF Known, RevisionsKnown
    <3> QED BY <1>2, <3>1, <3>2
  <2>2. ASSUME NEW x \in OfType(T, "revision")
        PROVE  /\ MessageKey(x) \in DOMAIN b.messages /\ x.fits
               /\ MessageKey(x) \in DOMAIN b.lastRevision /\ x.rev \in 1..b.lastRevision[MessageKey(x)]
    <3>1. CASE x = r
      BY <1>1, <1>4, <1>5, <1>7, <1>8, <3>1
    <3>2. CASE x \in OfType(S, "revision")
      <4>1. /\ MessageKey(x) \in DOMAIN a.messages /\ x.fits
            /\ MessageKey(x) \in DOMAIN a.lastRevision /\ x.rev \in 1..a.lastRevision[MessageKey(x)]
        BY <3>2 DEF Known, RevisionsKnown
      <4>2. CASE MessageKey(x) # k
        BY <1>7, <1>8, <4>1, <4>2
      <4>3. CASE MessageKey(x) = k
        <5>1. r.rev = a.lastRevision[k] + 1 /\ a.lastRevision[k] \in Nat
          BY <1>1, <1>4, <1>5, <4>1, <4>3 DEF Get
        <5> QED BY <1>7, <1>8, <4>1, <4>3, <5>1
      <4> QED BY <4>2, <4>3
    <3> QED BY <1>2, <3>1, <3>2
  <2>3. \A q \in DOMAIN b.revisions : \E x \in OfType(T, "revision") : RevisionKey(x) = q
    BY <1>2, <1>7 DEF Known, RevisionsKnown
  <2>4. ASSUME NEW q \in DOMAIN b.lastRevision
        PROVE  b.lastRevision[q] = Cardinality(RevisionsOf(T, q))
    <3>1. CASE q = k
      BY <1>1, <1>4, <1>5, <1>7, <3>1
    <3>2. CASE q # k
      BY <1>4, <1>7, <3>2 DEF Known, RevisionsKnown
    <3> QED BY <3>1, <3>2
  <2>5. b.revisionRows = Cardinality(OfType(T, "revision"))
    BY <1>1, <1>2 DEF Known, RevisionsKnown
  <2> QED BY <2>1, <2>2, <2>3, <2>4, <2>5 DEF RevisionsKnown
<1>10. ChannelsKnown(b, T) /\ MessagesKnown(b, T)
  BY <1>1, <1>2, SameChannels, SameMessages DEF Known, Fields
<1>11. AttachedKnown(b, T)
  BY <1>1, <1>2, <1>7, SameAttached DEF Known, Fields
<1>12. OriginalsKnown(b, m, T)
  BY <1>1, <1>2, SameOriginals, OriginalsOfMedia DEF Known, Fields
<1>13. ObservationsKnown(b, m, T)
  BY <1>1, <1>2, <1>7, SameObservations DEF Known, Fields
<1>14. ObservedKnown(b, m, T)
  BY <1>1, <1>2, <1>7, SameObserved DEF Known, Fields
<1> QED BY <1>1, <1>2, <1>9, <1>10, <1>11, <1>12, <1>13, <1>14 DEF Known, b, T

LEMMA MediumIsCounted ==
  ASSUME NEW revisions, NEW key \in DOMAIN revisions, NEW x, NEW n, revisions[key] = Summary(x, n)
  PROVE  /\ DOMAIN CountMedium(revisions, key) = DOMAIN revisions
         /\ CountMedium(revisions, key)[key] = Summary(x, n + 1)
         /\ \A q \in DOMAIN revisions : q # key => CountMedium(revisions, key)[q] = revisions[q]
<1>1. CountMedium(revisions, key) = [revisions EXCEPT ![key].media = @ + 1]
  BY DEF CountMedium
<1>2. [Summary(x, n) EXCEPT !.media = @ + 1] = Summary(x, n + 1)
  BY DEF Summary
<1>3. CountMedium(revisions, key) = [revisions EXCEPT ![key] = [Summary(x, n) EXCEPT !.media = @ + 1]]
  BY <1>1
<1> QED BY <1>2, <1>3

\* The sum of references, and the originals, with one more reference.
LEMMA OriginalIsKnown ==
  ASSUME NEW a, NEW b, NEW m, NEW S, NEW r, NEW T, OriginalsKnown(a, m, S),
         IsFiniteSet(OfType(S, "revision-media")),
         r \notin S, T = S \cup {r}, r.type = "revision-media", r.original \in OriginalsOf,
         b.originals = IF r.original = <<>> THEN a.originals
                       ELSE Put(a.originals, r.original[1],
                                Referred(KnownOriginal(a, r.original))),
         r.original # <<>> => /\ r.original[4] => r.available /\ m.media
                              /\ KnownOriginal(a, r.original).is = r.original
  PROVE  OriginalsKnown(b, m, T)
<1>1. CASE r.original = <<>>
  <2>1. Originals(T) = Originals(S) /\ b.originals = a.originals
    BY <1>1 DEF Originals, OfType
  <2> QED BY <2>1, SameOriginals
<1>2. CASE r.original # <<>>
  <2> DEFINE o == r.original
             h == o[1]
             is == Hashes \X Nat \X Int \X BOOLEAN
             known == KnownOriginal(a, o)
  <2>1. o \in is
    BY <1>2 DEF OriginalsOf
  <2>2. /\ o[4] => r.available /\ m.media
        /\ known.is = o
        /\ b.originals = Put(a.originals, h, Referred(known))
    BY <1>2
  <2>3. Originals(T) = Originals(S) \cup {r} /\ r \notin Originals(S)
    BY <1>2 DEF Originals, OfType
  <2>4. known \in [is : is, references : Nat] /\ (h \notin DOMAIN a.originals => known.references = 0)
        /\ (h \in DOMAIN a.originals => a.originals[h] = known)
    <3>1. CASE h \in DOMAIN a.originals
      BY <3>1 DEF KnownOriginal, Get, OriginalsKnown
    <3>2. CASE h \notin DOMAIN a.originals
      BY <2>1, <3>2 DEF KnownOriginal, Get
    <3> QED BY <3>1, <3>2
  <2> DEFINE n == known.references
  <2>5. known = [is |-> o, references |-> n] /\ n \in Nat
    BY <2>2, <2>4
  <2>6. Referred(known) = [is |-> o, references |-> n + 1]
    BY <2>5 DEF Referred
  <2> HIDE DEF known, n, is
  <2>7. /\ DOMAIN b.originals = DOMAIN a.originals \cup {h}
        /\ b.originals[h] = [is |-> o, references |-> n + 1]
        /\ \A g \in DOMAIN a.originals : g # h => b.originals[g] = a.originals[g]
        /\ h \in DOMAIN a.originals => a.originals[h] = [is |-> o, references |-> n]
        /\ h \notin DOMAIN a.originals => n = 0
    BY <2>2, <2>4, <2>5, <2>6 DEF Put, n
  <2>8. IsFiniteSet(DOMAIN a.originals)
    BY DEF OriginalsKnown
  <2> HIDE DEF h, o
  <2>9. \A x \in Originals(T) :
          /\ x.original[1] \in DOMAIN b.originals
          /\ b.originals[x.original[1]].is = x.original
          /\ x.original[4] => x.available /\ m.media
    <3> TAKE x \in Originals(T)
    <3>1. CASE x = r
      BY <2>2, <2>7, <3>1 DEF h, o
    <3>2. CASE x \in Originals(S)
      <4>1. /\ x.original[1] \in DOMAIN a.originals
            /\ a.originals[x.original[1]].is = x.original
            /\ x.original[4] => x.available /\ m.media
        BY <3>2 DEF OriginalsKnown
      <4> QED BY <2>7, <4>1
    <3> QED BY <2>3, <3>1, <3>2
  <2>10. \A g \in DOMAIN b.originals :
          /\ b.originals[g] \in [is : is, references : Nat]
          /\ \E x \in Originals(T) : x.original[1] = g
    <3> TAKE g \in DOMAIN b.originals
    <3>1. CASE g = h
      <4>1. b.originals[g] \in [is : is, references : Nat]
        BY <2>1, <2>5, <2>7, <3>1 DEF o
      <4> QED BY <2>3, <3>1, <4>1 DEF h, o
    <3>2. CASE g # h
      BY <2>3, <2>7, <3>2 DEF OriginalsKnown, is
    <3> QED BY <3>1, <3>2
  <2>11. IsFiniteSet(DOMAIN b.originals)
    BY <2>7, <2>8, FS_AddElement
  <2>12. SumFunctionOnSet(References(b), HeldHashes(b)) = Cardinality(Included(T))
    <3>1. Included(T) = (IF o[4] THEN Included(S) \cup {r} ELSE Included(S)) /\ r \notin Included(S)
      BY <2>3 DEF Included, o
    <3>2. IsFiniteSet(Included(S))
      <4>1. Included(S) \in SUBSET OfType(S, "revision-media")
        BY DEF Included, Originals
      <4> QED BY <4>1, FS_Subset
    <3>3. Cardinality(Included(T)) = Cardinality(Included(S)) + (IF o[4] THEN 1 ELSE 0)
          /\ Cardinality(Included(S)) \in Nat
      <4>1. Cardinality(Included(S)) \in Nat /\ Cardinality(Included(S) \cup {r}) = Cardinality(Included(S)) + 1
        BY <3>1, <3>2, FS_AddElement, FS_CardinalityType
      <4>2. CASE o[4]
        BY <3>1, <4>1, <4>2
      <4>3. CASE ~o[4]
        BY <3>1, <4>1, <4>3
      <4> QED BY <4>2, <4>3
    <3>4. SumFunctionOnSet(References(a), HeldHashes(a)) = Cardinality(Included(S))
      BY DEF OriginalsKnown
    <3>5. HeldHashes(b) = IF o[4] THEN HeldHashes(a) \cup {h} ELSE HeldHashes(a)
      BY <2>7 DEF HeldHashes
    <3>6. /\ \A g \in HeldHashes(a) : References(a)[g] = a.originals[g].references
          /\ \A g \in HeldHashes(b) : References(b)[g] = b.originals[g].references
      BY DEF References
    <3>7. h \in HeldHashes(a) => o[4]
      BY <2>7 DEF HeldHashes
    <3>8. IsFiniteSet(HeldHashes(a)) /\ HeldHashes(a) \in SUBSET DOMAIN a.originals
      <4>1. HeldHashes(a) \in SUBSET DOMAIN a.originals
        BY DEF HeldHashes
      <4> QED BY <2>8, <4>1, FS_Subset
    <3>9. \A g \in HeldHashes(a) : References(a)[g] \in Nat
      BY <3>6, <3>8 DEF OriginalsKnown
    <3>10. CASE ~o[4]
      <4>1. HeldHashes(b) = HeldHashes(a) /\ h \notin HeldHashes(a)
        BY <3>5, <3>7, <3>8, <3>10
      <4>2. \A g \in HeldHashes(a) : References(a)[g] = References(b)[g]
        BY <2>7, <3>6, <3>8, <4>1
      <4>3. SumFunctionOnSet(References(a), HeldHashes(a)) = SumFunctionOnSet(References(b), HeldHashes(a))
        BY <3>8, <4>2, SumsAgree
      <4> QED BY <3>3, <3>4, <3>10, <4>1, <4>3
    <3>11. CASE o[4] /\ h \in DOMAIN a.originals
      <4>1. h \in HeldHashes(a)
        BY <2>7, <3>11 DEF HeldHashes
      <4>2. HeldHashes(b) = HeldHashes(a)
        BY <3>5, <3>11, <4>1
      <4>3. /\ \A g \in HeldHashes(a) \ {h} : References(a)[g] = References(b)[g]
            /\ References(a)[h] = n /\ References(b)[h] = n + 1
        BY <2>7, <3>6, <3>8, <4>1, <4>2
      <4>4. \A g \in HeldHashes(a) : References(a)[g] \in Int /\ References(b)[g] \in Int
        BY <2>5, <3>9, <4>3
      <4>5. SumFunctionOnSet(References(b), HeldHashes(a)) =
              SumFunctionOnSet(References(a), HeldHashes(a)) - References(a)[h] + References(b)[h]
        <5> DEFINE F == References(a)
                   G == References(b)
                   U == HeldHashes(a)
        <5>1. /\ IsFiniteSet(U) /\ h \in U /\ \A g \in U \ {h} : F[g] = G[g]
              /\ \A g \in U : F[g] \in Int /\ G[g] \in Int
          BY <3>8, <4>1, <4>3, <4>4
        <5> HIDE DEF F, G, U
        <5>2. SumFunctionOnSet(G, U) = SumFunctionOnSet(F, U) - F[h] + G[h]
          BY <5>1, SumExcept
        <5> QED BY <5>2 DEF F, G, U
      <4> QED BY <2>5, <3>3, <3>4, <3>11, <4>2, <4>3, <4>5
    <3>12. CASE o[4] /\ h \notin DOMAIN a.originals
      <4>1. h \notin HeldHashes(a) /\ HeldHashes(b) = HeldHashes(a) \cup {h}
        BY <3>5, <3>8, <3>12
      <4>2. /\ \A g \in HeldHashes(a) : References(a)[g] = References(b)[g]
            /\ References(b)[h] = 1
        BY <2>7, <3>6, <3>8, <3>12, <4>1
      <4>3. \A g \in HeldHashes(a) \cup {h} : References(b)[g] \in Int
        BY <3>9, <4>2
      <4>4. SumFunctionOnSet(References(b), HeldHashes(b)) =
              SumFunctionOnSet(References(b), HeldHashes(a)) + References(b)[h]
        <5> DEFINE G == References(b)
                   U == HeldHashes(a)
        <5>1. IsFiniteSet(U) /\ h \notin U /\ \A g \in U \union {h} : G[g] \in Int
          BY <3>8, <4>1, <4>3
        <5> HIDE DEF G, U
        <5>2. SumFunctionOnSet(G, U \union {h}) = SumFunctionOnSet(G, U) + G[h]
          BY <5>1, SumAdd
        <5> QED BY <4>1, <5>2 DEF G, U
      <4>5. SumFunctionOnSet(References(a), HeldHashes(a)) = SumFunctionOnSet(References(b), HeldHashes(a))
        BY <3>8, <4>2, SumsAgree
      <4> QED BY <3>3, <3>4, <3>12, <4>2, <4>4, <4>5
    <3> QED BY <3>10, <3>11, <3>12
  <2> QED BY <2>9, <2>10, <2>11, <2>12 DEF OriginalsKnown, is
<1> QED BY <1>1, <1>2

LEMMA MediaIsKnown ==
  ASSUME NEW a, NEW m, NEW S, Known(a, m, S), NEW r, New(S, r), r.type = "revision-media",
         AcceptRevisionMedia(a, r, m).issues = {}
  PROVE  Known(AcceptRevisionMedia(a, r, m), m, S \cup {r})
<1> DEFINE b == AcceptRevisionMedia(a, r, m)
           T == S \cup {r}
           key == RevisionKey(r)
<1>1. /\ DOMAIN b = Fields
      /\ b.lastMedia = Put(a.lastMedia, key, r.pos)
      /\ b.mediaRows = a.mediaRows + 1
      /\ b.revisions = CountMedium(a.revisions, key)
      /\ b.originals = IF r.original = <<>> THEN a.originals
                       ELSE Put(a.originals, r.original[1],
                                Referred(KnownOriginal(a, r.original)))
      /\ key \in DOMAIN a.revisions /\ r.pos = Get(a.lastMedia, key, -1) + 1 /\ r.located
      /\ r.original # <<>> => /\ r.original[4] => r.available /\ m.media
                              /\ KnownOriginal(a, r.original).is = r.original
      /\ \A f \in Fields \ {"lastMedia", "mediaRows", "revisions", "originals", "issues"} : b[f] = a[f]
  <2>1. DOMAIN a = Fields /\ b.issues = {}
    BY DEF Known
  <2> DEFINE known == KnownOriginal(a, r.original)
  <2>2. /\ DOMAIN b = Fields
        /\ b.lastMedia = Put(a.lastMedia, key, r.pos)
        /\ b.mediaRows = a.mediaRows + 1
        /\ b.revisions = CountMedium(a.revisions, key)
        /\ b.originals = IF r.original = <<>> THEN a.originals
                         ELSE Put(a.originals, r.original[1], Referred(known))
        /\ b.issues = {} => /\ key \in DOMAIN a.revisions
                            /\ r.pos = Get(a.lastMedia, key, -1) + 1
                            /\ r.located /\ a.issues = {}
                            /\ r.original # <<>> => /\ r.original[4] => r.available /\ m.media
                                                    /\ known.is = r.original
        /\ \A f \in Fields \ {"lastMedia", "mediaRows", "revisions", "originals", "issues"} : b[f] = a[f]
    BY <2>1, MediaFields
  <2> HIDE DEF b, T, key
  <2> QED BY <2>1, <2>2
<1>2. /\ \A f \in {"channel", "message", "revision", "provenance-observation", "provenance-media"} :
           OfType(T, f) = OfType(S, f)
      /\ OfType(T, "revision-media") = OfType(S, "revision-media") \cup {r}
      /\ Cardinality(OfType(T, "revision-media")) = Cardinality(OfType(S, "revision-media")) + 1
      /\ T \in SUBSET Records /\ IsFiniteSet(T) /\ IsFiniteSet(OfType(S, "revision-media"))
  <2>1. /\ \A f : f # r.type => OfType(T, f) = OfType(S, f)
        /\ OfType(T, r.type) = OfType(S, r.type) \cup {r}
        /\ Cardinality(OfType(T, r.type)) = Cardinality(OfType(S, r.type)) + 1
        /\ T \in SUBSET Records /\ IsFiniteSet(T)
        /\ \A f : IsFiniteSet(OfType(S, f)) /\ Cardinality(OfType(S, f)) \in Nat
    BY Grown
  <2> QED BY <2>1
<1>3. r \notin OfType(S, "revision-media") /\ r \notin S /\ r.original \in OriginalsOf
  BY DEF New, OfType, Records
<1>4. T = S \cup {r}
  OBVIOUS
<1>5. OriginalsKnown(b, m, T)
  <2> HIDE DEF b, T
  <2> QED BY <1>1, <1>2, <1>3, <1>4, OriginalIsKnown DEF Known
<1> HIDE DEF b, T
<1>6. /\ \A q : IsFiniteSet(MediaOf(S, q)) /\ Cardinality(MediaOf(S, q)) \in Nat
      /\ \A q : q # key => MediaOf(T, q) = MediaOf(S, q)
      /\ Cardinality(MediaOf(T, key)) = Cardinality(MediaOf(S, key)) + 1
  <2>1. ASSUME NEW q PROVE IsFiniteSet(MediaOf(S, q)) /\ Cardinality(MediaOf(S, q)) \in Nat
    <3>1. MediaOf(S, q) \in SUBSET OfType(S, "revision-media")
      BY DEF MediaOf
    <3> QED BY <1>2, <3>1, FS_Subset, FS_CardinalityType
  <2>2. \A q : q # key => MediaOf(T, q) = MediaOf(S, q)
    BY <1>2 DEF MediaOf
  <2>3. MediaOf(T, key) = MediaOf(S, key) \cup {r} /\ r \notin MediaOf(S, key)
    BY <1>2, <1>3 DEF MediaOf
  <2> QED BY <2>1, <2>2, <2>3, FS_AddElement
<1>7. Get(a.lastMedia, key, -1) = Cardinality(MediaOf(S, key)) - 1
  <2>1. CASE key \in DOMAIN a.lastMedia
    BY <2>1 DEF Get, Known, AttachedKnown
  <2>2. CASE key \notin DOMAIN a.lastMedia
    <3>1. MediaOf(S, key) = {}
      BY <2>2 DEF MediaOf, Known, AttachedKnown
    <3> QED BY <2>2, <3>1, FS_EmptySet DEF Get
  <2> QED BY <2>1, <2>2
<1>8. PICK y \in OfType(S, "revision") : RevisionKey(y) = key
  BY <1>1 DEF Known, RevisionsKnown
<1>9. a.revisions[key] = Summary(y, Cardinality(MediaOf(S, key)))
  BY <1>8 DEF Known, RevisionsKnown
<1>10. /\ DOMAIN b.revisions = DOMAIN a.revisions
       /\ b.revisions[key] = Summary(y, Cardinality(MediaOf(S, key)) + 1)
       /\ \A q \in DOMAIN a.revisions : q # key => b.revisions[q] = a.revisions[q]
  BY <1>1, <1>9, MediumIsCounted
<1>11. /\ DOMAIN b.lastMedia = DOMAIN a.lastMedia \cup {key} /\ b.lastMedia[key] = r.pos
       /\ \A q \in DOMAIN a.lastMedia : q # key => b.lastMedia[q] = a.lastMedia[q]
  BY <1>1 DEF Put
<1>12. b.messages = a.messages /\ b.lastRevision = a.lastRevision /\ b.revisionRows = a.revisionRows
  BY <1>1 DEF Fields
<1>13. RevisionsKnown(b, T)
  <2>1. ASSUME NEW x \in OfType(S, "revision")
        PROVE  b.revisions[RevisionKey(x)] = Summary(x, Cardinality(MediaOf(T, RevisionKey(x))))
    <3>1. /\ RevisionKey(x) \in DOMAIN a.revisions
          /\ a.revisions[RevisionKey(x)] = Summary(x, Cardinality(MediaOf(S, RevisionKey(x))))
      BY DEF Known, RevisionsKnown
    <3>2. CASE RevisionKey(x) = key
      <4>1. Summary(x, Cardinality(MediaOf(S, key)) + 1) = Summary(y, Cardinality(MediaOf(S, key)) + 1)
        BY <1>9, <3>1, <3>2 DEF Summary
      <4> QED BY <1>6, <1>10, <3>2, <4>1
    <3>3. CASE RevisionKey(x) # key
      BY <1>6, <1>10, <3>1, <3>3
    <3> QED BY <3>2, <3>3
  <2>2. \A q : RevisionsOf(T, q) = RevisionsOf(S, q)
    BY <1>2 DEF RevisionsOf
  <2> QED BY <1>2, <1>10, <1>12, <2>1, <2>2 DEF Known, RevisionsKnown
<1>14. AttachedKnown(b, T)
  <2>1. ASSUME NEW x \in OfType(T, "revision-media")
        PROVE  /\ RevisionKey(x) \in DOMAIN b.revisions /\ x.located
               /\ RevisionKey(x) \in DOMAIN b.lastMedia /\ x.pos \in 0..b.lastMedia[RevisionKey(x)]
    <3>1. CASE x = r
      BY <1>1, <1>6, <1>7, <1>10, <1>11, <3>1
    <3>2. CASE x \in OfType(S, "revision-media")
      <4>1. /\ RevisionKey(x) \in DOMAIN a.revisions /\ x.located
            /\ RevisionKey(x) \in DOMAIN a.lastMedia /\ x.pos \in 0..a.lastMedia[RevisionKey(x)]
        BY <3>2 DEF Known, AttachedKnown
      <4>2. CASE RevisionKey(x) # key
        BY <1>10, <1>11, <4>1, <4>2
      <4>3. CASE RevisionKey(x) = key
        <5>1. r.pos = a.lastMedia[key] + 1 /\ a.lastMedia[key] \in Int
          BY <1>1, <1>6, <1>7, <4>1, <4>3 DEF Get
        <5> QED BY <1>10, <1>11, <4>1, <4>3, <5>1
      <4> QED BY <4>2, <4>3
    <3> QED BY <1>2, <3>1, <3>2
  <2>2. ASSUME NEW q \in DOMAIN b.lastMedia
        PROVE  b.lastMedia[q] = Cardinality(MediaOf(T, q)) - 1
    <3>1. CASE q = key
      BY <1>1, <1>6, <1>7, <1>11, <3>1
    <3>2. CASE q # key
      BY <1>6, <1>11, <3>2 DEF Known, AttachedKnown
    <3> QED BY <3>1, <3>2
  <2>3. b.mediaRows = Cardinality(OfType(T, "revision-media"))
    BY <1>1, <1>2 DEF Known, AttachedKnown
  <2> QED BY <2>1, <2>2, <2>3 DEF AttachedKnown
<1>15. ChannelsKnown(b, T) /\ MessagesKnown(b, T)
  BY <1>1, <1>2, SameChannels, SameMessages DEF Known, Fields
<1>16. ObservationsKnown(b, m, T)
  BY <1>1, <1>2, <1>10, SameObservations DEF Known, Fields
<1>17. ObservedKnown(b, m, T)
  BY <1>1, <1>2, <1>10, SameObserved DEF Known, Fields
<1> QED BY <1>1, <1>2, <1>5, <1>13, <1>14, <1>15, <1>16, <1>17 DEF Known, b, T

LEMMA ObservationIsKnown ==
  ASSUME NEW a, NEW m, NEW S, Known(a, m, S), NEW r, New(S, r), r.type = "provenance-observation",
         AcceptObservation(a, r, m).issues = {}
  PROVE  Known(AcceptObservation(a, r, m), m, S \cup {r})
<1> DEFINE b == AcceptObservation(a, r, m)
           T == S \cup {r}
<1>1. /\ DOMAIN b = Fields
      /\ b.observations = a.observations \cup {ProvenanceKey(r)}
      /\ b.sources = a.sources \cup {Identity(r.source)}
      /\ b.provenanceRows = a.provenanceRows + 1
      /\ Referring(a, m, r) /\ Identity(r.source) \notin a.sources
      /\ \A f \in Fields \ {"observations", "sources", "provenanceRows", "issues"} : b[f] = a[f]
  BY ObservationFields DEF Known
<1>2. /\ \A f \in {"channel", "message", "revision", "revision-media", "provenance-media"} :
           OfType(T, f) = OfType(S, f)
      /\ OfType(T, "provenance-observation") = OfType(S, "provenance-observation") \cup {r}
      /\ Cardinality(OfType(T, "provenance-observation")) = Cardinality(OfType(S, "provenance-observation")) + 1
      /\ T \in SUBSET Records /\ IsFiniteSet(T) /\ \A f : Cardinality(OfType(S, f)) \in Nat
  <2>1. /\ \A f : f # r.type => OfType(T, f) = OfType(S, f)
        /\ OfType(T, r.type) = OfType(S, r.type) \cup {r}
        /\ Cardinality(OfType(T, r.type)) = Cardinality(OfType(S, r.type)) + 1
        /\ T \in SUBSET Records /\ IsFiniteSet(T)
        /\ \A f : IsFiniteSet(OfType(S, f)) /\ Cardinality(OfType(S, f)) \in Nat
    BY Grown
  <2> QED BY <2>1
<1> HIDE DEF b, T
<1>3. b.messages = a.messages /\ b.revisions = a.revisions /\ b.lastObserved = a.lastObserved
  BY <1>1 DEF Fields
<1>4. ObservationsKnown(b, m, T)
  <2>1. \A x \in OfType(T, "provenance-observation") : Referring(b, m, x)
    BY <1>1, <1>2, <1>3 DEF Known, ObservationsKnown, Referring
  <2>2. /\ b.observations = {ProvenanceKey(x) : x \in OfType(T, "provenance-observation")}
        /\ b.sources = {Identity(x.source) : x \in OfType(T, "provenance-observation")}
    BY <1>1, <1>2 DEF Known, ObservationsKnown
  <2>3. \A x, y \in OfType(T, "provenance-observation") : Identity(x.source) = Identity(y.source) => x = y
    BY <1>1, <1>2 DEF Known, ObservationsKnown
  <2> QED BY <2>1, <2>2, <2>3 DEF ObservationsKnown
<1>5. ObservedKnown(b, m, T)
  <2>1. b.provenanceRows = Cardinality(OfType(T, "provenance-observation"))
                           + Cardinality(OfType(T, "provenance-media"))
    <3>1. a.provenanceRows = Cardinality(OfType(S, "provenance-observation"))
                             + Cardinality(OfType(S, "provenance-media"))
      BY DEF Known, ObservedKnown
    <3> QED BY <1>1, <1>2, <3>1
  <2>2. \A q : ObservedOf(T, q) = ObservedOf(S, q)
    BY <1>2 DEF ObservedOf
  <2>3. \A x : Referring(a, m, x) => Referring(b, m, x)
    BY <1>3 DEF Referring
  <2> QED BY <1>1, <1>2, <1>3, <2>1, <2>2, <2>3 DEF Known, ObservedKnown
<1>6. ChannelsKnown(b, T) /\ MessagesKnown(b, T)
  BY <1>1, <1>2, SameChannels, SameMessages DEF Known, Fields
<1>7. RevisionsKnown(b, T) /\ AttachedKnown(b, T)
  BY <1>1, <1>2, SameRevisions, SameAttached DEF Known, Fields
<1>8. OriginalsKnown(b, m, T)
  BY <1>1, <1>2, SameOriginals, OriginalsOfMedia DEF Known, Fields
<1> QED BY <1>1, <1>2, <1>4, <1>5, <1>6, <1>7, <1>8 DEF Known, b, T

LEMMA ObservedIsKnown ==
  ASSUME NEW a, NEW m, NEW S, Known(a, m, S), NEW r, New(S, r), r.type = "provenance-media",
         AcceptObserved(a, r, m).issues = {}
  PROVE  Known(AcceptObserved(a, r, m), m, S \cup {r})
<1> DEFINE b == AcceptObserved(a, r, m)
           T == S \cup {r}
           key == ProvenanceKey(r)
<1>1. /\ DOMAIN b = Fields
      /\ b.lastObserved = Put(a.lastObserved, key, r.pos)
      /\ b.provenanceRows = a.provenanceRows + 1
      /\ Referring(a, m, r) /\ key \in a.observations
      /\ r.pos = Get(a.lastObserved, key, -1) + 1 /\ r.located
      /\ \A f \in Fields \ {"lastObserved", "provenanceRows", "issues"} : b[f] = a[f]
  BY ObservedFields DEF Known
<1>2. /\ \A f \in {"channel", "message", "revision", "revision-media", "provenance-observation"} :
           OfType(T, f) = OfType(S, f)
      /\ OfType(T, "provenance-media") = OfType(S, "provenance-media") \cup {r}
      /\ Cardinality(OfType(T, "provenance-media")) = Cardinality(OfType(S, "provenance-media")) + 1
      /\ T \in SUBSET Records /\ IsFiniteSet(T) /\ IsFiniteSet(OfType(S, "provenance-media"))
      /\ \A f : Cardinality(OfType(S, f)) \in Nat
  <2>1. /\ \A f : f # r.type => OfType(T, f) = OfType(S, f)
        /\ OfType(T, r.type) = OfType(S, r.type) \cup {r}
        /\ Cardinality(OfType(T, r.type)) = Cardinality(OfType(S, r.type)) + 1
        /\ T \in SUBSET Records /\ IsFiniteSet(T)
        /\ \A f : IsFiniteSet(OfType(S, f)) /\ Cardinality(OfType(S, f)) \in Nat
    BY Grown
  <2> QED BY <2>1
<1>3. r \notin OfType(S, "provenance-media")
  BY DEF New, OfType
<1> HIDE DEF b, T
<1>4. /\ \A q : IsFiniteSet(ObservedOf(S, q)) /\ Cardinality(ObservedOf(S, q)) \in Nat
      /\ \A q : q # key => ObservedOf(T, q) = ObservedOf(S, q)
      /\ Cardinality(ObservedOf(T, key)) = Cardinality(ObservedOf(S, key)) + 1
  <2>1. ASSUME NEW q PROVE IsFiniteSet(ObservedOf(S, q)) /\ Cardinality(ObservedOf(S, q)) \in Nat
    <3>1. ObservedOf(S, q) \in SUBSET OfType(S, "provenance-media")
      BY DEF ObservedOf
    <3> QED BY <1>2, <3>1, FS_Subset, FS_CardinalityType
  <2>2. \A q : q # key => ObservedOf(T, q) = ObservedOf(S, q)
    BY <1>2 DEF ObservedOf
  <2>3. ObservedOf(T, key) = ObservedOf(S, key) \cup {r} /\ r \notin ObservedOf(S, key)
    BY <1>2, <1>3 DEF ObservedOf
  <2> QED BY <2>1, <2>2, <2>3, FS_AddElement
<1>5. Get(a.lastObserved, key, -1) = Cardinality(ObservedOf(S, key)) - 1
  <2>1. CASE key \in DOMAIN a.lastObserved
    BY <2>1 DEF Get, Known, ObservedKnown
  <2>2. CASE key \notin DOMAIN a.lastObserved
    <3>1. ObservedOf(S, key) = {}
      BY <2>2 DEF ObservedOf, Known, ObservedKnown
    <3> QED BY <2>2, <3>1, FS_EmptySet DEF Get
  <2> QED BY <2>1, <2>2
<1>6. /\ DOMAIN b.lastObserved = DOMAIN a.lastObserved \cup {key} /\ b.lastObserved[key] = r.pos
      /\ \A q \in DOMAIN a.lastObserved : q # key => b.lastObserved[q] = a.lastObserved[q]
  BY <1>1 DEF Put
<1>7. /\ b.messages = a.messages /\ b.revisions = a.revisions /\ b.observations = a.observations
      /\ \A x : Referring(a, m, x) => Referring(b, m, x)
  BY <1>1 DEF Fields, Referring
<1>8. ObservedKnown(b, m, T)
  <2>1. ASSUME NEW x \in OfType(T, "provenance-media")
        PROVE  /\ Referring(b, m, x) /\ ProvenanceKey(x) \in b.observations /\ x.located
               /\ ProvenanceKey(x) \in DOMAIN b.lastObserved /\ x.pos \in 0..b.lastObserved[ProvenanceKey(x)]
    <3>1. CASE x = r
      <4>1. /\ Referring(b, m, x) /\ ProvenanceKey(x) \in b.observations /\ x.located
            /\ ProvenanceKey(x) \in DOMAIN b.lastObserved
        BY <1>1, <1>6, <1>7, <3>1
      <4>2. x.pos \in 0..b.lastObserved[ProvenanceKey(x)]
        BY <1>1, <1>4, <1>5, <1>6, <3>1
      <4> QED BY <4>1, <4>2
    <3>2. CASE x \in OfType(S, "provenance-media")
      <4>1. /\ Referring(a, m, x) /\ ProvenanceKey(x) \in a.observations /\ x.located
            /\ ProvenanceKey(x) \in DOMAIN a.lastObserved /\ x.pos \in 0..a.lastObserved[ProvenanceKey(x)]
        BY <3>2 DEF Known, ObservedKnown
      <4>2. CASE ProvenanceKey(x) # key
        BY <1>6, <1>7, <4>1, <4>2
      <4>3. CASE ProvenanceKey(x) = key
        <5>1. r.pos = a.lastObserved[key] + 1 /\ a.lastObserved[key] \in Int
          BY <1>1, <1>4, <1>5, <4>1, <4>3 DEF Get
        <5> QED BY <1>6, <1>7, <4>1, <4>3, <5>1
      <4> QED BY <4>2, <4>3
    <3> QED BY <1>2, <3>1, <3>2
  <2>2. ASSUME NEW q \in DOMAIN b.lastObserved
        PROVE  b.lastObserved[q] = Cardinality(ObservedOf(T, q)) - 1
    <3>1. CASE q = key
      BY <1>1, <1>4, <1>5, <1>6, <3>1
    <3>2. CASE q # key
      BY <1>4, <1>6, <3>2 DEF Known, ObservedKnown
    <3> QED BY <3>1, <3>2
  <2>3. b.provenanceRows = Cardinality(OfType(T, "provenance-observation"))
                           + Cardinality(OfType(T, "provenance-media"))
    <3>1. a.provenanceRows = Cardinality(OfType(S, "provenance-observation"))
                             + Cardinality(OfType(S, "provenance-media"))
      BY DEF Known, ObservedKnown
    <3> QED BY <1>1, <1>2, <3>1
  <2> QED BY <2>1, <2>2, <2>3 DEF ObservedKnown
<1>9. ChannelsKnown(b, T) /\ MessagesKnown(b, T)
  BY <1>1, <1>2, SameChannels, SameMessages DEF Known, Fields
<1>10. RevisionsKnown(b, T) /\ AttachedKnown(b, T)
  BY <1>1, <1>2, SameRevisions, SameAttached DEF Known, Fields
<1>11. OriginalsKnown(b, m, T) /\ ObservationsKnown(b, m, T)
  BY <1>1, <1>2, SameOriginals, SameObservations, OriginalsOfMedia DEF Known, Fields
<1> QED BY <1>1, <1>2, <1>8, <1>9, <1>10, <1>11 DEF Known, b, T

-----------------------------------------------------------------------------
(* Records come in the order of their keys, each shard's after the last.   *)

Width(f) ==
    CASE f = "channel" -> 1
      [] f = "message" -> 2
      [] f = "revision" -> 3
      [] f = "revision-media" -> 4
      [] f = "provenance-observation" -> 6
      [] f = "provenance-media" -> 7

LEMMA FamilyNames ==
  /\ Families = {"channel", "message", "revision", "revision-media",
                 "provenance-observation", "provenance-media"}
  /\ Len(FamilyOrder) = 6
  /\ \A i, j \in 1..6 : FamilyOrder[i] = FamilyOrder[j] => i = j
  /\ \A f \in Families : FamilyIndex(f) \in 1..6 /\ FamilyOrder[FamilyIndex(f)] = f
<1>1. Len(FamilyOrder) = 6 /\ DOMAIN FamilyOrder = 1..6
  BY DEF FamilyOrder
<1>2. \A i, j \in 1..6 : FamilyOrder[i] = FamilyOrder[j] => i = j
  BY DEF FamilyOrder
<1>3. Families = {FamilyOrder[i] : i \in 1..6}
  BY <1>1 DEF Families, ToSet
<1>4. Families = {"channel", "message", "revision", "revision-media",
                  "provenance-observation", "provenance-media"}
  BY <1>3 DEF FamilyOrder
<1>5. \A f \in Families : FamilyIndex(f) \in 1..6 /\ FamilyOrder[FamilyIndex(f)] = f
  <2> TAKE f \in Families
  <2>1. \E i \in DOMAIN FamilyOrder : FamilyOrder[i] = f
    BY <1>1, <1>3
  <2>2. FamilyIndex(f) \in DOMAIN FamilyOrder /\ FamilyOrder[FamilyIndex(f)] = f
    BY <2>1 DEF FamilyIndex
  <2> QED BY <1>1, <2>2
<1> QED BY <1>1, <1>2, <1>4, <1>5

LEMMA SequenceOf ==
  ASSUME NEW X, NEW n \in Nat, NEW s \in Seq(X), Len(s) = n PROVE s \in [1..n -> X] /\ DOMAIN s = 1..n
OBVIOUS

LEMMA OneLonger ==
  ASSUME NEW n \in Nat, NEW s \in [1..n -> Int], NEW e \in Int PROVE Append(s, e) \in [1..(n + 1) -> Int]
<1>1. s \in Seq(Int) /\ Len(s) = n
  OBVIOUS
<1>2. Append(s, e) \in Seq(Int) /\ Len(Append(s, e)) = n + 1
  BY <1>1
<1> HIDE <1>1
<1>3. n + 1 \in Nat
  OBVIOUS
<1> QED BY <1>2, <1>3, SequenceOf

LEMMA PartsAreNumbers ==
  ASSUME NEW x \in Records
  PROVE  x.type \in Families /\ Width(x.type) \in Nat /\ OrderParts(x) \in [1..Width(x.type) -> Int]
<1>1. CASE x.type = "channel"
  BY <1>1, FamilyNames DEF Records, OrderParts, Width
<1>2. CASE x.type = "message"
  BY <1>2, FamilyNames DEF Records, OrderParts, Width
<1>3. CASE x.type = "revision"
  BY <1>3, FamilyNames DEF Records, OrderParts, Width
<1>4. CASE x.type = "revision-media"
  BY <1>4, FamilyNames DEF Records, OrderParts, Width
<1>5. CASE x.type = "provenance-observation"
  BY <1>5, FamilyNames DEF Records, OrderParts, Width, ProvenanceKey, Sources
<1>6. CASE x.type = "provenance-media"
  <2>1. x.chat \in Int /\ x.msg \in Int /\ x.rev \in Int /\ x.pos \in Int /\ x.source \in Sources
    BY <1>6 DEF Records
  <2>2. ProvenanceKey(x) \in [1..6 -> Int]
    BY <2>1 DEF ProvenanceKey, Sources
  <2>3. Append(ProvenanceKey(x), x.pos) \in [1..(6 + 1) -> Int]
    BY <2>1, <2>2, OneLonger
  <2>4. OrderParts(x) = Append(ProvenanceKey(x), x.pos) /\ Width(x.type) = 6 + 1
    BY <1>6 DEF OrderParts, Width
  <2>5. OrderParts(x) \in [1..Width(x.type) -> Int]
    BY <2>3, <2>4
  <2>6. Width(x.type) \in Nat
    BY <2>4
  <2> QED BY <1>6, <2>5, <2>6, FamilyNames
<1> QED BY <1>1, <1>2, <1>3, <1>4, <1>5, <1>6 DEF Records

\* Keys of a family are ordered strictly.
LEMMA PartsOrder ==
  ASSUME NEW x \in Records, NEW y \in Records, NEW z \in Records, x.type = y.type, x.type = z.type
  PROVE  /\ ~Less(OrderParts(x), OrderParts(x))
         /\ Less(OrderParts(x), OrderParts(y)) /\ Less(OrderParts(y), OrderParts(z)) =>
              Less(OrderParts(x), OrderParts(z))
         /\ Less(OrderParts(x), OrderParts(y)) => ~Less(OrderParts(y), OrderParts(x))
         /\ OrderParts(x) = OrderParts(y) \/ Less(OrderParts(x), OrderParts(y)) \/ Less(OrderParts(y), OrderParts(x))
<1>1. /\ OrderParts(x) \in [1..Width(x.type) -> Int] /\ OrderParts(y) \in [1..Width(x.type) -> Int]
      /\ OrderParts(z) \in [1..Width(x.type) -> Int] /\ Width(x.type) \in Nat
  BY PartsAreNumbers
<1> QED BY <1>1, LessIsStrict

\* The last key of a family is the greatest; no two records of a family have one key.
InOrder(a, S) ==
    /\ \A x \in S : /\ x.type \in DOMAIN a.lastOrder
                    /\ \/ a.lastOrder[x.type] = OrderParts(x)
                       \/ Less(OrderParts(x), a.lastOrder[x.type])
                    /\ x.type = "message" => (x.hidden <=> x.changed)
    /\ \A f \in DOMAIN a.lastOrder : \E x \in OfType(S, f) : a.lastOrder[f] = OrderParts(x)
    /\ \A x, y \in S : x.type = y.type /\ OrderParts(x) = OrderParts(y) => x = y

RecordsKnown(a, m, S) == Known(a, m, S) /\ InOrder(a, S)

LEMMA KnownByFields ==
  ASSUME NEW a, NEW b, NEW m, NEW S, Known(a, m, S), DOMAIN b = Fields,
         \A f \in Fields \ {"lastOrder", "file", "line", "records", "issues"} : b[f] = a[f]
  PROVE  Known(b, m, S)
<1>1. ChannelsKnown(b, S) /\ MessagesKnown(b, S)
  BY SameChannels, SameMessages DEF Known, Fields
<1>2. RevisionsKnown(b, S) /\ AttachedKnown(b, S)
  BY SameRevisions, SameAttached DEF Known, Fields
<1>3. OriginalsKnown(b, m, S) /\ ObservationsKnown(b, m, S) /\ ObservedKnown(b, m, S)
  BY SameOriginals, SameObservations, SameObserved DEF Known, Fields
<1> QED BY <1>1, <1>2, <1>3 DEF Known

LEMMA OrderAfter ==
  ASSUME NEW a, NEW S \in SUBSET Records, InOrder(a, S), NEW r \in Records,
         r.type \in DOMAIN a.lastOrder => Less(a.lastOrder[r.type], OrderParts(r))
  PROVE  \A x \in OfType(S, r.type) : Less(OrderParts(x), OrderParts(r)) /\ ~Less(OrderParts(r), OrderParts(x))
<1> TAKE x \in OfType(S, r.type)
<1>1. x \in S /\ x \in Records /\ x.type = r.type
  BY DEF OfType
<1>2. r.type \in DOMAIN a.lastOrder
  BY <1>1 DEF InOrder
<1>3. PICK y \in OfType(S, r.type) : a.lastOrder[r.type] = OrderParts(y)
  BY <1>2 DEF InOrder
<1>4. y \in Records /\ y.type = r.type
  BY DEF OfType
<1>5. OrderParts(x) = OrderParts(y) \/ Less(OrderParts(x), OrderParts(y))
  BY <1>1, <1>3 DEF InOrder
<1>6. Less(OrderParts(x), OrderParts(r))
  <2>1. Less(OrderParts(y), OrderParts(r))
    BY <1>2, <1>3
  <2> QED BY <1>1, <1>4, <1>5, <2>1, PartsOrder
<1> QED BY <1>1, <1>6, PartsOrder

\* What a record that causes no issue does to the accumulator.
LEMMA Accepted ==
  ASSUME NEW a, NEW m, NEW S, RecordsKnown(a, m, S), NEW r, r \in Records \/ r.type = "none",
         m.files[a.file].family \in Families, Accept(a, m, r).issues = {}
  PROVE  LET b == Accept(a, m, r)
             shard == m.files[a.file] IN
         /\ r \in Records /\ r.type = shard.family
         /\ \A x \in OfType(S, r.type) : Less(OrderParts(x), OrderParts(r)) /\ ~Less(OrderParts(r), OrderParts(x))
         /\ b.file = IF a.line + 1 = shard.records THEN a.file + 1 ELSE a.file
         /\ b.line = IF a.line + 1 = shard.records THEN 0 ELSE a.line + 1
         /\ RecordsKnown(b, m, S \cup {r})
         /\ a.issues = {}
<1> DEFINE shard == m.files[a.file]
           last == a.line + 1 = shard.records
           ordered == IF r.type \in DOMAIN a.lastOrder
                      THEN Less(a.lastOrder[r.type], OrderParts(r)) ELSE TRUE
           p == [a EXCEPT !.records = @ + 1,
                          !.file = IF last THEN @ + 1 ELSE @,
                          !.line = IF last THEN 0 ELSE @ + 1]
           c == [p EXCEPT !.lastOrder = Put(@, r.type, OrderParts(r)),
                          !.issues = @ \cup When(~ordered, "record_order_or_identity_invalid")]
           b == Accept(a, m, r)
<1>1. DOMAIN a = Fields /\ S \in SUBSET Records /\ IsFiniteSet(S)
  BY DEF RecordsKnown, Known
<1>2. b = IF ~RecordValid(shard.family, r)
          THEN [p EXCEPT !.issues = @ \cup {"record_schema_invalid"}]
          ELSE CASE r.type = "channel" -> AcceptChannel(c, r)
                 [] r.type = "message" -> AcceptMessage(c, r)
                 [] r.type = "revision" -> AcceptRevision(c, r)
                 [] r.type = "revision-media" -> AcceptRevisionMedia(c, r, m)
                 [] r.type = "provenance-observation" -> AcceptObservation(c, r, m)
                 [] r.type = "provenance-media" -> AcceptObserved(c, r, m)
  BY DEF Accept
<1>3. DOMAIN p = Fields
  BY <1>1 DEF Fields
<1>4. /\ DOMAIN c = Fields
      /\ c.lastOrder = Put(a.lastOrder, r.type, OrderParts(r))
      /\ c.file = IF last THEN a.file + 1 ELSE a.file
      /\ c.line = IF last THEN 0 ELSE a.line + 1
      /\ c.issues = a.issues \cup When(~ordered, "record_order_or_identity_invalid")
      /\ \A f \in Fields \ {"lastOrder", "file", "line", "records", "issues"} : c[f] = a[f]
  <2>1. /\ p.lastOrder = a.lastOrder /\ p.issues = a.issues
        /\ p.file = IF last THEN a.file + 1 ELSE a.file
        /\ p.line = IF last THEN 0 ELSE a.line + 1
        /\ \A f \in Fields \ {"file", "line", "records"} : p[f] = a[f]
    BY <1>1 DEF Fields
  <2> HIDE DEF p, last, ordered
  <2> QED BY <1>3, <2>1 DEF Fields
<1>5. RecordValid(shard.family, r)
  <2> SUFFICES ASSUME ~RecordValid(shard.family, r) PROVE FALSE
    OBVIOUS
  <2>1. b = [p EXCEPT !.issues = @ \cup {"record_schema_invalid"}]
    BY <1>2
  <2> HIDE DEF p, b
  <2>2. "record_schema_invalid" \in b.issues
    BY <1>3, <2>1 DEF Fields
  <2> QED BY <2>2 DEF b
<1>6. r \in Records /\ r.type = shard.family /\ (r.type = "message" => (r.hidden <=> r.changed))
  BY <1>5, FamilyNames DEF RecordValid
<1> HIDE DEF p, c, b
<1>7. Known(c, m, S)
  BY <1>4, KnownByFields DEF RecordsKnown
<1>8. /\ New(S, r) => Known(b, m, S \cup {r})
      /\ b.lastOrder = c.lastOrder /\ b.file = c.file /\ b.line = c.line
      /\ c.issues = {}
  <2>0. b.issues = {}
    BY DEF b
  <2>1. CASE r.type = "channel"
    <3>1. b = AcceptChannel(c, r)
      BY <1>2, <1>5, <2>1
    <3>2. b.lastOrder = c.lastOrder /\ b.file = c.file /\ b.line = c.line /\ c.issues = {}
      <4>1. DOMAIN c = Fields
        BY <1>4
      <4>2. /\ AcceptChannel(c, r).issues = {} => c.issues = {}
            /\ \A f \in Fields \ {"channels", "channelRows", "issues"} : AcceptChannel(c, r)[f] = c[f]
        BY <4>1, ChannelFields
      <4> QED BY <2>0, <3>1, <4>2 DEF Fields
    <3> QED BY <1>7, <2>0, <2>1, <3>1, <3>2, ChannelIsKnown
  <2>2. CASE r.type = "message"
    <3>1. b = AcceptMessage(c, r)
      BY <1>2, <1>5, <2>2
    <3>2. b.lastOrder = c.lastOrder /\ b.file = c.file /\ b.line = c.line /\ c.issues = {}
      <4>1. DOMAIN c = Fields
        BY <1>4
      <4>2. /\ AcceptMessage(c, r).issues = {} => c.issues = {}
            /\ \A f \in Fields \ {"messages", "visible", "hidden", "issues"} : AcceptMessage(c, r)[f] = c[f]
        BY <4>1, MessageFields
      <4> QED BY <2>0, <3>1, <4>2 DEF Fields
    <3> QED BY <1>7, <2>0, <2>2, <3>1, <3>2, MessageIsKnown
  <2>3. CASE r.type = "revision"
    <3>1. b = AcceptRevision(c, r)
      BY <1>2, <1>5, <2>3
    <3>2. b.lastOrder = c.lastOrder /\ b.file = c.file /\ b.line = c.line /\ c.issues = {}
      <4>1. DOMAIN c = Fields
        BY <1>4
      <4>2. /\ AcceptRevision(c, r).issues = {} => c.issues = {}
            /\ \A f \in Fields \ {"lastRevision", "revisionRows", "revisions", "issues"} : AcceptRevision(c, r)[f] = c[f]
        BY <4>1, RevisionFields
      <4> QED BY <2>0, <3>1, <4>2 DEF Fields
    <3> QED BY <1>7, <2>0, <2>3, <3>1, <3>2, RevisionIsKnown
  <2>4. CASE r.type = "revision-media"
    <3>1. b = AcceptRevisionMedia(c, r, m)
      BY <1>2, <1>5, <2>4
    <3>2. b.lastOrder = c.lastOrder /\ b.file = c.file /\ b.line = c.line /\ c.issues = {}
      <4>1. DOMAIN c = Fields
        BY <1>4
      <4>2. /\ AcceptRevisionMedia(c, r, m).issues = {} => c.issues = {}
            /\ \A f \in Fields \ {"lastMedia", "mediaRows", "revisions", "originals", "issues"} : AcceptRevisionMedia(c, r, m)[f] = c[f]
        BY <4>1, MediaFields
      <4> QED BY <2>0, <3>1, <4>2 DEF Fields
    <3> QED BY <1>7, <2>0, <2>4, <3>1, <3>2, MediaIsKnown
  <2>5. CASE r.type = "provenance-observation"
    <3>1. b = AcceptObservation(c, r, m)
      BY <1>2, <1>5, <2>5
    <3> QED BY <1>4, <1>7, <2>0, <2>5, <3>1, ObservationFields, ObservationIsKnown DEF Fields
  <2>6. CASE r.type = "provenance-media"
    <3>1. b = AcceptObserved(c, r, m)
      BY <1>2, <1>5, <2>6
    <3> QED BY <1>4, <1>7, <2>0, <2>6, <3>1, ObservedFields, ObservedIsKnown DEF Fields
  <2> QED BY <1>6, <2>1, <2>2, <2>3, <2>4, <2>5, <2>6, FamilyNames
<1>9. ordered /\ a.issues = {}
  BY <1>4, <1>8, NoneOfThem
<1>10. \A x \in OfType(S, r.type) : Less(OrderParts(x), OrderParts(r)) /\ ~Less(OrderParts(r), OrderParts(x))
  BY <1>1, <1>6, <1>9, OrderAfter DEF RecordsKnown
<1>11. New(S, r)
  BY <1>6, <1>10, PartsOrder DEF New, OfType
<1>12. /\ DOMAIN b.lastOrder = DOMAIN a.lastOrder \cup {r.type} /\ b.lastOrder[r.type] = OrderParts(r)
       /\ \A f \in DOMAIN a.lastOrder : f # r.type => b.lastOrder[f] = a.lastOrder[f]
  BY <1>4, <1>8 DEF Put
<1>13. InOrder(b, S \cup {r})
  <2> DEFINE T == S \cup {r}
  <2>1. ASSUME NEW x \in T
        PROVE  /\ x.type \in DOMAIN b.lastOrder
               /\ b.lastOrder[x.type] = OrderParts(x) \/ Less(OrderParts(x), b.lastOrder[x.type])
               /\ x.type = "message" => (x.hidden <=> x.changed)
    <3>1. CASE x = r
      BY <1>6, <1>12, <3>1
    <3>2. CASE x \in S /\ x.type = r.type
      <4>1. x \in OfType(S, r.type)
        BY <3>2 DEF OfType
      <4> QED BY <1>10, <1>12, <3>2, <4>1 DEF RecordsKnown, InOrder
    <3>3. CASE x \in S /\ x.type # r.type
      BY <1>12, <3>3 DEF RecordsKnown, InOrder
    <3> QED BY <3>1, <3>2, <3>3
  <2>2. \A f \in DOMAIN b.lastOrder : \E x \in OfType(T, f) : b.lastOrder[f] = OrderParts(x)
    <3> TAKE f \in DOMAIN b.lastOrder
    <3>1. CASE f = r.type
      BY <1>12, <3>1 DEF OfType
    <3>2. CASE f # r.type
      <4>1. PICK x \in OfType(S, f) : a.lastOrder[f] = OrderParts(x)
        BY <1>12, <3>2 DEF RecordsKnown, InOrder
      <4>2. x \in OfType(T, f)
        BY DEF OfType
      <4> QED BY <1>12, <3>2, <4>1, <4>2
    <3> QED BY <3>1, <3>2
  <2>3. ASSUME NEW x \in T, NEW y \in T, x.type = y.type, OrderParts(x) = OrderParts(y) PROVE x = y
    <3>1. CASE x \in S /\ y \in S
      BY <2>3, <3>1 DEF RecordsKnown, InOrder
    <3>2. CASE x = r /\ y \in S
      <4>1. y \in OfType(S, r.type)
        BY <2>3, <3>2 DEF OfType
      <4> QED BY <1>10, <2>3, <3>2, <4>1
    <3>3. CASE y = r /\ x \in S
      <4>1. x \in OfType(S, r.type)
        BY <2>3, <3>3 DEF OfType
      <4> QED BY <1>10, <2>3, <3>3, <4>1
    <3> QED BY <3>1, <3>2, <3>3
  <2> QED BY <2>1, <2>2, <2>3 DEF InOrder
<1> QED BY <1>4, <1>6, <1>8, <1>9, <1>10, <1>11, <1>13 DEF RecordsKnown, b

-----------------------------------------------------------------------------
(* Places.  A place <<i, n>> is line n of the i-th entry after the         *)
(* checksum list of a container t.                                         *)

Line(t, d) == t[d[1] + 2].body.lines[d[2]]
PathAt(t, d) == t[d[1] + 2].path

Sizes(m) == [i \in DOMAIN m.files |-> m.files[i].records]

\* The records of family f in the shards before the k-th.
FilesBefore(m, f, k) == {i \in 1..(k - 1) : m.files[i].family = f}
First(m, f, k) == SumFunctionOnSet(Sizes(m), FilesBefore(m, f, k))

Rank(S, r) == Cardinality({x \in OfType(S, r.type) : Less(OrderParts(x), OrderParts(r))})

\* The records S stand at the places D of t as the manifest plans: those of the shards before
\* the current one, and the lines of that one up to a.line.
Placement(a, m, t, S, D) ==
    /\ a.file \in 1..(Len(m.files) + 1) /\ a.line \in Nat
    /\ IF a.file <= Len(m.files) THEN a.line < m.files[a.file].records ELSE a.line = 0
    /\ S = {Line(t, d) : d \in D}
    /\ \A d \in D : \E k \in 1..Len(m.files) :
         /\ PathAt(t, d) = m.files[k].path /\ d[2] \in 1..m.files[k].records
         /\ Line(t, d).type = m.files[k].family
         /\ Rank(S, Line(t, d)) = First(m, m.files[k].family, k) + d[2] - 1
    /\ \A k \in 1..Len(m.files) : \A n \in 1..m.files[k].records :
         k < a.file \/ (k = a.file /\ n <= a.line) => \E d \in D : d[2] = n /\ PathAt(t, d) = m.files[k].path
    /\ \A f \in Families :
         Cardinality(OfType(S, f)) =
           First(m, f, a.file)
           + (IF a.file <= Len(m.files) /\ m.files[a.file].family = f THEN a.line ELSE 0)

LEMMA ManifestFiles ==
  ASSUME NEW m, IsManifest(m), ManifestValid(m)
  PROVE  /\ Len(m.files) \in Nat /\ DOMAIN m.files = 1..Len(m.files)
         /\ \A k \in 1..Len(m.files) :
              /\ m.files[k] \in [path : Paths, family : Families, shard : Nat, records : Nat, bytes : Nat]
              /\ m.files[k].records \in 1..MaxShardRecords /\ m.files[k].records \in Nat
              /\ m.files[k].bytes > 0
              /\ m.files[k].path = ShardPath(m.files[k].family, m.files[k].shard)
<1>1. m.files \in Seq([path : Paths, family : Families, shard : Nat, records : Nat, bytes : Nat])
  BY DEF IsManifest
<1>2. DOMAIN m.files = 1..Len(m.files) /\ Len(m.files) \in Nat
  BY <1>1
<1>3. \A i \in DOMAIN m.files :
        /\ m.files[i].records \in 1..MaxShardRecords
        /\ m.files[i].bytes > 0
        /\ m.files[i].path = ShardPath(m.files[i].family, m.files[i].shard)
  BY DEF ManifestValid
<1>4. ASSUME NEW k \in 1..Len(m.files)
      PROVE  /\ m.files[k] \in [path : Paths, family : Families, shard : Nat, records : Nat, bytes : Nat]
             /\ m.files[k].records \in Nat
  <2> DEFINE F == [path : Paths, family : Families, shard : Nat, records : Nat, bytes : Nat]
  <2>1. m.files \in Seq(F)
    BY <1>1
  <2> HIDE DEF F
  <2>2. m.files[k] \in F
    BY <2>1
  <2>3. m.files[k].records \in Nat
    BY <2>2 DEF F
  <2> QED BY <2>2, <2>3 DEF F
<1> QED BY <1>2, <1>3, <1>4

LEMMA FirstOfNext ==
  ASSUME NEW m, IsManifest(m), ManifestValid(m), NEW f, NEW k \in 1..(Len(m.files) + 1)
  PROVE  /\ First(m, f, k) \in Nat /\ First(m, f, 1) = 0
         /\ k <= Len(m.files) =>
              First(m, f, k + 1) = First(m, f, k) + (IF m.files[k].family = f THEN m.files[k].records ELSE 0)
<1>0. Len(m.files) \in Nat /\ DOMAIN m.files = 1..Len(m.files) /\ \A i \in 1..Len(m.files) : m.files[i].records \in Nat
  BY ManifestFiles
<1>1. IsFiniteSet(FilesBefore(m, f, k)) /\ \A i \in FilesBefore(m, f, k) : Sizes(m)[i] \in Nat
  <2>1. FilesBefore(m, f, k) \in SUBSET (1..(k - 1)) /\ IsFiniteSet(1..(k - 1))
    BY FS_Interval DEF FilesBefore
  <2>2. \A i \in 1..(k - 1) : Sizes(m)[i] \in Nat
    BY <1>0 DEF Sizes
  <2> QED BY <2>1, <2>2, FS_Subset
<1>2. First(m, f, k) \in Nat
  BY <1>1, SumIsNat DEF First
<1>3. First(m, f, 1) = 0
  <2>1. FilesBefore(m, f, 1) = {}
    BY DEF FilesBefore
  <2> QED BY <2>1, SumOfNone DEF First
<1>4. ASSUME k <= Len(m.files)
      PROVE  First(m, f, k + 1) = First(m, f, k) + (IF m.files[k].family = f THEN m.files[k].records ELSE 0)
  <2>0. k \in 1..Len(m.files) /\ 1..((k + 1) - 1) = 1..(k - 1) \cup {k} /\ k \notin 1..(k - 1)
    BY <1>0, <1>4
  <2>1. CASE m.files[k].family = f
    <3>1. FilesBefore(m, f, k + 1) = FilesBefore(m, f, k) \cup {k} /\ k \notin FilesBefore(m, f, k)
      BY <2>0, <2>1 DEF FilesBefore
    <3>2. Sizes(m)[k] = m.files[k].records /\ Sizes(m)[k] \in Nat
      BY <1>0, <2>0 DEF Sizes
    <3>3. SumFunctionOnSet(Sizes(m), FilesBefore(m, f, k) \cup {k}) =
            SumFunctionOnSet(Sizes(m), FilesBefore(m, f, k)) + Sizes(m)[k]
      <4> DEFINE F == Sizes(m)
                 U == FilesBefore(m, f, k)
      <4>1. IsFiniteSet(U) /\ k \notin U /\ \A i \in U \union {k} : F[i] \in Int
        BY <1>1, <3>1, <3>2
      <4> HIDE DEF F, U
      <4>2. SumFunctionOnSet(F, U \union {k}) = SumFunctionOnSet(F, U) + F[k]
        BY <4>1, SumAdd
      <4> QED BY <4>2 DEF F, U
    <3> QED BY <2>1, <3>1, <3>2, <3>3 DEF First
  <2>2. CASE m.files[k].family # f
    <3>1. FilesBefore(m, f, k + 1) = FilesBefore(m, f, k)
      BY <2>0, <2>2 DEF FilesBefore
    <3> QED BY <1>2, <2>2, <3>1 DEF First
  <2> QED BY <2>1, <2>2
<1> QED BY <1>2, <1>3, <1>4

LEMMA NothingPlaced ==
  ASSUME NEW m, IsManifest(m), ManifestValid(m), NEW t
  PROVE  Placement(EmptyAcc, m, t, {}, {}) /\ RecordsKnown(EmptyAcc, m, {}) /\ EmptyAcc.issues = {}
<1>1. EmptyAcc.file = 1 /\ EmptyAcc.line = 0 /\ EmptyAcc.issues = {}
  BY DEF EmptyAcc
<1>2. \A f : OfType({}, f) = {} /\ Cardinality(OfType({}, f)) = 0
  <2>1. \A f : OfType({}, f) = {}
    BY DEF OfType
  <2> QED BY <2>1, FS_EmptySet
<1>3. Placement(EmptyAcc, m, t, {}, {})
  <2>1. Len(m.files) \in Nat /\ \A k \in 1..Len(m.files) : m.files[k].records \in 1..MaxShardRecords
    BY ManifestFiles
  <2>2. \A f \in Families : First(m, f, 1) = 0
    <3>1. 1 \in 1..(Len(m.files) + 1)
      BY <2>1
    <3> QED BY <3>1, FirstOfNext
  <2>3. MaxShardRecords \in Nat
    BY FormatAssumption
  <2>4. IF 1 <= Len(m.files) THEN 0 < m.files[1].records ELSE TRUE
    BY <2>1, <2>3
  <2>5. \A k \in 1..Len(m.files) : \A n \in 1..m.files[k].records : ~(k < 1 \/ (k = 1 /\ n <= 0))
    BY <2>1, <2>3
  <2> QED BY <1>1, <1>2, <2>1, <2>2, <2>4, <2>5 DEF Placement
<1>4. Known(EmptyAcc, m, {})
  <2>1. DOMAIN EmptyAcc = Fields
    BY DEF EmptyAcc, Fields
  <2>2. IsFiniteSet({}) /\ Cardinality({}) = 0
    BY FS_EmptySet
  <2>3. DOMAIN EmptyAcc.messages = {} /\ DOMAIN EmptyAcc.revisions = {} /\ DOMAIN EmptyAcc.originals = {}
        /\ DOMAIN EmptyAcc.lastRevision = {} /\ DOMAIN EmptyAcc.lastMedia = {}
        /\ DOMAIN EmptyAcc.lastObserved = {}
    BY DEF EmptyAcc
  <2>4. ChannelsKnown(EmptyAcc, {})
    BY <1>2 DEF ChannelsKnown, EmptyAcc
  <2>5. MessagesKnown(EmptyAcc, {})
    <3>1. {x \in OfType({}, "message") : ~x.hidden} = {} /\ {x \in OfType({}, "message") : x.hidden} = {}
      BY <1>2
    <3>2. EmptyAcc.visible = 0 /\ EmptyAcc.hidden = 0
      BY DEF EmptyAcc
    <3> QED BY <1>2, <2>2, <2>3, <3>1, <3>2 DEF MessagesKnown
  <2>6. RevisionsKnown(EmptyAcc, {})
    <3>1. EmptyAcc.revisionRows = 0
      BY DEF EmptyAcc
    <3> QED BY <1>2, <2>3, <3>1 DEF RevisionsKnown
  <2>7. AttachedKnown(EmptyAcc, {})
    <3>1. EmptyAcc.mediaRows = 0
      BY DEF EmptyAcc
    <3> QED BY <1>2, <2>3, <3>1 DEF AttachedKnown
  <2>8. OriginalsKnown(EmptyAcc, m, {})
    <3>1. Originals({}) = {} /\ Included({}) = {}
      BY <1>2 DEF Originals, Included
    <3>2. HeldHashes(EmptyAcc) = {}
      BY <2>3 DEF HeldHashes
    <3>3. SumFunctionOnSet(References(EmptyAcc), HeldHashes(EmptyAcc)) = 0
      BY <3>2, SumOfNone
    <3> QED BY <2>2, <2>3, <3>1, <3>3 DEF OriginalsKnown
  <2>9. ObservationsKnown(EmptyAcc, m, {})
    BY <1>2 DEF ObservationsKnown, EmptyAcc
  <2>10. ObservedKnown(EmptyAcc, m, {})
    <3>1. EmptyAcc.provenanceRows = 0
      BY DEF EmptyAcc
    <3> QED BY <1>2, <2>3, <3>1 DEF ObservedKnown
  <2> QED BY <2>1, <2>2, <2>4, <2>5, <2>6, <2>7, <2>8, <2>9, <2>10 DEF Known
<1>5. InOrder(EmptyAcc, {})
  <2>1. DOMAIN EmptyAcc.lastOrder = {}
    BY DEF EmptyAcc
  <2> QED BY <2>1 DEF InOrder
<1> QED BY <1>1, <1>3, <1>4, <1>5 DEF RecordsKnown

\* One more record at the place that is due.
LEMMA PlaceNext ==
  ASSUME NEW a, NEW b, NEW m, IsManifest(m), ManifestValid(m), NEW t, NEW S, NEW D,
         IsFiniteSet(S), Placement(a, m, t, S, D),
         NEW d, NEW r, r = Line(t, d), a.file <= Len(m.files),
         PathAt(t, d) = m.files[a.file].path, d[2] = a.line + 1, r.type = m.files[a.file].family,
         \A x \in OfType(S, r.type) : Less(OrderParts(x), OrderParts(r)) /\ ~Less(OrderParts(r), OrderParts(x)),
         ~Less(OrderParts(r), OrderParts(r)),
         b.file = IF a.line + 1 = m.files[a.file].records THEN a.file + 1 ELSE a.file,
         b.line = IF a.line + 1 = m.files[a.file].records THEN 0 ELSE a.line + 1
  PROVE  Placement(b, m, t, S \cup {r}, D \cup {d})
<1> DEFINE T == S \cup {r}
           E == D \cup {d}
           K == a.file
           f0 == m.files[K].family
           room == m.files[K].records
<1>1. /\ Len(m.files) \in Nat /\ MaxShardRecords \in Nat
      /\ \A k \in 1..Len(m.files) : m.files[k].records \in 1..MaxShardRecords /\ m.files[k].records \in Nat
                                    /\ m.files[k].family \in Families
  BY ManifestFiles, FormatAssumption
<1>2. K \in 1..Len(m.files) /\ a.line \in Nat /\ a.line < room /\ room \in Nat
  BY <1>1 DEF Placement
<1>3. OfType(T, f0) = OfType(S, f0) \cup {r} /\ r \notin OfType(S, f0)
      /\ \A f : f # f0 => OfType(T, f) = OfType(S, f)
  BY DEF OfType
<1>4. \A f : IsFiniteSet(OfType(S, f)) /\ Cardinality(OfType(S, f)) \in Nat
  <2> TAKE f
  <2>1. OfType(S, f) \in SUBSET S
    BY DEF OfType
  <2> QED BY <2>1, FS_Subset, FS_CardinalityType
<1>5. \A x \in S : Rank(T, x) = Rank(S, x)
  <2> TAKE x \in S
  <2>1. {y \in OfType(T, x.type) : Less(OrderParts(y), OrderParts(x))} =
        {y \in OfType(S, x.type) : Less(OrderParts(y), OrderParts(x))}
    <3>1. CASE x.type = f0
      <4>1. x \in OfType(S, r.type)
        BY <3>1 DEF OfType
      <4> QED BY <1>3, <3>1, <4>1
    <3>2. CASE x.type # f0
      BY <1>3, <3>2
    <3> QED BY <3>1, <3>2
  <2> QED BY <2>1 DEF Rank
<1>6. Cardinality(OfType(S, f0)) = First(m, f0, K) + a.line
  BY <1>1, <1>2 DEF Placement
<1>7. Rank(T, r) = First(m, f0, K) + d[2] - 1
  <2>1. {y \in OfType(T, r.type) : Less(OrderParts(y), OrderParts(r))} = OfType(S, f0)
    BY <1>3
  <2>2. First(m, f0, K) \in Nat
    BY <1>1, <1>2, FirstOfNext
  <2>3. Rank(T, r) = Cardinality(OfType(S, f0))
    BY <2>1 DEF Rank
  <2> QED BY <1>2, <1>6, <2>2, <2>3
<1>8. b.file \in 1..(Len(m.files) + 1) /\ b.line \in Nat
      /\ IF b.file <= Len(m.files) THEN b.line < m.files[b.file].records ELSE b.line = 0
  <2>1. CASE a.line + 1 = room
    <3>1. b.file = K + 1 /\ b.line = 0
      BY <2>1
    <3>2. K + 1 <= Len(m.files) => m.files[K + 1].records \in 1..MaxShardRecords
      BY <1>1, <1>2
    <3> QED BY <1>1, <1>2, <3>1, <3>2
  <2>2. CASE a.line + 1 # room
    BY <1>1, <1>2, <2>2
  <2> QED BY <2>1, <2>2
<1>9. T = {Line(t, e) : e \in E}
  BY DEF Placement
<1>10. ASSUME NEW e \in E
       PROVE  \E k \in 1..Len(m.files) :
                /\ PathAt(t, e) = m.files[k].path /\ e[2] \in 1..m.files[k].records
                /\ Line(t, e).type = m.files[k].family
                /\ Rank(T, Line(t, e)) = First(m, m.files[k].family, k) + e[2] - 1
  <2>1. CASE e = d
    <3>1. e[2] \in 1..room
      BY <1>2, <2>1
    <3> QED BY <1>2, <1>7, <2>1, <3>1
  <2>2. CASE e \in D
    <3>1. Line(t, e) \in S
      BY <2>2 DEF Placement
    <3>2. Rank(T, Line(t, e)) = Rank(S, Line(t, e))
      BY <1>5, <3>1
    <3> QED BY <2>2, <3>2 DEF Placement
  <2> QED BY <2>1, <2>2
<1>11. ASSUME NEW k \in 1..Len(m.files), NEW n \in 1..m.files[k].records,
              k < b.file \/ (k = b.file /\ n <= b.line)
       PROVE  \E e \in E : e[2] = n /\ PathAt(t, e) = m.files[k].path
  <2>1. CASE k < K \/ (k = K /\ n <= a.line)
    BY <2>1 DEF Placement
  <2>2. CASE ~(k < K \/ (k = K /\ n <= a.line))
    <3>1. k = K /\ n = a.line + 1
      <4>0. k \in Nat /\ n \in Nat /\ n <= m.files[k].records /\ 1 <= n
        BY <1>1
      <4>1. CASE a.line + 1 = room
        <5>1. b.file = K + 1 /\ b.line = 0
          BY <4>1
        <5> QED BY <1>2, <1>11, <2>2, <4>0, <4>1, <5>1
      <4>2. CASE a.line + 1 # room
        <5>1. b.file = K /\ b.line = a.line + 1
          BY <4>2
        <5> QED BY <1>2, <1>11, <2>2, <4>0, <4>2, <5>1
      <4> QED BY <4>1, <4>2
    <3> QED BY <3>1
  <2> QED BY <2>1, <2>2
<1>12. ASSUME NEW f \in Families
       PROVE  Cardinality(OfType(T, f)) =
                First(m, f, b.file)
                + (IF b.file <= Len(m.files) /\ m.files[b.file].family = f THEN b.line ELSE 0)
  <2>1. /\ First(m, f, K) \in Nat
        /\ First(m, f, K + 1) = First(m, f, K) + (IF f0 = f THEN room ELSE 0)
    <3>1. K \in 1..(Len(m.files) + 1) /\ K <= Len(m.files)
      BY <1>1, <1>2
    <3> QED BY <3>1, FirstOfNext
  <2>2. Cardinality(OfType(T, f)) = Cardinality(OfType(S, f)) + (IF f = f0 THEN 1 ELSE 0)
    <3>1. CASE f = f0
      BY <1>3, <1>4, <3>1, FS_AddElement
    <3>2. CASE f # f0
      <4>1. OfType(T, f) = OfType(S, f)
        BY <1>3, <3>2
      <4>2. Cardinality(OfType(S, f)) \in Nat
        BY <1>4
      <4> HIDE DEF T
      <4> QED BY <3>2, <4>1, <4>2
    <3> QED BY <3>1, <3>2
  <2>3. Cardinality(OfType(S, f)) = First(m, f, K) + (IF f0 = f THEN a.line ELSE 0)
    BY <1>1, <1>2 DEF Placement
  <2>4. CASE a.line + 1 = room
    <3>1. b.file = K + 1 /\ b.line = 0
      BY <2>4
    <3>2. Cardinality(OfType(T, f)) = First(m, f, K + 1)
      <4>1. CASE f = f0
        BY <1>2, <2>1, <2>2, <2>3, <2>4, <4>1
      <4>2. CASE f # f0
        BY <1>2, <2>1, <2>2, <2>3, <2>4, <4>2
      <4> QED BY <4>1, <4>2
    <3>3. First(m, f, K + 1) \in Nat
      BY <1>2, <2>1
    <3> QED BY <3>1, <3>2, <3>3
  <2>5. CASE a.line + 1 # room
    <3>1. b.file = K /\ b.line = a.line + 1
      BY <2>5
    <3>2. CASE f = f0
      <4>1. b.file <= Len(m.files) /\ m.files[b.file].family = f
        BY <1>1, <1>2, <3>1, <3>2
      <4>2. Cardinality(OfType(T, f)) = First(m, f, K) + (a.line + 1)
        BY <1>2, <2>1, <2>2, <2>3, <3>2
      <4> HIDE DEF T
      <4> QED BY <3>1, <4>1, <4>2
    <3>3. CASE f # f0
      BY <1>2, <2>1, <2>2, <2>3, <3>1, <3>3
    <3> QED BY <3>2, <3>3
  <2> QED BY <2>4, <2>5
<1> QED BY <1>8, <1>9, <1>10, <1>11, <1>12 DEF Placement

-----------------------------------------------------------------------------
(* Shapes of what a container holds.                                       *)

LEMMA PathShapes ==
  ASSUME NEW p \in Paths
  PROVE  /\ p.kind = "manifest" => p = ManifestPath
         /\ p.kind = "checksums" => p = ChecksumPath
         /\ p.kind = "data" => p.family \in Families /\ p.shard \in Nat /\ p = ShardPath(p.family, p.shard)
         /\ p.kind = "blob" => p.hash \in Hashes /\ p = BlobPath(p.hash)
         /\ p.kind \in {"manifest", "checksums", "unsafe", "foreign", "data", "blob"}
<1>1. CASE p = ManifestPath
  BY <1>1 DEF ManifestPath
<1>2. CASE p = ChecksumPath
  BY <1>2 DEF ChecksumPath
<1>3. CASE p = UnsafePath
  BY <1>3 DEF UnsafePath
<1>4. CASE p \in {ForeignPath(b) : b \in BOOLEAN}
  BY <1>4 DEF ForeignPath
<1>5. CASE p \in [kind : {"data"}, family : Families, shard : Nat]
  BY <1>5 DEF ShardPath
<1>6. CASE p \in [kind : {"blob"}, hash : Hashes]
  BY <1>6 DEF BlobPath
<1> QED BY <1>1, <1>2, <1>3, <1>4, <1>5, <1>6 DEF Paths

LEMMA BodyShapes ==
  ASSUME NEW b, IsBody(b)
  PROVE  /\ b.form = "blob" => b.hash \in Hashes /\ b = Blob(b.hash)
         /\ b.form = "lines" => b.lines \in Seq(Records \cup [bad : STRING]) /\ b = Lines(b.lines)
         /\ b.form = "manifest" => IsManifest(b)
         /\ b.form = "checksums" => IsList(b)
         /\ b.form # "blob" => b \notin Hashes
         /\ b.form \in {"blob", "lines", "manifest", "checksums"}
<1>1. CASE b \in [form : {"blob"}, hash : Hashes]
  BY <1>1 DEF Blob
<1>2. CASE b \in [form : {"lines"}, lines : Seq(Records \cup [bad : STRING])] /\ b \notin Hashes
  <2>1. b.form = "lines" /\ b.lines \in Seq(Records \cup [bad : STRING]) /\ b = [form |-> "lines", lines |-> b.lines]
    BY <1>2
  <2> QED BY <1>2, <2>1 DEF Lines
<1>3. CASE IsManifest(b) /\ b \notin Hashes
  <2>1. b.form = "manifest"
    BY <1>3 DEF IsManifest
  <2> QED BY <1>3, <2>1
<1>4. CASE IsList(b) /\ b \notin Hashes
  <2>1. b.form = "checksums"
    BY <1>4 DEF IsList
  <2> QED BY <1>4, <2>1
<1> QED BY <1>1, <1>2, <1>3, <1>4 DEF IsBody

LEMMA ElementShapes ==
  ASSUME NEW t, IsContainer(t)
  PROVE  /\ Len(t) \in Nat /\ DOMAIN t = 1..Len(t)
         /\ \A i \in 1..Len(t) :
              /\ t[i].el \in {"file", "zero"}
              /\ t[i].el = "zero" => t[i] = Zero
              /\ t[i].el = "file" => /\ t[i].path \in Paths /\ IsBody(t[i].body)
                                     /\ t[i].padded \in BOOLEAN
                                     /\ t[i] = [el |-> "file", type |-> t[i].type, padded |-> t[i].padded,
                                                path |-> t[i].path, body |-> t[i].body]
<1>1. t \in Seq(ToSet(t)) /\ \A e \in ToSet(t) : IsElement(e)
  BY DEF IsContainer
<1>2. Len(t) \in Nat /\ DOMAIN t = 1..Len(t)
  BY <1>1
<1>3. ASSUME NEW i \in 1..Len(t) PROVE IsElement(t[i])
  <2>1. t[i] \in ToSet(t)
    BY <1>2 DEF ToSet
  <2> QED BY <1>1, <2>1
<1>4. ASSUME NEW e, IsElement(e)
      PROVE  /\ e.el \in {"file", "zero"}
             /\ e.el = "zero" => e = Zero
             /\ e.el = "file" => /\ e.path \in Paths /\ IsBody(e.body) /\ e.padded \in BOOLEAN
                                 /\ e = [el |-> "file", type |-> e.type, padded |-> e.padded,
                                         path |-> e.path, body |-> e.body]
  <2>1. CASE e = Zero
    BY <2>1 DEF Zero
  <2>2. CASE e \in [el : {"file"}, type : STRING, padded : BOOLEAN, path : Paths, body : {e.body}] /\ IsBody(e.body)
    BY <2>2
  <2> QED BY <1>4, <2>1, <2>2 DEF IsElement
<1> QED BY <1>2, <1>3, <1>4

-----------------------------------------------------------------------------
(* A container t read to its end without a fault: n entries es after the   *)
(* manifest m and the list, and the records S.                             *)

Places(t, n) ==
    {d \in (1..n) \X (Nat \ {0}) : /\ t[d[1] + 2].path.kind = "data"
                                   /\ d[2] \in DOMAIN t[d[1] + 2].body.lines}

Finished(t, m, list, es, a, S, n) ==
    /\ IsContainer(t) /\ n \in Nat /\ Len(t) = n + 4
    /\ \A i \in 1..(n + 2) : t[i].el = "file" /\ t[i].type = "file" /\ t[i].padded
    /\ t[n + 3].el = "zero" /\ t[n + 4].el = "zero"
    /\ t[1].path = ManifestPath /\ t[1].body = m /\ ManifestReadable(m) /\ m.canonical
    /\ t[2].path = ChecksumPath /\ t[2].body.form = "checksums" /\ t[2].body.list = list
    /\ es = [i \in 1..n |-> ChecksumOf(t[i + 2])]
    /\ \A i, j \in 1..n : t[i + 2].path = t[j + 2].path => i = j
    /\ \A i, j \in DOMAIN list : list[i].path = list[j].path => i = j
    /\ \A i \in 1..n : t[i + 2].path.kind = "data" => t[i + 2].body.form = "lines"
    /\ RecordsKnown(a, m, S) /\ Placement(a, m, t, S, Places(t, n))
    /\ FinishIssues(a, m, list, es) = {}

\* The paths of the shards and then of the blobs.
PlannedPaths(m, list) ==
    LET blobs == ByPath({c \in ToSet(list) : c.path \notin PathsOf(m.files)})
    IN [i \in DOMAIN m.files |-> m.files[i].path] \o [i \in DOMAIN blobs |-> blobs[i].path]
PathSeq(es) == [i \in DOMAIN es |-> es[i].path]

LEMMA NoEntryIssue ==
  ASSUME NEW m, NEW list, NEW es, EntryIssues(m, list, es) = {}
  PROVE  /\ list = ByPath(ToSet(list)) /\ m.checksums.list = ByPath(ToSet(list))
         /\ PathsOf(list) = PathsOf(es) /\ ToSet(es) \subseteq ToSet(list)
         /\ PathSeq(es) = PlannedPaths(m, list)
         /\ \A e \in ToSet(es) : /\ \A f \in ToSet(m.files) : f.path = e.path => f.bytes = e.bytes
                                 /\ e.path \notin PathsOf(m.files) => e.path = BlobPath(e.hash)
<1> DEFINE planned == PathsOf(m.files)
           sorted == ByPath(ToSet(list))
           blobs == ByPath({c \in ToSet(list) : c.path \notin planned})
           expected == [i \in DOMAIN m.files |-> m.files[i].path] \o [i \in DOMAIN blobs |-> blobs[i].path]
           misfit(e) == \E f \in ToSet(m.files) : f.path = e.path /\ f.bytes # e.bytes
           stray(e) == e.path \notin planned /\ e.path # BlobPath(e.hash)
           c1 == list # sorted
           c2 == m.checksums.list # sorted
           c3 == PathsOf(list) # PathsOf(es)
           c4 == [i \in DOMAIN es |-> es[i].path] # expected
           c5 == ~(ToSet(es) \subseteq ToSet(list))
           c6 == \E e \in ToSet(es) : misfit(e)
           c7 == \E e \in ToSet(es) : stray(e)
<1>1. EntryIssues(m, list, es) =
        When(c1, "checksum_order_mismatch") \cup When(c2, "checksum_file_descriptor_mismatch")
        \cup When(c3, "checksum_inventory_mismatch") \cup When(c4, "entry_order_mismatch")
        \cup When(c5, "entry_checksum_mismatch") \cup When(c6, "shard_length_mismatch")
        \cup When(c7, "invalid_blob_entry")
  BY DEF EntryIssues
<1> HIDE DEF c1, c2, c3, c4, c5, c6, c7
<1>2. ~c1 /\ ~c2 /\ ~c3 /\ ~c4 /\ ~c5 /\ ~c6 /\ ~c7
  BY <1>1, NoneOfThem
<1>3. list = sorted /\ m.checksums.list = sorted
  BY <1>2 DEF c1, c2
<1>4. PathsOf(list) = PathsOf(es) /\ ToSet(es) \subseteq ToSet(list)
  BY <1>2 DEF c3, c5
<1>5. PathSeq(es) = PlannedPaths(m, list)
  <2>1. [i \in DOMAIN es |-> es[i].path] = expected
    BY <1>2 DEF c4
  <2> QED BY <2>1 DEF PathSeq, PlannedPaths
<1>6. \A e \in ToSet(es) : /\ \A f \in ToSet(m.files) : f.path = e.path => f.bytes = e.bytes
                           /\ e.path \notin planned => e.path = BlobPath(e.hash)
  BY <1>2 DEF c6, c7
<1> QED BY <1>3, <1>4, <1>5, <1>6

LEMMA NoRevisionIssue ==
  ASSUME NEW a, RevisionIssues(a) = {}
  PROVE  /\ \A k \in DOMAIN a.messages : Append(k, a.messages[k]) \in DOMAIN a.revisions
         /\ \A k \in DOMAIN a.revisions :
              LET r == a.revisions[k] IN
              /\ r.content = "text" => r.text /\ r.media = 0
              /\ r.content = "caption" => r.text /\ r.media # 0
              /\ r.content = "none" => ~r.text /\ ~r.entities /\ r.media # 0
BY NoneOfThem DEF RevisionIssues

BlobsOf(es) == {i \in DOMAIN es : es[i].path.kind = "blob"}
BlobLengths(es) == [i \in BlobsOf(es) |-> es[i].bytes]
LeftOut(a) == DOMAIN a.originals \ HeldHashes(a)
LeftLengths(a) == [h \in LeftOut(a) |-> a.originals[h].is[2]]

BlobsMatch(a, es) ==
    /\ \A h \in HeldHashes(a) :
         /\ \E i \in BlobsOf(es) : es[i].path.hash = h
         /\ \A i \in BlobsOf(es) : es[i].path.hash = h => es[i].bytes = a.originals[h].is[2]
    /\ \A i \in BlobsOf(es) : es[i].path.hash \in HeldHashes(a)
MediaTotals(a, m, es) ==
    /\ m.blobs = Cardinality(BlobsOf(es)) /\ m.bytes.blobs = Total(BlobLengths(es))
    /\ m.missing = [references |-> a.mediaRows - Total(References(a)),
                    objects |-> Cardinality(LeftOut(a)), bytes |-> Total(LeftLengths(a))]

LEMMA NoMediaIssue ==
  ASSUME NEW a, NEW m, NEW es, MediaIssues(a, m, es) = {}
  PROVE  BlobsMatch(a, es) /\ MediaTotals(a, m, es)
<1> DEFINE blobs == {i \in DOMAIN es : es[i].path.kind = "blob"}
           Held(h) == {i \in blobs : es[i].path.hash = h}
           in == HeldHashes(a)
           out == DOMAIN a.originals \ in
           present == Total([h \in in |-> a.originals[h].references])
           c1 == \E h \in in : Held(h) = {} \/ \E i \in Held(h) : es[i].bytes # a.originals[h].is[2]
           c2 == \E h \in out : Held(h) # {}
           c3 == \E i \in blobs : es[i].path.hash \notin DOMAIN a.originals
           c4 == m.blobs # Cardinality(blobs)
           c5 == m.bytes.blobs # Total([i \in blobs |-> es[i].bytes])
           c6 == m.missing # [references |-> a.mediaRows - present, objects |-> Cardinality(out),
                              bytes |-> Total([h \in out |-> a.originals[h].is[2]])]
<1>1. MediaIssues(a, m, es) =
        When(c1, "included_blob_missing_or_length_mismatch") \cup When(c2, "excluded_blob_present")
        \cup When(c3, "orphan_blob") \cup When(c4, "blob_count_mismatch")
        \cup When(c5, "blob_bytes_mismatch") \cup When(c6, "missing_media_summary_mismatch")
  BY DEF MediaIssues, HeldHashes
<1> HIDE DEF c1, c2, c3, c4, c5, c6
<1>2. ~c1 /\ ~c2 /\ ~c3 /\ ~c4 /\ ~c5 /\ ~c6
  BY <1>1, NoneOfThem
<1>3. \A h \in in : /\ \E i \in blobs : es[i].path.hash = h
                    /\ \A i \in blobs : es[i].path.hash = h => es[i].bytes = a.originals[h].is[2]
  <2> TAKE h \in in
  <2>1. Held(h) # {} /\ \A i \in Held(h) : es[i].bytes = a.originals[h].is[2]
    <3> HIDE DEF in, Held
    <3> QED BY <1>2 DEF c1
  <2> QED BY <2>1
<1>4. \A i \in blobs : es[i].path.hash \in DOMAIN a.originals \ out
  <2> TAKE i \in blobs
  <2>1. es[i].path.hash \in DOMAIN a.originals
    BY <1>2 DEF c3
  <2>2. i \in Held(es[i].path.hash)
    OBVIOUS
  <2>3. es[i].path.hash \notin out
    <3> HIDE DEF out, Held, blobs
    <3> QED BY <1>2, <2>2 DEF c2
  <2> QED BY <2>1, <2>3
<1>5. m.blobs = Cardinality(blobs) /\ m.bytes.blobs = Total([i \in blobs |-> es[i].bytes])
  BY <1>2 DEF c4, c5
<1>6. m.missing = [references |-> a.mediaRows - present, objects |-> Cardinality(out),
                   bytes |-> Total([h \in out |-> a.originals[h].is[2]])]
  BY <1>2 DEF c6
<1>7. present = Total(References(a))
  BY DEF References
<1>8. blobs = BlobsOf(es) /\ in = HeldHashes(a) /\ out = LeftOut(a)
  BY DEF BlobsOf, LeftOut
<1> HIDE DEF blobs, in, out, Held, present
<1>9. \A i \in blobs : es[i].path.hash \in in
  BY <1>4 DEF out
<1>10. m.blobs = Cardinality(BlobsOf(es)) /\ m.bytes.blobs = Total(BlobLengths(es))
  BY <1>5, <1>8 DEF BlobLengths
<1>11. m.missing = [references |-> a.mediaRows - Total(References(a)),
                    objects |-> Cardinality(LeftOut(a)), bytes |-> Total(LeftLengths(a))]
  BY <1>6, <1>7, <1>8 DEF LeftLengths
<1>12. \A h \in in : /\ \E i \in blobs : es[i].path.hash = h
                     /\ \A i \in blobs : es[i].path.hash = h => es[i].bytes = a.originals[h].is[2]
  BY <1>3
<1> QED BY <1>8, <1>9, <1>10, <1>11, <1>12 DEF BlobsMatch, MediaTotals

LEMMA NoCountIssue ==
  ASSUME NEW a, NEW m, CountIssues(a, m) = {}
  PROVE  /\ m.selection = <<>> \/ m.selection = Ascending(a.channels)
         /\ m.counts["channel"] = a.channelRows /\ m.counts["message"] = a.visible + a.hidden
         /\ m.counts["revision"] = a.revisionRows /\ m.counts["revision-media"] = a.mediaRows
         /\ m.counts["provenance-observation"] = Cardinality(a.observations)
         /\ m.counts["provenance-media"] = a.provenanceRows - Cardinality(a.observations)
         /\ m.visible = a.visible /\ m.hidden = a.hidden
<1> DEFINE actual == [channel |-> a.channelRows, message |-> a.visible + a.hidden,
                      revision |-> a.revisionRows]
<1>1. /\ ~(m.selection # <<>> /\ m.selection # Ascending(a.channels))
      /\ \A f \in DOMAIN actual : m.counts[f] = actual[f]
      /\ m.counts["revision-media"] = a.mediaRows
      /\ m.counts["provenance-observation"] = Cardinality(a.observations)
      /\ m.counts["provenance-media"] = a.provenanceRows - Cardinality(a.observations)
      /\ m.visible = a.visible /\ m.hidden = a.hidden
  BY NoneOfThem DEF CountIssues
<1>2. DOMAIN actual = {"channel", "message", "revision"}
  OBVIOUS
<1> QED BY <1>1, <1>2

LEMMA NoIssue ==
  ASSUME NEW a, NEW m, NEW list, NEW es, FinishIssues(a, m, list, es) = {}
  PROVE  /\ a.issues = {} /\ EntryIssues(m, list, es) = {} /\ RevisionIssues(a) = {}
         /\ MediaIssues(a, m, es) = {} /\ CountIssues(a, m) = {}
         /\ a.file = Len(m.files) + 1 /\ a.line = 0
BY NoneOfThem DEF FinishIssues

LEMMA Concatenated ==
  ASSUME NEW X, NEW p \in Nat, NEW q \in Nat, NEW s \in [1..p -> X], NEW u \in [1..q -> X]
  PROVE  /\ DOMAIN (s \o u) = 1..(p + q) /\ Len(s \o u) = p + q /\ s \o u \in Seq(X)
         /\ \A i \in 1..p : (s \o u)[i] = s[i]
         /\ \A i \in (p + 1)..(p + q) : (s \o u)[i] = u[i - p]
<1>1. s \in Seq(X) /\ u \in Seq(X) /\ Len(s) = p /\ Len(u) = q
  OBVIOUS
<1>2. s \o u \in Seq(X) /\ Len(s \o u) = p + q
  BY <1>1
<1>3. DOMAIN (s \o u) = 1..(p + q)
  BY <1>2, SequenceOf
<1>4. \A i \in 1..p : (s \o u)[i] = s[i]
  BY <1>1
<1>5. \A i \in (p + 1)..(p + q) : (s \o u)[i] = u[i - p]
  BY <1>1
<1> QED BY <1>2, <1>3, <1>4, <1>5

\* The number of a blob in the order of names.
BlobNumber(h) == CHOOSE i \in DOMAIN BlobNames : BlobNames[i] = h

LEMMA BlobsHaveNumbers ==
  \A h \in Hashes : BlobNumber(h) \in Nat /\ BlobNumber(h) \in DOMAIN BlobNames /\ BlobNames[BlobNumber(h)] = h
<1> DEFINE N == Cardinality(Hashes)
<1>1. IsFiniteSet(Hashes) /\ N \in Nat
  BY FormatAssumption, FS_CardinalityType DEF Hashes
<1>2. PICK g : g \in Bijection(1..N, Hashes)
  <2>1. ExistsBijection(1..N, Hashes)
    BY <1>1, FS_CardinalityType
  <2> QED BY <2>1 DEF ExistsBijection
<1>3. g \in [1..N -> Hashes] /\ IsInjective(g)
  BY <1>2 DEF Bijection, Injection, IsInjective
<1>4. BlobNames = CHOOSE f \in [1..N -> Hashes] : IsInjective(f)
  BY DEF BlobNames, SetToSeq, Hashes
<1>5. BlobNames \in [1..N -> Hashes] /\ IsInjective(BlobNames)
  BY <1>3, <1>4
<1>6. BlobNames \in Injection(1..N, Hashes)
  BY <1>5 DEF Injection, IsInjective
<1>7. BlobNames \in Surjection(1..N, Hashes)
  <2>1. IsFiniteSet(1..N) /\ Cardinality(1..N) = N
    BY <1>1, FS_Interval
  <2> QED BY <1>1, <1>6, <2>1, FS_Injection
<1> SUFFICES ASSUME NEW h \in Hashes
             PROVE  BlobNumber(h) \in Nat /\ BlobNumber(h) \in DOMAIN BlobNames /\ BlobNames[BlobNumber(h)] = h
  OBVIOUS
<1>8. \E i \in DOMAIN BlobNames : BlobNames[i] = h
  BY <1>5, <1>7 DEF Surjection
<1>9. BlobNumber(h) \in DOMAIN BlobNames /\ BlobNames[BlobNumber(h)] = h
  BY <1>8 DEF BlobNumber
<1>10. DOMAIN BlobNames \in SUBSET Nat
  BY <1>1, <1>5
<1> QED BY <1>9, <1>10

LEMMA RangeIsFinite ==
  ASSUME NEW n \in Nat, NEW g, DOMAIN g = 1..n PROVE IsFiniteSet({g[i] : i \in 1..n})
<1> DEFINE T == {g[i] : i \in 1..n}
           s == [i \in 1..n |-> g[i]]
<1>1. s \in Surjection(1..n, T)
  BY DEF Surjection
<1> HIDE DEF T, s
<1>2. IsFiniteSet(1..n)
  BY FS_Interval
<1>3. IsFiniteSet(T)
  BY <1>1, <1>2, FS_Surjection
<1> QED BY <1>3 DEF T

LEMMA BlobParts == \A h : PathParts(BlobPath(h)) = <<0, BlobNumber(h), 0>> /\ BlobPath(h).hash = h /\ BlobPath(h).kind = "blob"
BY DEF PathParts, BlobPath, BlobNumber

LEMMA EndManifest ==
  ASSUME NEW t, NEW m, NEW list, NEW es, NEW a, NEW S, NEW n, Finished(t, m, list, es, a, S, n)
  PROVE  /\ n \in Nat /\ IsManifest(m) /\ ManifestValid(m) /\ Supported(m) /\ m.form = "manifest" /\ m.canonical
         /\ \A i \in 1..(n + 2) : t[i].path \in Paths /\ IsBody(t[i].body) /\ t[i] = File(t[i])
         /\ t[n + 3] = Zero /\ t[n + 4] = Zero /\ Len(t) = n + 4 /\ DOMAIN t = 1..(n + 4)
<1>1. /\ IsContainer(t) /\ n \in Nat /\ Len(t) = n + 4
      /\ \A i \in 1..(n + 2) : t[i].el = "file" /\ t[i].type = "file" /\ t[i].padded
      /\ t[n + 3].el = "zero" /\ t[n + 4].el = "zero"
      /\ t[1].body = m /\ ManifestReadable(m) /\ m.canonical
  BY DEF Finished
<1>2. /\ DOMAIN t = 1..(n + 4)
      /\ \A i \in 1..(n + 4) :
           /\ t[i].el = "zero" => t[i] = Zero
           /\ t[i].el = "file" => /\ t[i].path \in Paths /\ IsBody(t[i].body) /\ t[i].padded \in BOOLEAN
                                  /\ t[i] = [el |-> "file", type |-> t[i].type, padded |-> t[i].padded,
                                             path |-> t[i].path, body |-> t[i].body]
  <2>1. /\ DOMAIN t = 1..Len(t)
        /\ \A i \in 1..Len(t) :
             /\ t[i].el = "zero" => t[i] = Zero
             /\ t[i].el = "file" => /\ t[i].path \in Paths /\ IsBody(t[i].body) /\ t[i].padded \in BOOLEAN
                                    /\ t[i] = [el |-> "file", type |-> t[i].type, padded |-> t[i].padded,
                                               path |-> t[i].path, body |-> t[i].body]
    <3>1. IsContainer(t)
      BY <1>1
    <3> HIDE <1>1
    <3> QED BY <3>1, ElementShapes
  <2>2. Len(t) = n + 4
    BY <1>1
  <2> HIDE <1>1
  <2> QED BY <2>1, <2>2
<1>3. ASSUME NEW i \in 1..(n + 2) PROVE t[i].path \in Paths /\ IsBody(t[i].body) /\ t[i] = File(t[i])
  <2>1. i \in 1..(n + 4) /\ t[i].el = "file" /\ t[i].type = "file" /\ t[i].padded
    BY <1>1
  <2>2. /\ t[i].path \in Paths /\ IsBody(t[i].body) /\ t[i].padded \in BOOLEAN
        /\ t[i] = [el |-> "file", type |-> t[i].type, padded |-> t[i].padded,
                   path |-> t[i].path, body |-> t[i].body]
    BY <1>2, <2>1
  <2>3. t[i].padded = TRUE
    BY <2>1, <2>2
  <2> QED BY <2>1, <2>2, <2>3 DEF File
<1>4. t[n + 3] = Zero /\ t[n + 4] = Zero
  BY <1>1, <1>2
<1>5. ManifestValid(m) /\ Supported(m) /\ m.form = "manifest"
  BY <1>1 DEF ManifestReadable
<1>6. IsManifest(m)
  <2>1. IsBody(t[1].body)
    BY <1>1, <1>3
  <2> QED BY <1>1, <1>5, <2>1, BodyShapes
<1> QED BY <1>1, <1>2, <1>3, <1>4, <1>5, <1>6

\* An entry whose path is its blob's holds that blob.
LEMMA BlobEntries ==
  ASSUME NEW p \in Paths, NEW b, IsBody(b), p = BlobPath(Hash(b))
  PROVE  p.kind = "blob" /\ p.hash \in Hashes /\ p = BlobPath(p.hash) /\ b = Blob(p.hash) /\ b.form = "blob"
<1>1. p.kind = "blob" /\ p.hash = Hash(b)
  BY DEF BlobPath
<1>2. p.hash \in Hashes /\ p = BlobPath(p.hash)
  BY <1>1, PathShapes
<1>3. b.form = "blob"
  BY <1>1, <1>2, BodyShapes DEF Hash
<1>4. b = Blob(p.hash)
  BY <1>1, <1>3, BodyShapes DEF Hash
<1> QED BY <1>1, <1>2, <1>3, <1>4

LEMMA EndPaths ==
  ASSUME NEW t, NEW m, NEW list, NEW es, NEW a, NEW S, NEW n, Finished(t, m, list, es, a, S, n)
  PROVE  /\ Len(m.files) \in 0..n /\ ToSet(list) = ToSet(es)
         /\ \A i \in 1..Len(m.files) :
              /\ t[i + 2].path = m.files[i].path /\ t[i + 2].path.kind = "data" /\ t[i + 2].body.form = "lines"
              /\ Bytes(t[i + 2].body) = m.files[i].bytes
         /\ \A i \in (Len(m.files) + 1)..n :
              LET h == t[i + 2].path.hash IN
              t[i + 2].path.kind = "blob" /\ h \in Hashes /\ t[i + 2].path = BlobPath(h) /\ t[i + 2].body = Blob(h)
         /\ \A i, j \in (Len(m.files) + 1)..n : i < j =>
              BlobNumber(t[i + 2].path.hash) < BlobNumber(t[j + 2].path.hash)
<1> DEFINE nf == Len(m.files)
           planned == PathsOf(m.files)
           B == {c \in ToSet(list) : c.path \notin planned}
           key == [c \in B |-> PathParts(c.path)]
           blobs == ByPath(B)
           E(i) == ChecksumOf(t[i + 2])
<1>1. /\ n \in Nat /\ IsManifest(m) /\ ManifestValid(m)
      /\ \A i \in 1..(n + 2) : t[i].path \in Paths /\ IsBody(t[i].body)
  BY EndManifest
<1>2. /\ nf \in Nat /\ DOMAIN m.files = 1..nf
      /\ \A k \in 1..nf : m.files[k].path = ShardPath(m.files[k].family, m.files[k].shard)
                          /\ m.files[k].path \in Paths
  BY <1>1, ManifestFiles
<1>3. /\ es = [i \in 1..n |-> E(i)]
      /\ \A i, j \in 1..n : t[i + 2].path = t[j + 2].path => i = j
      /\ \A i, j \in DOMAIN list : list[i].path = list[j].path => i = j
      /\ \A i \in 1..n : t[i + 2].path.kind = "data" => t[i + 2].body.form = "lines"
  BY DEF Finished
<1>4. /\ PathsOf(list) = PathsOf(es) /\ ToSet(es) \subseteq ToSet(list)
      /\ [i \in DOMAIN es |-> es[i].path]
           = [i \in DOMAIN m.files |-> m.files[i].path] \o [i \in DOMAIN blobs |-> blobs[i].path]
      /\ \A e \in ToSet(es) : /\ \A f \in ToSet(m.files) : f.path = e.path => f.bytes = e.bytes
                              /\ e.path \notin planned => e.path = BlobPath(e.hash)
  <2>1. EntryIssues(m, list, es) = {}
    BY NoIssue DEF Finished
  <2>2. /\ PathsOf(list) = PathsOf(es) /\ ToSet(es) \subseteq ToSet(list)
        /\ PathSeq(es) = PlannedPaths(m, list)
        /\ \A e \in ToSet(es) : /\ \A f \in ToSet(m.files) : f.path = e.path => f.bytes = e.bytes
                                /\ e.path \notin PathsOf(m.files) => e.path = BlobPath(e.hash)
    BY <2>1, NoEntryIssue
  <2>3. [i \in DOMAIN es |-> es[i].path]
          = [i \in DOMAIN m.files |-> m.files[i].path] \o [i \in DOMAIN blobs |-> blobs[i].path]
    BY <2>2 DEF PathSeq, PlannedPaths
  <2> HIDE DEF blobs, B
  <2> QED BY <2>2, <2>3
<1>5. \A i \in 1..n : E(i) = [path |-> t[i + 2].path, bytes |-> Bytes(t[i + 2].body), hash |-> Hash(t[i + 2].body)]
  BY DEF ChecksumOf
<1> HIDE DEF E
<1>6. DOMAIN es = 1..n /\ \A i \in 1..n : es[i] = E(i) /\ E(i) \in ToSet(es)
  BY <1>3 DEF ToSet
<1>7. ToSet(list) = ToSet(es)
  <2> SUFFICES ASSUME NEW k \in DOMAIN list PROVE list[k] \in ToSet(es)
    BY <1>4 DEF ToSet
  <2>0. list[k].path \in PathsOf(list)
    BY DEF PathsOf
  <2>1. PICK i \in DOMAIN es : list[k].path = es[i].path
    <3>1. list[k].path \in PathsOf(es)
      BY <1>4, <2>0
    <3> HIDE <1>4, <2>0
    <3> QED BY <3>1 DEF PathsOf
  <2>2. PICK j \in DOMAIN list : es[i] = list[j]
    BY <1>4 DEF ToSet
  <2>3. k = j
    BY <1>3, <2>1, <2>2
  <2> QED BY <2>2, <2>3 DEF ToSet
<1>8. ASSUME NEW i \in 1..n, t[i + 2].path \notin planned
      PROVE  LET h == t[i + 2].path.hash IN
             t[i + 2].path.kind = "blob" /\ h \in Hashes /\ t[i + 2].path = BlobPath(h) /\ t[i + 2].body = Blob(h)
  <2>1. i + 2 \in 1..(n + 2)
    BY <1>1
  <2>2. t[i + 2].path = BlobPath(Hash(t[i + 2].body))
    BY <1>4, <1>5, <1>6, <1>8
  <2> QED BY <1>1, <2>1, <2>2, BlobEntries
<1>9. ASSUME NEW c \in B PROVE \E i \in 1..n : c = E(i) /\ c.path = t[i + 2].path /\ t[i + 2].path \notin planned
  <2>1. PICK i \in 1..n : c = es[i]
    BY <1>6, <1>7 DEF ToSet
  <2> QED BY <1>5, <1>6, <2>1
<1>10. Sortable(B, key)
  <2>1. IsFiniteSet(B)
    <3>1. ToSet(es) = {es[i] : i \in 1..n}
      BY <1>6 DEF ToSet
    <3>2. IsFiniteSet({es[i] : i \in 1..n})
      BY <1>1, <1>6, RangeIsFinite
    <3>3. B \in SUBSET ToSet(es)
      BY <1>7
    <3> QED BY <3>1, <3>2, <3>3, FS_Subset
  <2>2. \A c \in B : key[c] \in [1..3 -> Int]
    <3> TAKE c \in B
    <3>1. PICK i \in 1..n : c.path = t[i + 2].path /\ t[i + 2].path \notin planned
      BY <1>9
    <3>2. PICK h \in Hashes : c.path = BlobPath(h)
      BY <1>8, <3>1
    <3>3. PathParts(c.path) = <<0, BlobNumber(h), 0>> /\ BlobNumber(h) \in Nat
      BY <3>2, BlobParts, BlobsHaveNumbers
    <3> HIDE DEF B
    <3> QED BY <3>3
  <2>3. \A c, d \in B : key[c] = key[d] => c = d
    <3> TAKE c \in B, d \in B
    <3> HAVE key[c] = key[d]
    <3>1. PICK i \in 1..n : c = E(i) /\ c.path = t[i + 2].path /\ t[i + 2].path \notin planned
      BY <1>9
    <3>2. PICK j \in 1..n : d = E(j) /\ d.path = t[j + 2].path /\ t[j + 2].path \notin planned
      BY <1>9
    <3>3. PICK h \in Hashes : c.path = BlobPath(h)
      BY <1>8, <3>1
    <3>4. PICK g \in Hashes : d.path = BlobPath(g)
      BY <1>8, <3>2
    <3>5. <<0, BlobNumber(h), 0>> = <<0, BlobNumber(g), 0>>
      BY <3>3, <3>4, BlobParts
    <3>6. BlobNumber(h) = BlobNumber(g)
      BY <3>5
    <3>7. h = g
      BY <3>6, BlobsHaveNumbers
    <3> QED BY <1>3, <3>1, <3>2, <3>3, <3>4, <3>7
  <2> HIDE DEF key, B
  <2> QED BY <2>1, <2>2, <2>3, KeysSort
<1> DEFINE q == Cardinality(B)
<1>11. /\ q \in Nat /\ blobs \in [1..q -> B] /\ DOMAIN blobs = 1..q
       /\ \A i, j \in 1..q : i < j => Less(key[blobs[i]], key[blobs[j]])
  <2>1. blobs = Arrange(B, key)
    BY DEF ByPath
  <2> HIDE DEF blobs, B, key
  <2> QED BY <1>10, <2>1, Arranged
<1> DEFINE s == [i \in DOMAIN m.files |-> m.files[i].path]
           u == [i \in DOMAIN blobs |-> blobs[i].path]
<1>12. s \in [1..nf -> Paths] /\ u \in [1..q -> Paths]
  <2>1. s \in [1..nf -> Paths]
    BY <1>2
  <2>2. ASSUME NEW i \in 1..q PROVE blobs[i].path \in Paths
    <3>1. blobs[i] \in B
      <4> HIDE DEF B, blobs
      <4> QED BY <1>11
    <3>2. PICK j \in 1..n : blobs[i].path = t[j + 2].path
      <4> HIDE DEF B, blobs
      <4> QED BY <1>9, <3>1
    <3>3. j + 2 \in 1..(n + 2)
      BY <1>1
    <3> QED BY <1>1, <3>2, <3>3
  <2>3. u \in [1..q -> Paths]
    <3> HIDE DEF B, blobs, q
    <3> QED BY <1>11, <2>2
  <2> QED BY <2>1, <2>3
<1>13. /\ 1..n = 1..(nf + q)
       /\ \A i \in 1..nf : es[i].path = s[i]
       /\ \A i \in (nf + 1)..(nf + q) : es[i].path = u[i - nf]
  <2>1. [i \in DOMAIN es |-> es[i].path] = s \o u
    BY <1>4
  <2>2. nf \in Nat /\ q \in Nat
    BY <1>2, <1>11
  <2> DEFINE ep == [i \in DOMAIN es |-> es[i].path]
  <2> HIDE DEF s, u, q, nf
  <2>3. /\ DOMAIN (s \o u) = 1..(nf + q)
        /\ \A i \in 1..nf : (s \o u)[i] = s[i]
        /\ \A i \in (nf + 1)..(nf + q) : (s \o u)[i] = u[i - nf]
    BY <1>12, <2>2, Concatenated
  <2>4. DOMAIN ep = 1..n /\ \A i \in 1..n : ep[i] = es[i].path
    BY <1>6
  <2> HIDE DEF ep
  <2>5. ep = s \o u
    BY <2>1 DEF ep
  <2>6. 1..n = 1..(nf + q)
    BY <2>3, <2>4, <2>5
  <2>7. (\A i \in 1..nf : i \in 1..(nf + q)) /\ (\A i \in (nf + 1)..(nf + q) : i \in 1..(nf + q))
    BY <2>2
  <2> QED BY <2>3, <2>4, <2>5, <2>6, <2>7
<1>14. n = nf + q
  <2> HIDE DEF q, nf
  <2> QED BY <1>1, <1>2, <1>11, <1>13
<1>15. ASSUME NEW i \in 1..nf
       PROVE  /\ t[i + 2].path = m.files[i].path /\ t[i + 2].path.kind = "data" /\ t[i + 2].body.form = "lines"
              /\ Bytes(t[i + 2].body) = m.files[i].bytes
  <2>1. i \in 1..n
    <3> HIDE DEF q, nf
    <3> QED BY <1>2, <1>11, <1>14
  <2>2. es[i].path = m.files[i].path
    BY <1>2, <1>13
  <2>3. t[i + 2].path = m.files[i].path
    BY <1>5, <1>6, <2>1, <2>2
  <2>4. t[i + 2].path.kind = "data"
    <3>1. m.files[i].path = ShardPath(m.files[i].family, m.files[i].shard)
      BY <1>2
    <3>2. ShardPath(m.files[i].family, m.files[i].shard).kind = "data"
      BY DEF ShardPath
    <3> QED BY <2>3, <3>1, <3>2
  <2>5. m.files[i] \in ToSet(m.files)
    BY <1>2 DEF ToSet
  <2>6. m.files[i].bytes = es[i].bytes
    BY <1>4, <1>6, <2>1, <2>2, <2>5
  <2> QED BY <1>3, <1>5, <1>6, <2>1, <2>3, <2>4, <2>6
<1>16. ASSUME NEW i \in (nf + 1)..n
       PROVE  /\ i \in 1..n /\ t[i + 2].path \notin planned
              /\ i - nf \in 1..q /\ t[i + 2].path = blobs[i - nf].path /\ blobs[i - nf] \in B
  <2>1. i \in 1..n /\ i \in (nf + 1)..(nf + q) /\ i - nf \in 1..q
    <3> HIDE DEF q, nf
    <3> QED BY <1>2, <1>11, <1>14
  <2>2. t[i + 2].path = u[i - nf]
    <3> HIDE DEF q, nf, u
    <3> QED BY <1>5, <1>6, <1>13, <2>1
  <2>3. u[i - nf] = blobs[i - nf].path /\ blobs[i - nf] \in B
    <3> HIDE DEF q, nf, blobs, B
    <3> QED BY <1>11, <2>1
  <2> QED BY <2>1, <2>2, <2>3
<1>17. ASSUME NEW i \in (nf + 1)..n, NEW j \in (nf + 1)..n, i < j
       PROVE  BlobNumber(t[i + 2].path.hash) < BlobNumber(t[j + 2].path.hash)
  <2> DEFINE g == t[i + 2].path.hash
             h == t[j + 2].path.hash
  <2>1. g \in Hashes /\ h \in Hashes /\ t[i + 2].path = BlobPath(g) /\ t[j + 2].path = BlobPath(h)
    BY <1>8, <1>16
  <2>2. BlobNumber(g) \in Nat /\ BlobNumber(h) \in Nat
    BY <2>1, BlobsHaveNumbers
  <2>3. /\ blobs[i - nf].path = t[i + 2].path /\ blobs[j - nf].path = t[j + 2].path
        /\ blobs[i - nf] \in B /\ blobs[j - nf] \in B
    BY <1>16
  <2>4. key[blobs[i - nf]] = <<0, BlobNumber(g), 0>> /\ key[blobs[j - nf]] = <<0, BlobNumber(h), 0>>
    <3> HIDE DEF blobs, B, g, h
    <3> QED BY <2>1, <2>3, BlobParts
  <2>5. Less(key[blobs[i - nf]], key[blobs[j - nf]])
    <3>1. i - nf \in 1..q /\ j - nf \in 1..q /\ i - nf < j - nf
      <4>1. i - nf \in 1..q /\ j - nf \in 1..q
        BY <1>16
      <4>2. nf \in Nat /\ q \in Nat /\ n \in Nat
        BY <1>1, <1>2, <1>11
      <4> HIDE DEF q, nf
      <4>3. i \in Int /\ j \in Int
        BY <4>2
      <4> QED BY <1>17, <4>1, <4>2, <4>3
    <3> HIDE DEF key, blobs, q, B
    <3> QED BY <1>11, <3>1
  <2>6. Less(<<0, BlobNumber(g), 0>>, <<0, BlobNumber(h), 0>>)
    <3> HIDE DEF key, blobs
    <3> QED BY <2>4, <2>5
  <2> HIDE DEF g, h
  <2>7. BlobNumber(g) < BlobNumber(h)
    BY <2>2, <2>6 DEF Less
  <2> QED BY <2>7 DEF g, h
<1>18. nf \in 0..n
  <2> HIDE DEF q, nf
  <2> QED BY <1>2, <1>11, <1>14
<1> QED BY <1>7, <1>8, <1>15, <1>16, <1>17, <1>18

-----------------------------------------------------------------------------
(* The shards of a finished container are slices of the ordered records.   *)

\* The content of the k-th payload entry.
LinesAt(t, k) == t[k + 2].body.lines

LEMMA EndShards ==
  ASSUME NEW t, NEW m, NEW list, NEW es, NEW a, NEW S, NEW n, Finished(t, m, list, es, a, S, n)
  PROVE  /\ \A k \in 1..Len(m.files) :
              /\ Len(LinesAt(t, k)) = m.files[k].records /\ LinesAt(t, k) \in Seq(Records \cup [bad : STRING])
              /\ t[k + 2].body = Lines(LinesAt(t, k)) /\ Bytes(t[k + 2].body) = m.files[k].records
              /\ \A j \in 1..m.files[k].records :
                   /\ LinesAt(t, k)[j] \in OfType(S, m.files[k].family)
                   /\ Rank(S, LinesAt(t, k)[j]) = First(m, m.files[k].family, k) + j - 1
         /\ \A r \in S : \E k \in 1..Len(m.files) : \E j \in 1..m.files[k].records : r = LinesAt(t, k)[j]
<1> DEFINE nf == Len(m.files)
           D == Places(t, n)
<1>1. /\ n \in Nat /\ IsManifest(m) /\ ManifestValid(m)
      /\ \A i \in 1..(n + 2) : t[i].path \in Paths /\ IsBody(t[i].body)
  BY EndManifest
<1>2. nf \in Nat /\ \A k \in 1..nf : m.files[k].records \in Nat
  BY <1>1, ManifestFiles
<1>3. nf \in 0..n /\ \A k \in 1..nf : /\ t[k + 2].path = m.files[k].path /\ t[k + 2].path.kind = "data"
                                      /\ t[k + 2].body.form = "lines"
  BY EndPaths
<1>4. /\ \A i, j \in 1..n : t[i + 2].path = t[j + 2].path => i = j
      /\ Placement(a, m, t, S, D)
  BY DEF Finished
<1>5. a.file = nf + 1 /\ a.line = 0
  BY NoIssue DEF Finished
<1> HIDE DEF D
<1>6. /\ S = {Line(t, d) : d \in D}
      /\ \A d \in D : \E k \in 1..nf :
           /\ PathAt(t, d) = m.files[k].path /\ d[2] \in 1..m.files[k].records
           /\ Line(t, d).type = m.files[k].family
           /\ Rank(S, Line(t, d)) = First(m, m.files[k].family, k) + d[2] - 1
      /\ \A k \in 1..nf : \A j \in 1..m.files[k].records :
           k < a.file \/ (k = a.file /\ j <= a.line) => \E d \in D : d[2] = j /\ PathAt(t, d) = m.files[k].path
  BY <1>4 DEF Placement
<1>7. \A d \in D : d[1] \in 1..n /\ d[2] \in DOMAIN LinesAt(t, d[1]) /\ Line(t, d) = LinesAt(t, d[1])[d[2]]
                   /\ PathAt(t, d) = t[d[1] + 2].path
  BY DEF D, Places, Line, PathAt, LinesAt
<1>8. ASSUME NEW d \in D, NEW k \in 1..nf, PathAt(t, d) = m.files[k].path PROVE d[1] = k
  <2>1. k \in 1..n /\ d[1] \in 1..n
    BY <1>1, <1>2, <1>3, <1>7
  <2>2. t[d[1] + 2].path = t[k + 2].path
    BY <1>3, <1>7, <1>8
  <2> QED BY <1>4, <2>1, <2>2
<1>9. ASSUME NEW k \in 1..nf
      PROVE  LinesAt(t, k) \in Seq(Records \cup [bad : STRING]) /\ t[k + 2].body = Lines(LinesAt(t, k))
             /\ Len(LinesAt(t, k)) \in Nat /\ DOMAIN LinesAt(t, k) = 1..Len(LinesAt(t, k))
  <2>1. k + 2 \in 1..(n + 2)
    BY <1>1, <1>2, <1>3
  <2>2. IsBody(t[k + 2].body) /\ t[k + 2].body.form = "lines"
    BY <1>1, <1>3, <2>1
  <2>3. LinesAt(t, k) \in Seq(Records \cup [bad : STRING]) /\ t[k + 2].body = Lines(LinesAt(t, k))
    BY <2>2, BodyShapes DEF LinesAt
  <2> DEFINE X == Records \cup [bad : STRING]
  <2>4. LinesAt(t, k) \in Seq(X)
    BY <2>3
  <2> HIDE DEF X
  <2>5. Len(LinesAt(t, k)) \in Nat /\ DOMAIN LinesAt(t, k) = 1..Len(LinesAt(t, k))
    BY <2>4
  <2> QED BY <2>3, <2>5
<1>10. ASSUME NEW k \in 1..nf, NEW j \in 1..m.files[k].records
       PROVE  \E d \in D : d[1] = k /\ d[2] = j
  <2>1. k < a.file
    BY <1>2, <1>5
  <2>2. PICK d \in D : d[2] = j /\ PathAt(t, d) = m.files[k].path
    BY <1>6, <2>1
  <2> QED BY <1>8, <2>2
<1>11. ASSUME NEW k \in 1..nf, NEW j \in DOMAIN LinesAt(t, k)
       PROVE  \E d \in D : d[1] = k /\ d[2] = j
  <2>1. k \in 1..n
    BY <1>1, <1>2, <1>3
  <2>2. j \in Nat \ {0}
    BY <1>9
  <2>3. <<k, j>> \in D
    BY <1>3, <1>11, <2>1, <2>2 DEF D, Places, LinesAt
  <2> WITNESS <<k, j>> \in D
  <2> QED OBVIOUS
<1>12. ASSUME NEW d \in D, NEW k \in 1..nf, d[1] = k
       PROVE  /\ d[2] \in 1..m.files[k].records
              /\ LinesAt(t, k)[d[2]] \in OfType(S, m.files[k].family)
              /\ Rank(S, LinesAt(t, k)[d[2]]) = First(m, m.files[k].family, k) + d[2] - 1
  <2>1. PICK i \in 1..nf : /\ PathAt(t, d) = m.files[i].path /\ d[2] \in 1..m.files[i].records
                           /\ Line(t, d).type = m.files[i].family
                           /\ Rank(S, Line(t, d)) = First(m, m.files[i].family, i) + d[2] - 1
    BY <1>6
  <2>2. i = k
    BY <1>8, <1>12, <2>1
  <2>3. Line(t, d) \in S /\ Line(t, d) = LinesAt(t, k)[d[2]]
    BY <1>6, <1>7, <1>12
  <2> QED BY <2>1, <2>2, <2>3 DEF OfType
<1>13. ASSUME NEW k \in 1..nf
       PROVE  /\ Len(LinesAt(t, k)) = m.files[k].records
              /\ \A j \in 1..m.files[k].records :
                   /\ LinesAt(t, k)[j] \in OfType(S, m.files[k].family)
                   /\ Rank(S, LinesAt(t, k)[j]) = First(m, m.files[k].family, k) + j - 1
  <2>1. \A j \in 1..m.files[k].records :
          /\ j \in DOMAIN LinesAt(t, k)
          /\ LinesAt(t, k)[j] \in OfType(S, m.files[k].family)
          /\ Rank(S, LinesAt(t, k)[j]) = First(m, m.files[k].family, k) + j - 1
    BY <1>7, <1>10, <1>12
  <2>2. \A j \in DOMAIN LinesAt(t, k) : j \in 1..m.files[k].records
    BY <1>11, <1>12
  <2>3. Len(LinesAt(t, k)) \in Nat /\ DOMAIN LinesAt(t, k) = 1..Len(LinesAt(t, k)) /\ m.files[k].records \in Nat
    BY <1>2, <1>9
  <2>4. Len(LinesAt(t, k)) = m.files[k].records
    <3> DEFINE p == Len(LinesAt(t, k))
               q == m.files[k].records
    <3>1. p \in Nat /\ q \in Nat /\ (\A j \in 1..q : j \in 1..p) /\ (\A j \in 1..p : j \in 1..q)
      BY <2>1, <2>2, <2>3
    <3> HIDE DEF p, q
    <3>2. p = q
      BY <3>1
    <3> QED BY <3>2 DEF p, q
  <2> QED BY <2>1, <2>4
<1>14. ASSUME NEW k \in 1..nf PROVE Bytes(t[k + 2].body) = m.files[k].records
  <2>1. t[k + 2].body.form = "lines" /\ Len(t[k + 2].body.lines) = m.files[k].records
    BY <1>3, <1>13 DEF LinesAt
  <2> QED BY <2>1 DEF Bytes
<1>15. ASSUME NEW r \in S PROVE \E k \in 1..nf : \E j \in 1..m.files[k].records : r = LinesAt(t, k)[j]
  <2>1. PICK d \in D : r = Line(t, d)
    BY <1>6
  <2>2. PICK k \in 1..nf : PathAt(t, d) = m.files[k].path /\ d[2] \in 1..m.files[k].records
    BY <1>6
  <2>3. d[1] = k
    BY <1>8, <2>2
  <2> QED BY <1>7, <2>1, <2>2, <2>3
<1> QED BY <1>9, <1>13, <1>14, <1>15

\* The records of a family by their keys.
LEMMA FamilySorts ==
  ASSUME NEW S \in SUBSET Records, IsFiniteSet(S), NEW f,
         \A x, y \in S : x.type = y.type /\ OrderParts(x) = OrderParts(y) => x = y
  PROVE  Sortable(OfType(S, f), [r \in OfType(S, f) |-> OrderParts(r)])
<1> DEFINE T == OfType(S, f)
           key == [r \in T |-> OrderParts(r)]
<1>1. T \in SUBSET S /\ IsFiniteSet(T) /\ \A x \in T : x \in Records /\ x.type = f /\ key[x] = OrderParts(x)
  <2>1. T \in SUBSET S
    BY DEF OfType
  <2> QED BY <2>1, FS_Subset DEF OfType
<1>2. CASE T = {}
  BY <1>1, <1>2 DEF Sortable
<1>3. CASE T # {}
  <2>1. PICK x \in T : TRUE
    BY <1>3
  <2>2. Width(f) \in Nat /\ \A y \in T : key[y] \in [1..Width(f) -> Int]
    BY <1>1, <2>1, PartsAreNumbers
  <2>3. \A y, z \in T : key[y] = key[z] => y = z
    BY <1>1
  <2>4. Sortable(T, key)
    <3> HIDE DEF T, key
    <3> QED BY <1>1, <2>2, <2>3, KeysSort
  <2> QED BY <2>4
<1> QED BY <1>2, <1>3 DEF T, key

LEMMA EndOrdered ==
  ASSUME NEW t, NEW m, NEW list, NEW es, NEW a, NEW S, NEW n, Finished(t, m, list, es, a, S, n), NEW f
  PROVE  LET c == Cardinality(OfType(S, f)) IN
         /\ c \in Nat /\ Ordered(S, f) \in [1..c -> OfType(S, f)]
         /\ \A i \in 1..c : Rank(S, Ordered(S, f)[i]) = i - 1
         /\ \A x, y \in OfType(S, f) : Rank(S, x) = Rank(S, y) => x = y
         /\ f \in Families => c = First(m, f, Len(m.files) + 1)
<1> DEFINE T == OfType(S, f)
           key == [r \in T |-> OrderParts(r)]
<1>1. S \in SUBSET Records /\ IsFiniteSet(S)
      /\ \A x, y \in S : x.type = y.type /\ OrderParts(x) = OrderParts(y) => x = y
  BY DEF Finished, RecordsKnown, Known, InOrder
<1>2. Sortable(T, key)
  BY <1>1, FamilySorts
<1>3. \A x \in T : key[x] = OrderParts(x) /\ x.type = f
  BY DEF OfType
<1>4. Ordered(S, f) = Arrange(T, key)
  BY DEF Ordered
<1>5. ASSUME NEW x \in T PROVE Rank(S, x) = Cardinality(Before(T, key, x))
  <2>1. {y \in OfType(S, x.type) : Less(OrderParts(y), OrderParts(x))} = {y \in T : Less(key[y], key[x])}
    BY <1>3
  <2> HIDE DEF T, key
  <2> QED BY <2>1 DEF Rank, Before
<1>6. f \in Families => Cardinality(T) = First(m, f, Len(m.files) + 1)
  <2> SUFFICES ASSUME f \in Families PROVE Cardinality(T) = First(m, f, Len(m.files) + 1)
    OBVIOUS
  <2>1. a.file = Len(m.files) + 1 /\ Placement(a, m, t, S, Places(t, n))
    <3>1. a.file = Len(m.files) + 1
      <4>1. FinishIssues(a, m, list, es) = {}
        BY DEF Finished
      <4> QED BY <4>1, NoIssue
    <3> QED BY <3>1 DEF Finished
  <2>2. Len(m.files) \in Nat /\ First(m, f, Len(m.files) + 1) \in Nat
    <3>1. IsManifest(m) /\ ManifestValid(m)
      BY EndManifest
    <3>2. Len(m.files) \in Nat
      BY <3>1, ManifestFiles
    <3>3. Len(m.files) + 1 \in 1..(Len(m.files) + 1)
      BY <3>2
    <3> QED BY <3>1, <3>2, <3>3, FirstOfNext
  <2>3. Cardinality(T) = First(m, f, a.file) + (IF a.file <= Len(m.files) /\ m.files[a.file].family = f THEN a.line ELSE 0)
    BY <2>1 DEF Placement
  <2>4. ~(a.file <= Len(m.files))
    BY <2>1, <2>2
  <2>5. Cardinality(T) = First(m, f, a.file) + 0
    BY <2>3, <2>4
  <2> HIDE DEF T
  <2> QED BY <2>1, <2>2, <2>5
<1> HIDE DEF T, key
<1>7. /\ Cardinality(T) \in Nat /\ Arrange(T, key) \in [1..Cardinality(T) -> T]
      /\ \A i \in 1..Cardinality(T) : Cardinality(Before(T, key, Arrange(T, key)[i])) = i - 1
  BY <1>2, Arranged
<1>8. \A x, y \in T : Cardinality(Before(T, key, x)) = Cardinality(Before(T, key, y)) => x = y
  <2>1. \A x \in T : Cardinality(Before(T, key, x)) \in Nat
    <3>1. \A x \in T : Cardinality(Before(T, key, x)) \in 0..(Cardinality(T) - 1)
      BY <1>2, Ranks
    <3> QED BY <1>7, <3>1
  <2>2. \A x, y \in T : Less(key[x], key[y]) => Cardinality(Before(T, key, x)) < Cardinality(Before(T, key, y))
    BY <1>2, Ranks
  <2> QED BY <1>2, <2>1, <2>2 DEF Sortable
<1>9. \A i \in 1..Cardinality(T) : Rank(S, Ordered(S, f)[i]) = i - 1
  BY <1>4, <1>5, <1>7
<1>10. \A x, y \in T : Rank(S, x) = Rank(S, y) => x = y
  BY <1>5, <1>8
<1>11. Cardinality(T) \in Nat /\ Ordered(S, f) \in [1..Cardinality(T) -> T]
  BY <1>4, <1>7
<1> QED BY <1>6, <1>9, <1>10, <1>11 DEF T

LEMMA EndSlices ==
  ASSUME NEW t, NEW m, NEW list, NEW es, NEW a, NEW S, NEW n, Finished(t, m, list, es, a, S, n),
         NEW k \in 1..Len(m.files)
  PROVE  LET f == m.files[k].family IN
         LinesAt(t, k) = SubSeq(Ordered(S, f), First(m, f, k) + 1, First(m, f, k) + m.files[k].records)
<1> DEFINE f == m.files[k].family
           c == Cardinality(OfType(S, f))
           p == First(m, f, k)
           q == m.files[k].records
           ls == LinesAt(t, k)
           o == Ordered(S, f)
<1>1. IsManifest(m) /\ ManifestValid(m)
  BY EndManifest
<1>2. Len(m.files) \in Nat /\ q \in Nat /\ f \in Families
  BY <1>1, ManifestFiles
<1>3. p \in Nat
  <2>1. k \in 1..(Len(m.files) + 1)
    BY <1>2
  <2> QED BY <1>1, <2>1, FirstOfNext
<1>4. Len(ls) = q /\ ls \in Seq(Records \cup [bad : STRING])
      /\ \A j \in 1..q : ls[j] \in OfType(S, f) /\ Rank(S, ls[j]) = p + j - 1
  BY EndShards
<1>5. /\ c \in Nat /\ o \in [1..c -> OfType(S, f)] /\ \A i \in 1..c : Rank(S, o[i]) = i - 1
      /\ \A x, y \in OfType(S, f) : Rank(S, x) = Rank(S, y) => x = y
  BY EndOrdered
<1>6. \A x \in OfType(S, f) : Rank(S, x) \in 0..(c - 1)
  <2> TAKE x \in OfType(S, f)
  <2> DEFINE T == OfType(S, f)
             key == [r \in T |-> OrderParts(r)]
  <2>1. Sortable(T, key)
    BY FamilySorts DEF Finished, RecordsKnown, Known, InOrder
  <2>2. Rank(S, x) = Cardinality(Before(T, key, x))
    <3>1. {y \in OfType(S, x.type) : Less(OrderParts(y), OrderParts(x))} = {y \in T : Less(key[y], key[x])}
      BY DEF OfType
    <3> HIDE DEF T, key
    <3> QED BY <3>1 DEF Rank, Before
  <2> HIDE DEF T, key
  <2>3. \A y \in T : Cardinality(Before(T, key, y)) \in 0..(Cardinality(T) - 1)
    BY <2>1, Ranks
  <2> QED BY <2>2, <2>3 DEF T
<1>7. ASSUME NEW j \in 1..q PROVE p + j \in 1..c /\ ls[j] = o[p + j]
  <2>1. p + j - 1 \in 0..(c - 1)
    BY <1>4, <1>6
  <2>2. p + j \in 1..c
    <3> HIDE DEF p, c, q
    <3> QED BY <1>2, <1>3, <1>5, <2>1
  <2>3. Rank(S, o[p + j]) = p + j - 1 /\ o[p + j] \in OfType(S, f)
    <3> HIDE DEF p, c, q, o
    <3> DEFINE i == p + j
    <3>1. i \in 1..c
      BY <2>2
    <3> HIDE DEF i
    <3>2. Rank(S, o[i]) = i - 1 /\ o[i] \in OfType(S, f)
      BY <1>5, <3>1
    <3>3. i - 1 = p + j - 1
      BY <1>2, <1>3 DEF i
    <3> HIDE DEF f
    <3>4. Rank(S, o[i]) = p + j - 1 /\ o[i] \in OfType(S, f)
      BY <3>2, <3>3
    <3> QED BY <3>4 DEF i
  <2> QED BY <1>4, <1>5, <2>2, <2>3
<1> HIDE DEF p, q, c, o, ls, f
<1>8. o \in Seq(OfType(S, f)) /\ Len(o) = c
  BY <1>5
<1>9. ls = [j \in 1..q |-> ls[j]]
  <2> DEFINE X == Records \cup [bad : STRING]
  <2>1. ls \in Seq(X)
    BY <1>4
  <2> HIDE DEF X
  <2> QED BY <1>4, <2>1
<1>10. SubSeq(o, p + 1, p + q) = [j \in 1..q |-> o[p + j]]
  <2>1. SubSeq(o, p + 1, p + q) = [j \in 1..((p + q) - (p + 1) + 1) |-> o[j + (p + 1) - 1]]
    BY <1>2, <1>3, <1>7, <1>8
  <2>2. (p + q) - (p + 1) + 1 = q
    BY <1>2, <1>3
  <2>3. \A j \in 1..q : j + (p + 1) - 1 = p + j
    BY <1>2, <1>3
  <2> QED BY <2>1, <2>2, <2>3
<1>11. ls = SubSeq(o, p + 1, p + q)
  BY <1>7, <1>9, <1>10
<1> QED BY <1>11 DEF p, q, o, ls, f
-----------------------------------------------------------------------------
(* The shards of a family, in their order.                                 *)

Image(o, j) == {o[i] : i \in 1..j}

LEMMA SumReindexed ==
  ASSUME NEW c \in Nat, NEW o, \A i, j \in 1..c : o[i] = o[j] => i = j,
         NEW g, NEW z, \A i \in 1..c : g[o[i]] \in Int /\ z[i] = g[o[i]]
  PROVE  \A j \in 0..c : SumFunctionOnSet(z, 1..j) = SumFunctionOnSet(g, Image(o, j))
<1> DEFINE U(j) == {o[i] : i \in 1..j}
           P == {j \in Nat : j > c \/ (IsFiniteSet(U(j)) /\ SumFunctionOnSet(z, 1..j) = SumFunctionOnSet(g, U(j)))}
<1>1. 0 \in P
  <2>1. U(0) = {} /\ 1..0 = {}
    OBVIOUS
  <2>2. SumFunctionOnSet(z, {}) = 0 /\ SumFunctionOnSet(g, {}) = 0 /\ IsFiniteSet({})
    BY SumOfNone, FS_EmptySet
  <2> HIDE DEF U
  <2> QED BY <2>1, <2>2
<1>2. ASSUME NEW j \in P PROVE j + 1 \in P
  <2>1. CASE j + 1 > c
    BY <2>1
  <2>2. CASE j + 1 <= c
    <3>1. j \in Nat /\ j + 1 \in 1..c /\ IsFiniteSet(U(j)) /\ SumFunctionOnSet(z, 1..j) = SumFunctionOnSet(g, U(j))
      <4> HIDE DEF U
      <4> QED BY <2>2
    <3>2. 1..(j + 1) = (1..j) \union {j + 1} /\ j + 1 \notin 1..j
      BY <3>1
    <3>3. U(j + 1) = U(j) \union {o[j + 1]}
      BY <3>2
    <3>4. o[j + 1] \notin U(j)
      BY <3>1, <3>2
    <3>5. (\A y \in (1..j) \union {j + 1} : z[y] \in Int) /\ IsFiniteSet(1..j)
      <4>1. \A y \in (1..j) \union {j + 1} : y \in 1..c
        BY <3>1
      <4>2. IsFiniteSet(1..j)
        BY <3>1, FS_Interval
      <4> QED BY <4>1, <4>2
    <3>6. \A y \in U(j) \union {o[j + 1]} : g[y] \in Int
      BY <3>1
    <3> DEFINE V == 1..j
               v == j + 1
               W == U(j)
               x == o[j + 1]
    <3>7. SumFunctionOnSet(z, V \union {v}) = SumFunctionOnSet(z, V) + z[v]
      <4>1. IsFiniteSet(V) /\ v \notin V /\ \A y \in V \union {v} : z[y] \in Int
        BY <3>2, <3>5
      <4> HIDE DEF V, v, P, U
      <4> QED BY <4>1, SumAdd
    <3>8. SumFunctionOnSet(g, W \union {x}) = SumFunctionOnSet(g, W) + g[x]
      <4>1. IsFiniteSet(W) /\ x \notin W /\ \A y \in W \union {x} : g[y] \in Int
        BY <3>1, <3>4, <3>6
      <4> HIDE DEF W, x, P, U
      <4> QED BY <4>1, SumAdd
    <3>9. z[j + 1] = g[x]
      BY <3>1
    <3>10. SumFunctionOnSet(z, 1..(j + 1)) = SumFunctionOnSet(g, U(j + 1))
      <4> HIDE DEF U
      <4> QED BY <3>1, <3>2, <3>3, <3>7, <3>8, <3>9
    <3>11. IsFiniteSet(U(j + 1))
      <4> HIDE DEF U
      <4> QED BY <3>1, <3>3, FS_AddElement
    <3> HIDE DEF U, V, W, x
    <3> QED BY <3>1, <3>10, <3>11
  <2> QED BY <2>1, <2>2
<1>3. P = Nat
  <2> HIDE DEF P
  <2>1. P \in SUBSET Nat
    BY DEF P
  <2> QED BY <1>1, <1>2, <2>1, NatSet
<1> HIDE DEF U
<1>4. \A j \in 0..c : SumFunctionOnSet(z, 1..j) = SumFunctionOnSet(g, U(j))
  BY <1>3
<1> QED BY <1>4 DEF U, Image

LEMMA LessOfOne == ASSUME NEW x, NEW y PROVE Less(<<x>>, <<y>>) <=> x < y
<1>1. Len(<<x>>) = 1 /\ <<x>>[1] = x /\ <<y>>[1] = y
  OBVIOUS
<1> DEFINE a == <<x>>
           b == <<y>>
<1> HIDE DEF a, b
<1>2. 1..Len(a) = {1} /\ a[1] = x /\ b[1] = y
  BY <1>1 DEF a, b
<1>3. Less(a, b) <=> a[1] < b[1]
  <2>1. \A j \in 1..(1 - 1) : a[j] = b[j]
    OBVIOUS
  <2> QED BY <1>2, <2>1 DEF Less
<1> QED BY <1>2, <1>3 DEF a, b

LEMMA Ascends ==
  ASSUME NEW I \in SUBSET Int, IsFiniteSet(I)
  PROVE  LET o == Ascending(I)
             c == Cardinality(I) IN
         /\ c \in Nat /\ o \in [1..c -> I]
         /\ \A i, j \in 1..c : i < j => o[i] < o[j]
         /\ \A j \in 1..c : Cardinality({y \in I : y < o[j]}) = j - 1
         /\ \A x \in I : \E j \in 1..c : o[j] = x
         /\ \A s : At(s, I) = [j \in 1..c |-> s[o[j]]]
<1> DEFINE key == [x \in I |-> <<x>>]
           o == Ascending(I)
           c == Cardinality(I)
<1>1. \A x, y \in I : Less(key[x], key[y]) <=> x < y
  <2> TAKE x \in I, y \in I
  <2>1. key[x] = <<x>> /\ key[y] = <<y>>
    OBVIOUS
  <2>2. Less(<<x>>, <<y>>) <=> x < y
    BY LessOfOne
  <2> QED BY <2>1, <2>2
<1>2. Sortable(I, key)
  <2>1. \A x \in I : key[x] \in [1..1 -> Int]
    OBVIOUS
  <2>2. \A x, y \in I : key[x] = key[y] => x = y
    OBVIOUS
  <2> HIDE DEF key
  <2> QED BY <2>1, <2>2, KeysSort
<1>3. o = Arrange(I, key)
  BY DEF Ascending
<1> HIDE DEF key, o
<1>4. /\ c \in Nat /\ o \in [1..c -> I]
      /\ \A i \in 1..c : Cardinality(Before(I, key, o[i])) = i - 1
      /\ \A i, j \in 1..c : i < j => Less(key[o[i]], key[o[j]])
      /\ \A x \in I : \E i \in 1..c : o[i] = x
  <2> DEFINE s == Arrange(I, key)
  <2>1. /\ Cardinality(I) \in Nat
        /\ s \in [1..Cardinality(I) -> I]
        /\ \A i \in 1..Cardinality(I) : Cardinality(Before(I, key, s[i])) = i - 1
        /\ \A i, j \in 1..Cardinality(I) : i < j => Less(key[s[i]], key[s[j]])
        /\ \A x \in I : \E i \in 1..Cardinality(I) : s[i] = x
    BY <1>2, Arranged
  <2> HIDE DEF s
  <2>2. o = s
    BY <1>3 DEF s
  <2> QED BY <2>1, <2>2
<1>5. \A i, j \in 1..c : i < j => o[i] < o[j]
  BY <1>1, <1>4
<1>6. \A j \in 1..c : Cardinality({y \in I : y < o[j]}) = j - 1
  <2> TAKE j \in 1..c
  <2>1. o[j] \in I
    BY <1>4
  <2>2. {y \in I : y < o[j]} = Before(I, key, o[j])
    BY <1>1, <2>1 DEF Before
  <2> QED BY <1>4, <2>2
<1>7. \A s : At(s, I) = [j \in 1..c |-> s[o[j]]]
  <2> TAKE s
  <2>1. DOMAIN o = 1..c
    BY <1>4
  <2> HIDE <1>4
  <2> QED BY <2>1 DEF At, o
<1> HIDE DEF c
<1> QED BY <1>4, <1>5, <1>6, <1>7 DEF o, c

LEMMA AscendsInterval ==
  ASSUME NEW n \in Nat PROVE Ascending(1..n) = [i \in 1..n |-> i] /\ \A s : At(s, 1..n) = [i \in 1..n |-> s[i]]
<1> DEFINE I == 1..n
           key == [x \in I |-> <<x>>]
           s == [i \in 1..n |-> i]
<1>1. \A x, y \in I : Less(key[x], key[y]) <=> x < y
  <2> TAKE x \in I, y \in I
  <2>1. key[x] = <<x>> /\ key[y] = <<y>>
    OBVIOUS
  <2>2. Less(<<x>>, <<y>>) <=> x < y
    BY LessOfOne
  <2> QED BY <2>1, <2>2
<1>2. Sortable(I, key)
  <2>1. \A x \in I : key[x] \in [1..1 -> Int]
    OBVIOUS
  <2>2. \A x, y \in I : key[x] = key[y] => x = y
    OBVIOUS
  <2>3. IsFiniteSet(I)
    BY FS_Interval
  <2> HIDE DEF key, I
  <2> QED BY <2>1, <2>2, <2>3, KeysSort
<1>3. s \in [1..n -> I] /\ (\A i, j \in 1..n : i < j => Less(key[s[i]], key[s[j]]))
      /\ \A x \in I : \E i \in 1..n : s[i] = x
  <2> HIDE DEF key
  <2> QED BY <1>1
<1>4. s = Arrange(I, key)
  <2> HIDE DEF s, I, key
  <2> QED BY <1>2, <1>3, ArrangeIs
<1>5. Ascending(1..n) = s
  BY <1>4 DEF Ascending
<1>6. ASSUME NEW u PROVE At(u, 1..n) = [i \in 1..n |-> u[i]]
  <2>1. At(u, 1..n) = [i \in DOMAIN s |-> u[s[i]]]
    <3> HIDE DEF s
    <3> QED BY <1>5 DEF At
  <2> QED BY <2>1
<1> QED BY <1>5, <1>6

FilesOf(m, f) == {i \in DOMAIN m.files : m.files[i].family = f}
SizesOf(m) ==
    [f \in Families |-> [i \in DOMAIN At(m.files, FilesOf(m, f)) |-> At(m.files, FilesOf(m, f))[i].records]]

\* The shards of a family are numbered from zero, and those before the j-th hold
\* as many records as the manifest says.
LEMMA OwnShards ==
  ASSUME NEW m, IsManifest(m), ManifestValid(m), NEW f \in Families
  PROVE  LET c == Cardinality(FilesOf(m, f))
             z == SizesOf(m)[f] IN
         /\ c \in Nat /\ DOMAIN z = 1..c
         /\ \A k \in FilesOf(m, f) :
              /\ m.files[k].shard + 1 \in 1..c /\ z[m.files[k].shard + 1] = m.files[k].records
              /\ SumFunctionOnSet(z, 1..m.files[k].shard) = First(m, f, k)
         /\ \A j \in 1..c : \E k \in FilesOf(m, f) : m.files[k].shard = j - 1
         /\ Total(z) = First(m, f, Len(m.files) + 1)
<1> DEFINE I == FilesOf(m, f)
           o == Ascending(I)
           c == Cardinality(I)
           z == SizesOf(m)[f]
           nf == Len(m.files)
<1>1. nf \in Nat /\ DOMAIN m.files = 1..nf /\ \A k \in 1..nf : m.files[k].records \in Nat
  BY ManifestFiles
<1>2. I \in SUBSET (1..nf) /\ I \in SUBSET Int /\ IsFiniteSet(I)
  <2>1. I \in SUBSET (1..nf) /\ IsFiniteSet(1..nf)
    BY <1>1, FS_Interval DEF FilesOf
  <2> QED BY <1>1, <2>1, FS_Subset
<1>3. /\ c \in Nat /\ o \in [1..c -> I]
      /\ \A i, j \in 1..c : i < j => o[i] < o[j]
      /\ \A j \in 1..c : Cardinality({y \in I : y < o[j]}) = j - 1
      /\ \A x \in I : \E j \in 1..c : o[j] = x
      /\ At(m.files, I) = [j \in 1..c |-> m.files[o[j]]]
  <2> HIDE DEF I
  <2> QED BY <1>2, Ascends
<1>4. z = [j \in 1..c |-> m.files[o[j]].records]
  <2>1. DOMAIN At(m.files, I) = 1..c /\ \A j \in 1..c : At(m.files, I)[j] = m.files[o[j]]
    <3> HIDE DEF I, o, c
    <3> QED BY <1>3
  <2>2. z = [i \in DOMAIN At(m.files, I) |-> At(m.files, I)[i].records]
    BY DEF SizesOf
  <2> HIDE DEF z, I, o, c
  <2> QED BY <2>1, <2>2
<1>5. ASSUME NEW k \in I PROVE {y \in I : y < k} = {j \in 1..(k - 1) : m.files[j].family = f}
  BY <1>1, <1>2 DEF FilesOf
<1>6. \A k \in 1..nf : m.files[k].shard = Cardinality({j \in 1..(k - 1) : m.files[j].family = m.files[k].family})
  BY <1>1 DEF ManifestValid
<1>7. ASSUME NEW k \in I PROVE m.files[k].shard = Cardinality({y \in I : y < k})
  <2>1. k \in 1..nf /\ m.files[k].family = f
    BY <1>2 DEF FilesOf
  <2> QED BY <1>5, <1>6, <2>1
<1>8. \A j \in 1..c : o[j] \in I /\ m.files[o[j]].shard = j - 1
  <2> HIDE DEF I, o, c
  <2> QED BY <1>3, <1>7
<1>9. \A k \in I : \E j \in 1..c : o[j] = k /\ m.files[k].shard = j - 1
  <2> HIDE DEF I, o, c
  <2> QED BY <1>3, <1>8
<1>10. \A j \in 0..c : SumFunctionOnSet(z, 1..j) = SumFunctionOnSet(Sizes(m), Image(o, j))
  <2>1. \A i, j \in 1..c : o[i] = o[j] => i = j
    <3> TAKE i \in 1..c, j \in 1..c
    <3>1. i \in Int /\ j \in Int /\ o[i] \in Int /\ o[j] \in Int
      <4>1. o[i] \in I /\ o[j] \in I /\ c \in Nat
        <5> HIDE DEF I, o, c
        <5> QED BY <1>3
      <4> HIDE DEF I, o, c
      <4>2. o[i] \in Int /\ o[j] \in Int
        BY <1>2, <4>1, Zenon
      <4>3. i \in Int /\ j \in Int
        BY <4>1
      <4> QED BY <4>2, <4>3
    <3> HIDE DEF I, o, c
    <3> QED BY <1>3, <3>1
  <2>2. \A i \in 1..c : Sizes(m)[o[i]] \in Int /\ z[i] = Sizes(m)[o[i]]
    <3> TAKE i \in 1..c
    <3>1. o[i] \in 1..nf
      <4> HIDE DEF I, o
      <4> QED BY <1>2, <1>3
    <3>2. Sizes(m)[o[i]] = m.files[o[i]].records
      <4> HIDE DEF o
      <4> QED BY <1>1, <3>1 DEF Sizes
    <3> HIDE DEF I, o, c, z
    <3> QED BY <1>1, <1>4, <3>1, <3>2
  <2> DEFINE F == Sizes(m)
  <2>3. \A i \in 1..c : F[o[i]] \in Int /\ z[i] = F[o[i]]
    BY <2>2
  <2> HIDE DEF I, o, c, z, F
  <2>4. c \in Nat
    BY <1>3
  <2>5. \A j \in 0..c : SumFunctionOnSet(z, 1..j) = SumFunctionOnSet(F, Image(o, j))
    BY <2>1, <2>3, <2>4, SumReindexed
  <2> QED BY <2>5 DEF F
<1>11. ASSUME NEW j \in 1..c PROVE FilesBefore(m, f, o[j]) = Image(o, j - 1)
  <2>1. FilesBefore(m, f, o[j]) = {y \in I : y < o[j]}
    <3>1. o[j] \in I
      <4> HIDE DEF I, o, c
      <4> QED BY <1>3
    <3> HIDE DEF I, o
    <3> QED BY <1>5, <3>1 DEF FilesBefore
  <2>2. \A i \in 1..c : o[i] \in I /\ o[i] \in Int /\ i \in Int
    <3> HIDE DEF I, o, c
    <3>1. c \in Nat /\ \A i \in 1..c : o[i] \in I
      BY <1>3
    <3>2. \A i \in 1..c : o[i] \in Int
      BY <1>2, <3>1, Zenon
    <3>3. \A i \in 1..c : i \in Int
      BY <3>1
    <3> QED BY <3>1, <3>2, <3>3
  <2> HIDE DEF I, o
  <2>3. \A i \in 1..c : o[i] < o[j] <=> i < j
    BY <1>3, <2>2 DEF c
  <2>4. \A i \in 1..(j - 1) : i \in 1..c /\ i < j
    <3> HIDE DEF c
    <3> QED BY <1>3
  <2>5. {y \in I : y < o[j]} = {o[i] : i \in 1..(j - 1)}
    <3> HIDE DEF c
    <3>1. ASSUME NEW y \in I, y < o[j] PROVE y \in {o[i] : i \in 1..(j - 1)}
      <4>1. PICK i \in 1..c : o[i] = y
        BY <1>3
      <4>2. i < j
        BY <2>3, <3>1, <4>1
      <4>3. i \in 1..(j - 1)
        BY <1>3, <4>1, <4>2
      <4> QED BY <4>1, <4>3
    <3>2. ASSUME NEW i \in 1..(j - 1) PROVE o[i] \in I /\ o[i] < o[j]
      BY <2>2, <2>3, <2>4
    <3> QED BY <3>1, <3>2
  <2> QED BY <2>1, <2>5 DEF Image
<1>12. FilesBefore(m, f, nf + 1) = Image(o, c)
  <2>1. FilesBefore(m, f, nf + 1) = I
    BY <1>1 DEF FilesBefore, FilesOf
  <2> HIDE DEF I, o, c
  <2> QED BY <1>3, <2>1 DEF Image
<1>13. ASSUME NEW k \in I
       PROVE  /\ m.files[k].shard + 1 \in 1..c /\ z[m.files[k].shard + 1] = m.files[k].records
              /\ SumFunctionOnSet(z, 1..m.files[k].shard) = First(m, f, k)
  <2>1. PICK j \in 1..c : o[j] = k /\ m.files[k].shard = j - 1
    <3> HIDE DEF I, o, c
    <3> QED BY <1>9
  <2> HIDE DEF I, o, c, z
  <2>2. m.files[k].shard + 1 = j /\ j - 1 \in 0..c
    BY <1>3, <2>1
  <2>3. SumFunctionOnSet(z, 1..(j - 1)) = SumFunctionOnSet(Sizes(m), FilesBefore(m, f, k))
    BY <1>10, <1>11, <2>1, <2>2
  <2> QED BY <1>4, <2>1, <2>2, <2>3 DEF First
<1>14. Total(z) = First(m, f, nf + 1)
  <2>1. DOMAIN z = 1..c
    <3> HIDE DEF I, o, c, z
    <3> QED BY <1>4
  <2>2. Total(z) = SumFunctionOnSet(z, 1..c)
    <3> HIDE DEF z, c
    <3> QED BY <2>1 DEF Total, SumFunction, SumFunctionOnSet, FoldFunction
  <2>3. c \in 0..c
    BY <1>3
  <2> HIDE DEF I, o, c, z
  <2> QED BY <1>10, <1>12, <2>2, <2>3 DEF First
<1>15. DOMAIN z = 1..c
  <2> HIDE DEF I, o, c, z
  <2> QED BY <1>4
<1>16. \A j \in 1..c : \E k \in I : m.files[k].shard = j - 1
  <2> HIDE DEF I, o, c, z
  <2> QED BY <1>8
<1> HIDE DEF o, z
<1> QED BY <1>3, <1>13, <1>14, <1>15, <1>16 DEF z
-----------------------------------------------------------------------------
(* The entries of a finished container are the payload of its records.     *)

PayloadAt(t, n) == [i \in 1..n |-> Entry(t[i + 2].path, t[i + 2].body)]

LEMMA FamilyNumbers ==
  ASSUME NEW f \in Families, NEW g \in Families, FamilyIndex(f) = FamilyIndex(g) PROVE f = g
BY FamilyNames

LEMMA FilesAscend ==
  ASSUME NEW m, IsManifest(m), ManifestValid(m), NEW i \in 1..Len(m.files), NEW j \in 1..Len(m.files), i < j
  PROVE  \/ FamilyIndex(m.files[i].family) < FamilyIndex(m.files[j].family)
         \/ m.files[i].family = m.files[j].family /\ m.files[i].shard < m.files[j].shard
<1> DEFINE nf == Len(m.files)
           F(k) == FamilyIndex(m.files[k].family)
           P == {d \in Nat : \A k \in 1..nf : k + d <= nf => F(k) <= F(k + d)}
<1>1. nf \in Nat /\ DOMAIN m.files = 1..nf /\ \A k \in 1..nf : m.files[k].family \in Families /\ F(k) \in Nat
  <2>1. nf \in Nat /\ DOMAIN m.files = 1..nf /\ \A k \in 1..nf : m.files[k].family \in Families
    BY ManifestFiles
  <2>2. \A k \in 1..nf : F(k) \in 1..6
    BY <2>1, FamilyNames
  <2> HIDE DEF F
  <2> QED BY <2>1, <2>2
<1>2. \A k \in 1..nf : k > 1 => F(k - 1) <= F(k)
  <2> TAKE k \in 1..nf
  <2> SUFFICES ASSUME k > 1 PROVE F(k - 1) <= F(k)
    OBVIOUS
  <2>1. F(k - 1) < F(k) \/ m.files[k - 1].family = m.files[k].family
    BY <1>1 DEF ManifestValid
  <2>2. k - 1 \in 1..nf
    BY <1>1
  <2>3. F(k - 1) \in Nat /\ F(k) \in Nat
    BY <1>1, <2>2
  <2> QED BY <2>1, <2>3
<1> HIDE DEF F
<1>3. 0 \in P
  <2>1. \A k \in 1..nf : k + 0 = k
    OBVIOUS
  <2> QED BY <1>1, <2>1
<1>4. ASSUME NEW d \in P PROVE d + 1 \in P
  <2> SUFFICES ASSUME NEW k \in 1..nf, k + (d + 1) <= nf PROVE F(k) <= F(k + (d + 1))
    OBVIOUS
  <2>1. k + d <= nf /\ k + d \in 1..nf /\ k + (d + 1) \in 1..nf /\ (k + (d + 1)) - 1 = k + d /\ k + (d + 1) > 1
    BY <1>1
  <2>2. F(k) <= F(k + d)
    BY <2>1
  <2>3. F(k + d) <= F(k + (d + 1))
    BY <1>2, <2>1
  <2> QED BY <1>1, <2>1, <2>2, <2>3
<1>5. P = Nat
  <2> HIDE DEF P
  <2>1. P \in SUBSET Nat
    BY DEF P
  <2> QED BY <1>3, <1>4, <2>1, NatSet
<1>6. F(i) <= F(j)
  <2>0. j - i \in Nat /\ i + (j - i) = j
    BY <1>1
  <2>1. j - i \in P
    <3> HIDE DEF P
    <3> QED BY <1>5, <2>0
  <2>2. F(i) <= F(i + (j - i))
    BY <1>1, <2>0, <2>1
  <2> QED BY <2>0, <2>2
<1>7. CASE m.files[i].family = m.files[j].family
  <2> DEFINE A == {y \in 1..(i - 1) : m.files[y].family = m.files[i].family}
             B == {y \in 1..(j - 1) : m.files[y].family = m.files[i].family}
  <2>1. m.files[i].shard = Cardinality(A) /\ m.files[j].shard = Cardinality(B)
    <3>1. \A k \in 1..nf :
            m.files[k].shard = Cardinality({y \in 1..(k - 1) : m.files[y].family = m.files[k].family})
      BY <1>1 DEF ManifestValid
    <3> QED BY <1>7, <3>1
  <2>2. A \in SUBSET (B \ {i}) /\ i \in B
    BY <1>1
  <2>3. IsFiniteSet(B)
    <3>1. IsFiniteSet(1..(j - 1)) /\ B \in SUBSET (1..(j - 1))
      BY <1>1, FS_Interval
    <3> QED BY <3>1, FS_Subset
  <2> HIDE DEF A, B
  <2>4. IsFiniteSet(B \ {i}) /\ Cardinality(B \ {i}) = Cardinality(B) - 1 /\ Cardinality(B) \in Nat
    BY <2>2, <2>3, FS_RemoveElement, FS_CardinalityType
  <2>5. Cardinality(A) <= Cardinality(B \ {i}) /\ Cardinality(A) \in Nat
    BY <2>2, <2>4, FS_Subset, FS_CardinalityType
  <2>6. Cardinality(A) < Cardinality(B)
    BY <2>4, <2>5
  <2> QED BY <1>7, <2>1, <2>6
<1>8. CASE m.files[i].family # m.files[j].family
  <2>1. F(i) # F(j)
    BY <1>1, <1>8, FamilyNumbers DEF F
  <2>2. F(i) < F(j)
    BY <1>1, <1>6, <2>1
  <2> QED BY <2>2 DEF F
<1> QED BY <1>7, <1>8

LEMMA LessOfThree ==
  ASSUME NEW a \in Int, NEW b \in Int, NEW c \in Int, NEW d \in Int, NEW e \in Int, NEW g \in Int,
         a < d \/ (a = d /\ b < e) \/ (a = d /\ b = e /\ c < g)
  PROVE  Less(<<a, b, c>>, <<d, e, g>>)
<1> DEFINE p == <<a, b, c>>
           q == <<d, e, g>>
<1>1. /\ 1..Len(p) = {1, 2, 3} /\ p[1] = a /\ p[2] = b /\ p[3] = c /\ q[1] = d /\ q[2] = e /\ q[3] = g
  OBVIOUS
<1> HIDE DEF p, q
<1>2. CASE a < d
  <2>1. \A j \in 1..(1 - 1) : p[j] = q[j]
    OBVIOUS
  <2> QED BY <1>1, <1>2, <2>1 DEF Less, p, q
<1>3. CASE a = d /\ b < e
  <2>1. \A j \in 1..(2 - 1) : j = 1
    OBVIOUS
  <2> QED BY <1>1, <1>3, <2>1 DEF Less, p, q
<1>4. CASE a = d /\ b = e /\ c < g
  <2>1. \A j \in 1..(3 - 1) : j = 1 \/ j = 2
    OBVIOUS
  <2> QED BY <1>1, <1>4, <2>1 DEF Less, p, q
<1> QED BY <1>2, <1>3, <1>4

\* The keys of the entries.
LEMMA EndParts ==
  ASSUME NEW t, NEW m, NEW list, NEW es, NEW a, NEW S, NEW n, Finished(t, m, list, es, a, S, n)
  PROVE  LET pl == PayloadAt(t, n) IN
         /\ \A i \in 1..Len(m.files) :
              /\ pl[i].path = m.files[i].path /\ pl[i].path.kind = "data" /\ pl[i].path.family = m.files[i].family
              /\ PayloadParts(pl[i]) = <<0, FamilyIndex(m.files[i].family), m.files[i].shard>>
         /\ \A i \in (Len(m.files) + 1)..n :
              /\ pl[i] = Entry(BlobPath(t[i + 2].path.hash), Blob(t[i + 2].path.hash)) /\ pl[i].path.kind = "blob"
              /\ PayloadParts(pl[i]) = <<1, BlobNumber(t[i + 2].path.hash), 0>>
         /\ \A i \in 1..n : PayloadParts(pl[i]) \in [1..3 -> Int]
         /\ \A i, j \in 1..n : i < j => Less(PayloadParts(pl[i]), PayloadParts(pl[j]))
<1> DEFINE pl == PayloadAt(t, n)
           nf == Len(m.files)
           H(i) == BlobNumber(t[i + 2].path.hash)
           F(i) == FamilyIndex(m.files[i].family)
           G(i) == m.files[i].shard
<1>1. n \in Nat /\ IsManifest(m) /\ ManifestValid(m)
  BY EndManifest
<1>2. /\ nf \in Nat
      /\ \A k \in 1..nf : /\ m.files[k].path = ShardPath(m.files[k].family, m.files[k].shard)
                          /\ m.files[k].family \in Families /\ G(k) \in Nat
  BY <1>1, ManifestFiles
<1>3. /\ nf \in 0..n
      /\ \A i \in 1..nf : t[i + 2].path = m.files[i].path
      /\ \A i \in (nf + 1)..n :
           LET h == t[i + 2].path.hash IN h \in Hashes /\ t[i + 2].path = BlobPath(h) /\ t[i + 2].body = Blob(h)
      /\ \A i, j \in (nf + 1)..n : i < j => H(i) < H(j)
  BY EndPaths
<1>4. \A i \in 1..n : pl[i].path = t[i + 2].path /\ pl[i] = Entry(t[i + 2].path, t[i + 2].body)
  BY DEF PayloadAt, Entry
<1> HIDE DEF pl
<1>5. (\A i \in 1..nf : i \in 1..n) /\ (\A i \in (nf + 1)..n : i \in 1..n)
      /\ \A i \in 1..n : i \in 1..nf \/ i \in (nf + 1)..n
  BY <1>1, <1>2, <1>3
<1>6. ASSUME NEW i \in 1..nf
      PROVE  /\ pl[i].path = m.files[i].path /\ pl[i].path.kind = "data" /\ pl[i].path.family = m.files[i].family
             /\ PayloadParts(pl[i]) = <<0, F(i), G(i)>> /\ F(i) \in Int /\ G(i) \in Int
  <2>1. pl[i].path = ShardPath(m.files[i].family, m.files[i].shard) /\ pl[i].path = m.files[i].path
    BY <1>2, <1>3, <1>4, <1>5
  <2>2. pl[i].path.kind = "data" /\ pl[i].path.family = m.files[i].family /\ pl[i].path.shard = m.files[i].shard
    BY <2>1 DEF ShardPath
  <2>3. F(i) \in 1..6
    BY <1>2, FamilyNames
  <2>4. PayloadParts(pl[i]) = <<0, F(i), G(i)>>
    BY <2>2 DEF PayloadParts
  <2>5. F(i) \in Int /\ G(i) \in Int
    <3> HIDE DEF F
    <3> QED BY <1>2, <2>3
  <2> QED BY <2>1, <2>2, <2>4, <2>5
<1>7. ASSUME NEW i \in (nf + 1)..n
      PROVE  /\ pl[i] = Entry(BlobPath(t[i + 2].path.hash), Blob(t[i + 2].path.hash)) /\ pl[i].path.kind = "blob"
             /\ PayloadParts(pl[i]) = <<1, H(i), 0>> /\ H(i) \in Int
  <2> DEFINE h == t[i + 2].path.hash
  <2>1. h \in Hashes /\ t[i + 2].path = BlobPath(h) /\ t[i + 2].body = Blob(h) /\ i \in 1..n
    BY <1>3, <1>5
  <2> HIDE DEF h
  <2>2. pl[i] = Entry(BlobPath(h), Blob(h)) /\ pl[i].path = BlobPath(h)
    BY <1>4, <2>1
  <2>3. PathParts(BlobPath(h)) = <<0, BlobNumber(h), 0>> /\ BlobPath(h).kind = "blob"
    BY BlobParts
  <2>4. PathParts(pl[i].path)[2] = BlobNumber(h) /\ pl[i].path.kind = "blob"
    BY <2>2, <2>3
  <2>5. PayloadParts(pl[i]) = <<1, BlobNumber(h), 0>>
    BY <2>4 DEF PayloadParts
  <2>6. BlobNumber(h) \in Int
    <3>1. BlobNumber(h) \in Nat
      BY <2>1, BlobsHaveNumbers
    <3> QED BY <3>1
  <2> QED BY <2>2, <2>4, <2>5, <2>6 DEF h
<1>8. ASSUME NEW i \in 1..n PROVE PayloadParts(pl[i]) \in [1..3 -> Int]
  <2>1. CASE i \in 1..nf
    <3>1. PayloadParts(pl[i]) = <<0, F(i), G(i)>> /\ F(i) \in Int /\ G(i) \in Int
      BY <1>6, <2>1
    <3> HIDE DEF F, G
    <3> QED BY <3>1
  <2>2. CASE i \in (nf + 1)..n
    <3>1. PayloadParts(pl[i]) = <<1, H(i), 0>> /\ H(i) \in Int
      BY <1>7, <2>2
    <3> HIDE DEF H
    <3> QED BY <3>1
  <2> QED BY <1>5, <2>1, <2>2
<1>9. ASSUME NEW i \in 1..n, NEW j \in 1..n, i < j PROVE Less(PayloadParts(pl[i]), PayloadParts(pl[j]))
  <2>1. CASE i \in 1..nf /\ j \in 1..nf
    <3>1. F(i) < F(j) \/ (F(i) = F(j) /\ G(i) < G(j))
      BY <1>1, <1>9, <2>1, FilesAscend
    <3>2. /\ PayloadParts(pl[i]) = <<0, F(i), G(i)>> /\ F(i) \in Int /\ G(i) \in Int
          /\ PayloadParts(pl[j]) = <<0, F(j), G(j)>> /\ F(j) \in Int /\ G(j) \in Int
      BY <1>6, <2>1
    <3> HIDE DEF F, G
    <3> QED BY <3>1, <3>2, LessOfThree
  <2>2. CASE i \in 1..nf /\ j \in (nf + 1)..n
    <3>1. /\ PayloadParts(pl[i]) = <<0, F(i), G(i)>> /\ F(i) \in Int /\ G(i) \in Int
          /\ PayloadParts(pl[j]) = <<1, H(j), 0>> /\ H(j) \in Int
      BY <1>6, <1>7, <2>2
    <3> HIDE DEF F, G, H
    <3> QED BY <3>1, LessOfThree
  <2>3. CASE i \in (nf + 1)..n /\ j \in (nf + 1)..n
    <3>1. /\ PayloadParts(pl[i]) = <<1, H(i), 0>> /\ H(i) \in Int
          /\ PayloadParts(pl[j]) = <<1, H(j), 0>> /\ H(j) \in Int
      BY <1>7, <2>3
    <3>2. H(i) < H(j)
      BY <1>3, <1>9, <2>3
    <3> HIDE DEF H
    <3> QED BY <3>1, <3>2, LessOfThree
  <2>4. ~(i \in (nf + 1)..n /\ j \in 1..nf)
    BY <1>1, <1>2, <1>9
  <2> QED BY <1>5, <2>1, <2>2, <2>3, <2>4
<1> QED BY <1>6, <1>7, <1>8, <1>9 DEF pl

LEMMA ShardEntries ==
  ASSUME NEW t, NEW m, NEW list, NEW es, NEW a, NEW S, NEW n, Finished(t, m, list, es, a, S, n),
         NEW f \in Families
  PROVE  ToSet(Shards(f, Ordered(S, f), SizesOf(m)[f])) = {PayloadAt(t, n)[k] : k \in FilesOf(m, f)}
<1> DEFINE z == SizesOf(m)[f]
           c == Cardinality(FilesOf(m, f))
           o == Ordered(S, f)
           s == Shards(f, o, z)
           start == [i \in DOMAIN z |-> SumFunctionOnSet(z, 1..(i - 1))]
           pl == PayloadAt(t, n)
<1>1. n \in Nat /\ IsManifest(m) /\ ManifestValid(m)
  BY EndManifest
<1>2. /\ c \in Nat /\ DOMAIN z = 1..c
      /\ \A k \in FilesOf(m, f) :
           /\ m.files[k].shard + 1 \in 1..c /\ z[m.files[k].shard + 1] = m.files[k].records
           /\ SumFunctionOnSet(z, 1..m.files[k].shard) = First(m, f, k)
      /\ \A j \in 1..c : \E k \in FilesOf(m, f) : m.files[k].shard = j - 1
  BY <1>1, OwnShards
<1>3. DOMAIN s = 1..c /\ \A j \in 1..c :
        s[j] = Entry(ShardPath(f, j - 1), Lines(SubSeq(o, start[j] + 1, start[j] + z[j])))
  <2>1. s = [i \in DOMAIN z |-> Entry(ShardPath(f, i - 1), Lines(SubSeq(o, start[i] + 1, start[i] + z[i])))]
    BY DEF Shards
  <2> HIDE DEF z, s, start, c, o
  <2> QED BY <1>2, <2>1
<1>4. ASSUME NEW k \in FilesOf(m, f)
      PROVE  m.files[k].shard + 1 \in 1..c /\ s[m.files[k].shard + 1] = pl[k]
  <2> DEFINE j == m.files[k].shard + 1
  <2>1. k \in 1..Len(m.files) /\ m.files[k].family = f /\ m.files[k].shard \in Nat
        /\ m.files[k].path = ShardPath(f, m.files[k].shard)
    BY <1>1, ManifestFiles DEF FilesOf
  <2>2. k \in 1..n /\ t[k + 2].path = m.files[k].path
    <3>1. Len(m.files) \in 0..n /\ t[k + 2].path = m.files[k].path
      BY <2>1, EndPaths
    <3> QED BY <1>1, <2>1, <3>1
  <2>3. t[k + 2].body = Lines(LinesAt(t, k))
        /\ LinesAt(t, k) = SubSeq(o, First(m, f, k) + 1, First(m, f, k) + m.files[k].records)
    BY <2>1, EndShards, EndSlices
  <2>4. pl[k] = Entry(t[k + 2].path, t[k + 2].body)
    BY <2>2 DEF PayloadAt
  <2>5. j \in 1..c /\ j - 1 = m.files[k].shard /\ z[j] = m.files[k].records
    BY <1>2, <2>1
  <2>6. start[j] = First(m, f, k)
    <3>1. start[j] = SumFunctionOnSet(z, 1..(j - 1))
      <4> HIDE DEF z, j
      <4> QED BY <1>2, <2>5
    <3> HIDE DEF start, z
    <3> QED BY <1>2, <2>5, <3>1
  <2> HIDE DEF z, start, o, s, pl, c, j
  <2>7. s[j] = Entry(ShardPath(f, j - 1), Lines(SubSeq(o, start[j] + 1, start[j] + z[j])))
    BY <1>3, <2>5
  <2>8. s[j] = pl[k]
    BY <2>1, <2>2, <2>3, <2>4, <2>5, <2>6, <2>7
  <2> QED BY <2>5, <2>8 DEF j
<1> HIDE DEF z, start, o, s, pl, c
<1>5. ASSUME NEW j \in 1..c PROVE \E k \in FilesOf(m, f) : s[j] = pl[k]
  <2>1. PICK k \in FilesOf(m, f) : m.files[k].shard = j - 1
    BY <1>2
  <2>2. m.files[k].shard + 1 = j
    BY <1>2, <2>1
  <2> QED BY <1>4, <2>2
<1>6. ToSet(s) = {pl[k] : k \in FilesOf(m, f)}
  <2>1. ToSet(s) = {s[j] : j \in 1..c}
    BY <1>3 DEF ToSet
  <2> QED BY <1>4, <1>5, <2>1
<1> QED BY <1>6 DEF s, o, z, pl

\* The hashes the accumulator holds are those of the originals to include.
LEMMA HeldAreIncluded ==
  ASSUME NEW a, NEW m, NEW S, Known(a, m, S)
  PROVE  HeldHashes(a) = {r.original[1] : r \in Included(S)}
         /\ DOMAIN a.originals = {r.original[1] : r \in Originals(S)}
<1>1. /\ \A x \in Originals(S) : x.original[1] \in DOMAIN a.originals /\ a.originals[x.original[1]].is = x.original
      /\ \A h \in DOMAIN a.originals : \E x \in Originals(S) : x.original[1] = h
  BY DEF Known, OriginalsKnown
<1>2. DOMAIN a.originals = {r.original[1] : r \in Originals(S)}
  BY <1>1
<1>3. HeldHashes(a) = {r.original[1] : r \in Included(S)}
  BY <1>1 DEF HeldHashes, Included
<1> QED BY <1>2, <1>3

IncludedBlobs(S) == {Entry(BlobPath(r.original[1]), Blob(r.original[1])) : r \in Included(S)}

LEMMA EndBlobs ==
  ASSUME NEW t, NEW m, NEW list, NEW es, NEW a, NEW S, NEW n, Finished(t, m, list, es, a, S, n)
  PROVE  /\ BlobsOf(es) = (Len(m.files) + 1)..n
         /\ IncludedBlobs(S) = {PayloadAt(t, n)[i] : i \in (Len(m.files) + 1)..n}
<1> DEFINE nf == Len(m.files)
           pl == PayloadAt(t, n)
           I == (nf + 1)..n
           B == BlobsOf(es)
           H(i) == t[i + 2].path.hash
<1>1. n \in Nat /\ IsManifest(m) /\ ManifestValid(m)
  BY EndManifest
<1>2. nf \in 0..n
  BY EndPaths
<1>3. /\ \A i \in 1..nf : pl[i].path.kind = "data"
      /\ \A i \in I : pl[i] = Entry(BlobPath(H(i)), Blob(H(i))) /\ pl[i].path.kind = "blob"
  BY EndParts
<1>4. \A i \in 1..n : pl[i].path = t[i + 2].path
  BY DEF PayloadAt, Entry
<1>5. DOMAIN es = 1..n /\ \A i \in 1..n : es[i].path = t[i + 2].path
  <2>1. es = [i \in 1..n |-> ChecksumOf(t[i + 2])]
    BY DEF Finished
  <2> QED BY <2>1 DEF ChecksumOf
<1>6. B = I
  <2>1. \A i \in 1..n : i \in 1..nf \/ i \in I
    BY <1>1, <1>2
  <2>2. \A i \in I : i \in 1..n
    BY <1>1, <1>2
  <2> HIDE DEF pl, I, nf, B
  <2>3. \A i \in 1..n : es[i].path.kind = "blob" <=> i \in I
    BY <1>3, <1>4, <1>5, <2>1, <2>2
  <2> QED BY <1>5, <2>2, <2>3 DEF B, BlobsOf
<1>7. /\ \A h \in HeldHashes(a) : \E i \in B : es[i].path.hash = h
      /\ \A i \in B : es[i].path.hash \in HeldHashes(a)
  <2>1. MediaIssues(a, m, es) = {}
    <3>1. FinishIssues(a, m, list, es) = {}
      BY DEF Finished
    <3> QED BY <3>1, NoIssue
  <2>2. BlobsMatch(a, es)
    BY <2>1, NoMediaIssue
  <2> QED BY <2>2 DEF BlobsMatch
<1>8. HeldHashes(a) = {r.original[1] : r \in Included(S)}
  BY HeldAreIncluded DEF Finished, RecordsKnown
<1>9. \A i \in I : i \in 1..n /\ es[i].path.hash = H(i)
  BY <1>1, <1>2, <1>5
<1> DEFINE E(h) == Entry(BlobPath(h), Blob(h))
<1> HIDE DEF I, B, H, pl
<1>10. \A i \in I : pl[i] = E(H(i))
  BY <1>3
<1> HIDE DEF E
<1>11. {E(r.original[1]) : r \in Included(S)} = {pl[i] : i \in I}
  <2>1. ASSUME NEW r \in Included(S) PROVE \E i \in I : E(r.original[1]) = pl[i]
    <3>1. r.original[1] \in HeldHashes(a)
      BY <1>8
    <3>2. PICK i \in I : H(i) = r.original[1]
      BY <1>6, <1>7, <1>9, <3>1
    <3> QED BY <1>10, <3>2
  <2>2. ASSUME NEW i \in I PROVE \E r \in Included(S) : pl[i] = E(r.original[1])
    <3>1. H(i) \in HeldHashes(a)
      BY <1>6, <1>7, <1>9
    <3>2. PICK r \in Included(S) : H(i) = r.original[1]
      BY <1>8, <3>1
    <3> QED BY <1>10, <3>2
  <2> QED BY <2>1, <2>2
<1> QED BY <1>6, <1>11 DEF I, B, E, pl, IncludedBlobs

LEMMA EndPayload ==
  ASSUME NEW t, NEW m, NEW list, NEW es, NEW a, NEW S, NEW n, Finished(t, m, list, es, a, S, n)
  PROVE  PayloadAt(t, n) = Payload(S, SizesOf(m))
<1> DEFINE nf == Len(m.files)
           pl == PayloadAt(t, n)
           sh == UNION {ToSet(Shards(f, Ordered(S, f), SizesOf(m)[f])) : f \in Families}
           bl == IncludedBlobs(S)
           X == sh \cup bl
           key == [e \in X |-> PayloadParts(e)]
<1>1. n \in Nat /\ IsManifest(m) /\ ManifestValid(m) /\ nf \in 0..n
  BY EndManifest, EndPaths
<1>2. sh = {pl[k] : k \in 1..nf}
  <2>1. \A f \in Families : ToSet(Shards(f, Ordered(S, f), SizesOf(m)[f])) = {pl[k] : k \in FilesOf(m, f)}
    BY ShardEntries
  <2>2. DOMAIN m.files = 1..nf /\ \A k \in 1..nf : m.files[k].family \in Families
    BY <1>1, ManifestFiles
  <2>3. sh = UNION {{pl[k] : k \in FilesOf(m, f)} : f \in Families}
    <3> HIDE DEF pl
    <3> QED BY <2>1
  <2>4. (\A k \in 1..nf : \E f \in Families : k \in FilesOf(m, f)) /\ \A f \in Families : FilesOf(m, f) \in SUBSET (1..nf)
    BY <2>2 DEF FilesOf
  <2> HIDE DEF sh, pl, nf
  <2> QED BY <2>3, <2>4
<1>3. bl = {pl[i] : i \in (nf + 1)..n}
  BY EndBlobs
<1> HIDE DEF sh, bl, pl
<1>4. X = {pl[i] : i \in 1..n}
  <2>1. \A i : i \in 1..n <=> i \in 1..nf \/ i \in (nf + 1)..n
    BY <1>1
  <2> HIDE DEF nf
  <2> QED BY <1>2, <1>3, <2>1
<1>5. /\ \A i \in 1..n : PayloadParts(pl[i]) \in [1..3 -> Int]
      /\ \A i, j \in 1..n : i < j => Less(PayloadParts(pl[i]), PayloadParts(pl[j]))
  BY EndParts DEF pl
<1>6. DOMAIN pl = 1..n /\ pl = [i \in 1..n |-> pl[i]]
  BY DEF pl, PayloadAt
<1> HIDE DEF X
<1>7. \A i \in 1..n : pl[i] \in X /\ key[pl[i]] = PayloadParts(pl[i])
  BY <1>4
<1> HIDE DEF key
<1>8. Sortable(X, key)
  <2>1. IsFiniteSet(X)
    BY <1>1, <1>4, <1>6, RangeIsFinite
  <2>2. \A x \in X : key[x] \in [1..3 -> Int]
    BY <1>4, <1>5, <1>7
  <2>3. \A x, y \in X : key[x] = key[y] => x = y
    <3> SUFFICES ASSUME NEW i \in 1..n, NEW j \in 1..n, key[pl[i]] = key[pl[j]], i # j PROVE FALSE
      BY <1>4
    <3>1. Less(key[pl[i]], key[pl[i]])
      BY <1>1, <1>5, <1>7
    <3>2. key[pl[i]] \in [1..3 -> Int]
      BY <1>5, <1>7
    <3>3. ~Less(key[pl[i]], key[pl[i]])
      <4> DEFINE b == key[pl[i]]
                 w == 3
      <4>1. b \in [1..w -> Int] /\ w \in Nat
        BY <3>2
      <4> HIDE DEF b, w
      <4>2. ~Less(b, b)
        BY <4>1, LessIsStrict
      <4> QED BY <4>2 DEF b
    <3> QED BY <3>1, <3>3
  <2> DEFINE w == 3
  <2>4. w \in Nat /\ \A x \in X : key[x] \in [1..w -> Int]
    BY <2>2
  <2> HIDE DEF w
  <2> QED BY <2>1, <2>3, <2>4, KeysSort
<1>9. /\ pl \in [1..n -> X] /\ (\A i, j \in 1..n : i < j => Less(key[pl[i]], key[pl[j]]))
      /\ \A x \in X : \E i \in 1..n : pl[i] = x
  BY <1>4, <1>5, <1>6, <1>7
<1>10. pl = Arrange(X, key)
  BY <1>1, <1>8, <1>9, ArrangeIs
<1>11. Payload(S, SizesOf(m)) = Arrange(X, key)
  BY DEF Payload, X, key, sh, bl, IncludedBlobs
<1> QED BY <1>10, <1>11 DEF pl
-----------------------------------------------------------------------------
(* The manifest of a finished container is the one of its records.         *)

LEMMA SumOnDomain == ASSUME NEW g PROVE Total(g) = SumFunctionOnSet(g, DOMAIN g)
BY DEF Total, SumFunction, SumFunctionOnSet, FoldFunction

CountsAre(m, S) ==
    /\ m.counts = [f \in Families |-> Cardinality(OfType(S, f))]
    /\ m.visible = Cardinality({x \in OfType(S, "message") : ~x.hidden})
    /\ m.hidden = Cardinality({x \in OfType(S, "message") : x.hidden})

LEMMA EndCounts ==
  ASSUME NEW t, NEW m, NEW list, NEW es, NEW a, NEW S, NEW n, Finished(t, m, list, es, a, S, n)
  PROVE  /\ CountsAre(m, S)
         /\ \A f \in Families : Total(SizesOf(m)[f]) = Cardinality(OfType(S, f))
<1>1. IsManifest(m) /\ ManifestValid(m)
  BY EndManifest
<1>2. DOMAIN m.files = 1..Len(m.files) /\ Len(m.files) \in Nat /\ \A k \in 1..Len(m.files) : m.files[k].records \in Nat
  BY <1>1, ManifestFiles
<1>3. ASSUME NEW f \in Families PROVE m.counts[f] = Cardinality(OfType(S, f))
  <2> DEFINE I == FilesBefore(m, f, Len(m.files) + 1)
             g == [i \in {i \in DOMAIN m.files : m.files[i].family \in {f}} |-> m.files[i].records]
  <2>1. m.counts[f] = Total(g)
    BY <1>1 DEF ManifestValid, CountOf
  <2>2. I = {i \in DOMAIN m.files : m.files[i].family \in {f}} /\ DOMAIN g = I
    BY <1>2 DEF FilesBefore
  <2>3. \A i \in I : g[i] = Sizes(m)[i]
    BY <1>2, <2>2 DEF Sizes
  <2>4. IsFiniteSet(I)
    <3>1. I \in SUBSET (1..Len(m.files)) /\ IsFiniteSet(1..Len(m.files))
      BY <1>2, FS_Interval DEF FilesBefore
    <3> QED BY <3>1, FS_Subset
  <2> DEFINE z == Sizes(m)
  <2> HIDE DEF g, I, z
  <2>5. SumFunctionOnSet(g, I) = SumFunctionOnSet(z, I)
    <3>1. \A i \in I : g[i] = z[i]
      BY <2>3 DEF z
    <3> QED BY <2>4, <3>1, SumsAgree
  <2>6. Total(g) = SumFunctionOnSet(g, I)
    BY <2>2, SumOnDomain
  <2>7. SumFunctionOnSet(z, I) = First(m, f, Len(m.files) + 1)
    BY DEF First, I, z
  <2>8. Cardinality(OfType(S, f)) = First(m, f, Len(m.files) + 1)
    BY EndOrdered
  <2> QED BY <2>1, <2>5, <2>6, <2>7, <2>8
<1>4. m.counts \in [Families -> Nat]
  BY <1>1 DEF IsManifest
<1>5. m.counts = [f \in Families |-> Cardinality(OfType(S, f))]
  BY <1>3, <1>4
<1>6. CountIssues(a, m) = {}
  <2>1. FinishIssues(a, m, list, es) = {}
    BY DEF Finished
  <2> QED BY <2>1, NoIssue
<1>7. m.visible = a.visible /\ m.hidden = a.hidden
  BY <1>6, NoCountIssue
<1>8. /\ a.visible = Cardinality({x \in OfType(S, "message") : ~x.hidden})
      /\ a.hidden = Cardinality({x \in OfType(S, "message") : x.hidden})
  BY DEF Finished, RecordsKnown, Known, MessagesKnown
<1>9. ASSUME NEW f \in Families PROVE Total(SizesOf(m)[f]) = Cardinality(OfType(S, f))
  <2>1. Total(SizesOf(m)[f]) = First(m, f, Len(m.files) + 1)
    BY <1>1, OwnShards
  <2>2. Cardinality(OfType(S, f)) = First(m, f, Len(m.files) + 1)
    BY EndOrdered
  <2> QED BY <2>1, <2>2
<1> QED BY <1>5, <1>7, <1>8, <1>9 DEF CountsAre

LEMMA CardinalityOfRest ==
  ASSUME NEW T, IsFiniteSet(T), NEW U \in SUBSET T
  PROVE  Cardinality(T \ U) = Cardinality(T) - Cardinality(U)
<1>1. IsFiniteSet(U) /\ IsFiniteSet(T \ U)
  <2>1. T \ U \in SUBSET T
    OBVIOUS
  <2> QED BY <2>1, FS_Subset
<1>2. Cardinality(U \union (T \ U)) = Cardinality(U) + Cardinality(T \ U) - Cardinality(U \intersect (T \ U))
  BY <1>1, FS_Union
<1>3. U \union (T \ U) = T /\ U \intersect (T \ U) = {}
  OBVIOUS
<1>4. Cardinality({}) = 0
  BY FS_EmptySet
<1>5. Cardinality(T) \in Nat /\ Cardinality(U) \in Nat /\ Cardinality(T \ U) \in Nat
  BY <1>1, FS_CardinalityType
<1>6. Cardinality(T) = Cardinality(U) + Cardinality(T \ U) - 0
  <2>1. Cardinality(U \union (T \ U)) = Cardinality(T) /\ Cardinality(U \intersect (T \ U)) = 0
    BY <1>3, <1>4
  <2> QED BY <1>2, <2>1
<1> QED BY <1>5, <1>6

\* The originals that were left out.
Absent(S) == Originals(S) \ Included(S)
AbsentHashes(S) == {r.original[1] : r \in Absent(S)}
AbsentLengths(S) == [h \in AbsentHashes(S) |-> (CHOOSE r \in Absent(S) : r.original[1] = h).original[2]]

LEMMA EndMissing ==
  ASSUME NEW t, NEW m, NEW list, NEW es, NEW a, NEW S, NEW n, Finished(t, m, list, es, a, S, n)
  PROVE  m.missing = [references |-> Cardinality(OfType(S, "revision-media") \ Included(S)),
                      objects |-> Cardinality(AbsentHashes(S)), bytes |-> Total(AbsentLengths(S))]
<1>1. Known(a, m, S)
  BY DEF Finished, RecordsKnown
<1>2. MediaTotals(a, m, es)
  <2>1. FinishIssues(a, m, list, es) = {}
    BY DEF Finished
  <2>2. MediaIssues(a, m, es) = {}
    BY <2>1, NoIssue
  <2> QED BY <2>2, NoMediaIssue
<1>3. a.mediaRows - Total(References(a)) = Cardinality(OfType(S, "revision-media") \ Included(S))
  <2> DEFINE T == OfType(S, "revision-media")
  <2>1. T \in SUBSET S /\ Included(S) \in SUBSET T
    BY DEF OfType, Included, Originals
  <2>2. IsFiniteSet(T)
    BY <1>1, <2>1, FS_Subset DEF Known
  <2>3. Cardinality(T \ Included(S)) = Cardinality(T) - Cardinality(Included(S))
    <3> DEFINE U == Included(S)
    <3> HIDE DEF T, U
    <3>1. U \in SUBSET T
      BY <2>1 DEF U
    <3>2. Cardinality(T \ U) = Cardinality(T) - Cardinality(U)
      BY <2>2, <3>1, CardinalityOfRest
    <3> QED BY <3>2 DEF U
  <2>4. a.mediaRows = Cardinality(T)
    BY <1>1 DEF Known, AttachedKnown
  <2>5. Total(References(a)) = Cardinality(Included(S))
    <3>1. SumFunctionOnSet(References(a), HeldHashes(a)) = Cardinality(Included(S))
      BY <1>1 DEF Known, OriginalsKnown
    <3>2. DOMAIN References(a) = HeldHashes(a)
      BY DEF References
    <3>3. Total(References(a)) = SumFunctionOnSet(References(a), DOMAIN References(a))
      BY SumOnDomain
    <3> QED BY <3>1, <3>2, <3>3
  <2> QED BY <2>3, <2>4, <2>5
<1>4. /\ \A x \in Originals(S) : x.original[1] \in DOMAIN a.originals /\ a.originals[x.original[1]].is = x.original
      /\ \A h \in DOMAIN a.originals : \E x \in Originals(S) : x.original[1] = h
  BY <1>1 DEF Known, OriginalsKnown
<1>5. ASSUME NEW x \in Absent(S)
      PROVE  x.original[1] \in LeftOut(a) /\ a.originals[x.original[1]].is[2] = x.original[2]
  <2>1. x \in Originals(S) /\ ~x.original[4]
    BY DEF Absent, Included
  <2> QED BY <1>4, <2>1 DEF LeftOut, HeldHashes
<1>6. ASSUME NEW h \in LeftOut(a) PROVE \E x \in Absent(S) : x.original[1] = h
  <2>1. h \in DOMAIN a.originals /\ ~a.originals[h].is[4]
    BY DEF LeftOut, HeldHashes
  <2>2. PICK x \in Originals(S) : x.original[1] = h
    BY <1>4, <2>1
  <2>3. x \in Absent(S)
    BY <1>4, <2>1, <2>2 DEF Absent, Included
  <2> QED BY <2>2, <2>3
<1>7. LeftOut(a) = AbsentHashes(S)
  BY <1>5, <1>6 DEF AbsentHashes
<1>8. LeftLengths(a) = AbsentLengths(S)
  <2>1. ASSUME NEW h \in AbsentHashes(S)
        PROVE  a.originals[h].is[2] = (CHOOSE r \in Absent(S) : r.original[1] = h).original[2]
    <3> DEFINE r == CHOOSE r \in Absent(S) : r.original[1] = h
    <3>1. \E x \in Absent(S) : x.original[1] = h
      BY DEF AbsentHashes
    <3>2. r \in Absent(S) /\ r.original[1] = h
      BY <3>1
    <3> HIDE DEF r
    <3>3. a.originals[h].is[2] = r.original[2]
      BY <1>5, <3>2
    <3> QED BY <3>3 DEF r
  <2>2. LeftLengths(a) = [h \in AbsentHashes(S) |-> a.originals[h].is[2]]
    BY <1>7 DEF LeftLengths
  <2> QED BY <2>1, <2>2 DEF AbsentLengths
<1> QED BY <1>2, <1>3, <1>7, <1>8 DEF MediaTotals

LEMMA EndList ==
  ASSUME NEW t, NEW m, NEW list, NEW es, NEW a, NEW S, NEW n, Finished(t, m, list, es, a, S, n)
  PROVE  /\ m.checksums = [form |-> "checksums", list |-> RenderChecksums(PayloadAt(t, n))]
         /\ t[2].body = m.checksums
<1>1. /\ n \in Nat /\ IsManifest(m) /\ \A i \in 1..(n + 2) : IsBody(t[i].body)
  BY EndManifest
<1>2. list = ByPath(ToSet(list)) /\ m.checksums.list = ByPath(ToSet(list))
  <2>1. FinishIssues(a, m, list, es) = {}
    BY DEF Finished
  <2>2. EntryIssues(m, list, es) = {}
    BY <2>1, NoIssue
  <2> QED BY <2>2, NoEntryIssue
<1>3. ToSet(list) = {ChecksumOf(PayloadAt(t, n)[i]) : i \in DOMAIN PayloadAt(t, n)}
  <2>1. ToSet(list) = ToSet(es)
    BY EndPaths
  <2>2. es = [i \in 1..n |-> ChecksumOf(t[i + 2])]
    BY DEF Finished
  <2>3. ToSet(es) = {ChecksumOf(t[i + 2]) : i \in 1..n}
    BY <2>2 DEF ToSet
  <2>4. DOMAIN PayloadAt(t, n) = 1..n
    BY DEF PayloadAt
  <2>5. ASSUME NEW i \in 1..n PROVE ChecksumOf(PayloadAt(t, n)[i]) = ChecksumOf(t[i + 2])
    <3>1. PayloadAt(t, n)[i].path = t[i + 2].path /\ PayloadAt(t, n)[i].body = t[i + 2].body
      BY DEF PayloadAt, Entry
    <3> QED BY <3>1 DEF ChecksumOf
  <2> QED BY <2>1, <2>3, <2>4, <2>5
<1>4. m.checksums.list = RenderChecksums(PayloadAt(t, n))
  BY <1>2, <1>3 DEF RenderChecksums
<1>5. IsList(m.checksums)
  BY <1>1 DEF IsManifest
<1>6. IsList(t[2].body) /\ t[2].body.list = list
  <2>1. t[2].body.form = "checksums" /\ t[2].body.list = list /\ IsBody(t[2].body)
    BY <1>1 DEF Finished
  <2> QED BY <2>1, BodyShapes
<1>7. ASSUME NEW b, IsList(b) PROVE b = [form |-> "checksums", list |-> b.list]
  BY <1>7 DEF IsList
<1> QED BY <1>2, <1>4, <1>5, <1>6, <1>7
ShardsIn(pl, fs) == {i \in DOMAIN pl : pl[i].path.kind = "data" /\ pl[i].path.family \in fs}
LengthsIn(pl, I) == [i \in I |-> Bytes(pl[i].body)]
ListedFiles(sh) ==
    [i \in DOMAIN sh |-> [path |-> sh[i].path, family |-> sh[i].path.family, shard |-> sh[i].path.shard,
                          records |-> Len(sh[i].body.lines), bytes |-> Bytes(sh[i].body)]]

LEMMA EndFiles ==
  ASSUME NEW t, NEW m, NEW list, NEW es, NEW a, NEW S, NEW n, Finished(t, m, list, es, a, S, n)
  PROVE  LET pl == PayloadAt(t, n) IN
         /\ DOMAIN pl = 1..n
         /\ \A fs \in SUBSET Families : ShardsIn(pl, fs) = {i \in DOMAIN m.files : m.files[i].family \in fs}
         /\ ShardsIn(pl, Families) = 1..Len(m.files)
         /\ DOMAIN pl \ ShardsIn(pl, Families) = BlobsOf(es)
         /\ \A i \in DOMAIN m.files : Bytes(pl[i].body) = m.files[i].bytes
         /\ LengthsIn(pl, BlobsOf(es)) = BlobLengths(es)
         /\ m.files = ListedFiles(At(pl, 1..Len(m.files)))
<1> DEFINE pl == PayloadAt(t, n)
           nf == Len(m.files)
<1>1. n \in Nat /\ IsManifest(m) /\ ManifestValid(m) /\ nf \in 0..n
  BY EndManifest, EndPaths
<1>2. /\ DOMAIN m.files = 1..nf /\ nf \in Nat
      /\ \A k \in 1..nf :
           /\ m.files[k] \in [path : Paths, family : Families, shard : Nat, records : Nat, bytes : Nat]
           /\ m.files[k].path = ShardPath(m.files[k].family, m.files[k].shard)
  BY <1>1, ManifestFiles
<1>3. /\ \A i \in 1..nf : pl[i].path = m.files[i].path /\ pl[i].path.kind = "data" /\ pl[i].path.family = m.files[i].family
      /\ \A i \in (nf + 1)..n : pl[i].path.kind = "blob"
  BY EndParts
<1>4. DOMAIN pl = 1..n /\ \A i \in 1..n : pl[i].path = t[i + 2].path /\ pl[i].body = t[i + 2].body
  BY DEF PayloadAt, Entry
<1> HIDE DEF pl
<1>5. \A i : i \in 1..n <=> i \in 1..nf \/ i \in (nf + 1)..n
  BY <1>1, <1>2
<1>6. ASSUME NEW fs \in SUBSET Families
      PROVE  ShardsIn(pl, fs) = {i \in DOMAIN m.files : m.files[i].family \in fs}
  <2>1. \A i \in 1..nf : i \in DOMAIN pl /\ (pl[i].path.family \in fs <=> m.files[i].family \in fs)
    BY <1>3, <1>4, <1>5
  <2>2. \A i \in (nf + 1)..n : pl[i].path.kind # "data"
    BY <1>3
  <2>3. \A i \in DOMAIN pl : i \in 1..nf \/ i \in (nf + 1)..n
    BY <1>4, <1>5
  <2> HIDE DEF nf
  <2> QED BY <1>2, <1>3, <2>1, <2>2, <2>3 DEF ShardsIn
<1>7. ShardsIn(pl, Families) = 1..nf
  <2>1. ShardsIn(pl, Families) = {i \in DOMAIN m.files : m.files[i].family \in Families}
    BY <1>6
  <2>2. \A k \in 1..nf : m.files[k].family \in Families
    BY <1>1, ManifestFiles
  <2> HIDE DEF nf
  <2> QED BY <1>2, <2>1, <2>2
<1>8. DOMAIN pl \ ShardsIn(pl, Families) = BlobsOf(es)
  <2>1. BlobsOf(es) = (nf + 1)..n
    BY EndBlobs
  <2>2. (1..n) \ (1..nf) = (nf + 1)..n
    BY <1>1, <1>2
  <2> HIDE DEF nf
  <2> QED BY <1>4, <1>7, <2>1, <2>2
<1>9. \A i \in 1..nf : i \in 1..n /\ Bytes(pl[i].body) = m.files[i].bytes
  <2>1. \A i \in 1..nf : Bytes(t[i + 2].body) = m.files[i].bytes
    BY EndPaths
  <2> QED BY <1>4, <1>5, <2>1
<1>10. LengthsIn(pl, BlobsOf(es)) = BlobLengths(es)
  <2>1. es = [i \in 1..n |-> ChecksumOf(t[i + 2])]
    BY DEF Finished
  <2>2. BlobsOf(es) \in SUBSET (1..n) /\ \A i \in 1..n : es[i].bytes = Bytes(t[i + 2].body)
    BY <2>1 DEF BlobsOf, ChecksumOf
  <2>3. \A i \in BlobsOf(es) : Bytes(pl[i].body) = es[i].bytes
    BY <1>4, <2>2
  <2> QED BY <2>3 DEF LengthsIn, BlobLengths
<1>11. m.files = ListedFiles(At(pl, 1..nf))
  <2> DEFINE sh == At(pl, 1..nf)
  <2>1. sh = [i \in 1..nf |-> pl[i]]
    BY <1>2, AscendsInterval
  <2>2. DOMAIN sh = 1..nf /\ \A i \in 1..nf : sh[i] = pl[i]
    <3> HIDE DEF sh
    <3> QED BY <2>1
  <2> HIDE DEF sh
  <2>3. ASSUME NEW i \in 1..nf
        PROVE  m.files[i] = [path |-> sh[i].path, family |-> sh[i].path.family, shard |-> sh[i].path.shard,
                             records |-> Len(sh[i].body.lines), bytes |-> Bytes(sh[i].body)]
    <3> DEFINE f == m.files[i]
    <3>1. f = [path |-> f.path, family |-> f.family, shard |-> f.shard, records |-> f.records, bytes |-> f.bytes]
      BY <1>2
    <3> HIDE DEF f
    <3>2. sh[i].path = f.path /\ sh[i].path.family = f.family /\ Bytes(sh[i].body) = f.bytes
      BY <1>3, <1>9, <2>2 DEF f
    <3>3. sh[i].path.shard = f.shard
      <4>1. sh[i].path = ShardPath(f.family, f.shard)
        BY <1>2, <3>2 DEF f
      <4> QED BY <4>1 DEF ShardPath
    <3>4. Len(sh[i].body.lines) = f.records
      <4>1. Len(LinesAt(t, i)) = f.records
        BY EndShards DEF f
      <4>2. sh[i].body = t[i + 2].body
        BY <1>4, <1>9, <2>2
      <4> QED BY <4>1, <4>2 DEF LinesAt
    <3> QED BY <3>1, <3>2, <3>3, <3>4 DEF f
  <2>4. m.files = [i \in 1..nf |-> m.files[i]]
    <3>1. m.files \in Seq([path : Paths, family : Families, shard : Nat, records : Nat, bytes : Nat])
      BY <1>1 DEF IsManifest
    <3> DEFINE X == [path : Paths, family : Families, shard : Nat, records : Nat, bytes : Nat]
    <3>2. m.files \in Seq(X)
      BY <3>1
    <3> HIDE DEF X
    <3> QED BY <3>2
  <2> HIDE DEF nf
  <2> QED BY <2>2, <2>3, <2>4 DEF ListedFiles, sh
<1> QED BY <1>2, <1>4, <1>6, <1>7, <1>8, <1>9, <1>10, <1>11 DEF pl

LEMMA EndManifestIs ==
  ASSUME NEW t, NEW m, NEW list, NEW es, NEW a, NEW S, NEW n, Finished(t, m, list, es, a, S, n)
  PROVE  m = ManifestFor(S, PayloadAt(t, n), m.media, m.provenance, m.selection)
<1> DEFINE pl == PayloadAt(t, n)
           Size(I) == Total(LengthsIn(pl, I))
           dataSize == Size(ShardsIn(pl, Families \ Provenance))
           provSize == Size(ShardsIn(pl, Provenance))
           blobSize == Size(DOMAIN pl \ ShardsIn(pl, Families))
           missing == [references |-> Cardinality(OfType(S, "revision-media") \ Included(S)),
                       objects |-> Cardinality(AbsentHashes(S)), bytes |-> Total(AbsentLengths(S))]
           counts == [f \in Families |-> Cardinality(OfType(S, f))]
           vis == Cardinality({x \in OfType(S, "message") : ~x.hidden})
           hid == Cardinality({x \in OfType(S, "message") : x.hidden})
           sums == [form |-> "checksums", list |-> RenderChecksums(pl)]
           files == ListedFiles(At(pl, ShardsIn(pl, Families)))
           blobs == Cardinality(DOMAIN pl \ ShardsIn(pl, Families))
           bytes == [data |-> dataSize, provenance |-> provSize, blobs |-> blobSize,
                     total |-> dataSize + provSize + blobSize]
<1>1. IsManifest(m) /\ ManifestValid(m) /\ Supported(m) /\ m.form = "manifest" /\ m.canonical
  BY EndManifest
<1>2. /\ m = [form |-> m.form, format |-> m.format, schema |-> m.schema, timely |-> m.timely, canonical |-> m.canonical,
              media |-> m.media, provenance |-> m.provenance, selection |-> m.selection, counts |-> m.counts,
              visible |-> m.visible, hidden |-> m.hidden, blobs |-> m.blobs, files |-> m.files, bytes |-> m.bytes,
              missing |-> m.missing, checksums |-> m.checksums]
      /\ m.timely \in BOOLEAN /\ m.canonical \in BOOLEAN
      /\ m.bytes \in [data : Nat, provenance : Nat, blobs : Nat, total : Nat]
  BY <1>1 DEF IsManifest
<1>3. m.timely = TRUE /\ m.canonical = TRUE /\ m.format = 1 /\ m.schema = 1
  BY <1>1, <1>2 DEF ManifestValid, Supported
<1>4. m.counts = counts /\ m.visible = vis /\ m.hidden = hid
  <2>1. CountsAre(m, S)
    BY EndCounts
  <2> QED BY <2>1 DEF CountsAre
<1>5. m.missing = missing
  BY EndMissing
<1>6. m.checksums = sums
  BY EndList
<1>7. /\ \A fs \in SUBSET Families : ShardsIn(pl, fs) = {i \in DOMAIN m.files : m.files[i].family \in fs}
      /\ ShardsIn(pl, Families) = 1..Len(m.files)
      /\ DOMAIN pl \ ShardsIn(pl, Families) = BlobsOf(es)
      /\ \A i \in DOMAIN m.files : Bytes(pl[i].body) = m.files[i].bytes
      /\ LengthsIn(pl, BlobsOf(es)) = BlobLengths(es)
      /\ m.files = ListedFiles(At(pl, 1..Len(m.files)))
  BY EndFiles
<1>8. m.files = files
  <2>1. ShardsIn(pl, Families) = 1..Len(m.files) /\ m.files = ListedFiles(At(pl, 1..Len(m.files)))
    BY <1>7
  <2> HIDE DEF pl
  <2> QED BY <2>1
<1>9. m.blobs = blobs /\ m.bytes.blobs = blobSize
  <2>1. MediaTotals(a, m, es)
    <3>1. FinishIssues(a, m, list, es) = {}
      BY DEF Finished
    <3>2. MediaIssues(a, m, es) = {}
      BY <3>1, NoIssue
    <3> QED BY <3>2, NoMediaIssue
  <2>2. m.blobs = Cardinality(BlobsOf(es)) /\ m.bytes.blobs = Total(BlobLengths(es))
    BY <2>1 DEF MediaTotals
  <2> HIDE DEF pl
  <2> QED BY <1>7, <2>2
<1>10. ASSUME NEW fs \in SUBSET Families
       PROVE  Size(ShardsIn(pl, fs)) =
                Total([i \in {i \in DOMAIN m.files : m.files[i].family \in fs} |-> m.files[i].bytes])
  <2>1. ShardsIn(pl, fs) = {i \in DOMAIN m.files : m.files[i].family \in fs}
    BY <1>7
  <2>2. LengthsIn(pl, ShardsIn(pl, fs)) = [i \in ShardsIn(pl, fs) |-> m.files[i].bytes]
    <3> HIDE DEF pl
    <3> QED BY <1>7, <2>1 DEF LengthsIn
  <2> QED BY <2>1, <2>2
<1>11. Families \ Provenance \in SUBSET Families /\ Provenance \in SUBSET Families
  BY FamilyNames DEF Provenance
<1>12. m.bytes.data = dataSize /\ m.bytes.provenance = provSize
       /\ m.bytes.data + m.bytes.provenance + m.bytes.blobs = m.bytes.total
  <2>1. /\ m.bytes.data = Total([i \in {i \in DOMAIN m.files : m.files[i].family \in Families \ Provenance} |-> m.files[i].bytes])
        /\ m.bytes.provenance = Total([i \in {i \in DOMAIN m.files : m.files[i].family \in Provenance} |-> m.files[i].bytes])
        /\ m.bytes.data + m.bytes.provenance + m.bytes.blobs = m.bytes.total
    BY <1>1 DEF ManifestValid
  <2>2. dataSize = Total([i \in {i \in DOMAIN m.files : m.files[i].family \in Families \ Provenance} |-> m.files[i].bytes])
    BY <1>10, <1>11
  <2>3. provSize = Total([i \in {i \in DOMAIN m.files : m.files[i].family \in Provenance} |-> m.files[i].bytes])
    BY <1>10, <1>11
  <2> HIDE DEF dataSize, provSize
  <2> QED BY <2>1, <2>2, <2>3
<1> HIDE DEF dataSize, provSize, blobSize
<1>13. m.bytes = bytes
  BY <1>2, <1>9, <1>12
<1>14. ManifestFor(S, pl, m.media, m.provenance, m.selection) =
         [form |-> "manifest", format |-> 1, schema |-> 1, timely |-> TRUE, canonical |-> TRUE,
          media |-> m.media, provenance |-> m.provenance, selection |-> m.selection, counts |-> counts,
          visible |-> vis, hidden |-> hid, blobs |-> blobs, files |-> files, bytes |-> bytes,
          missing |-> missing, checksums |-> sums]
  <2> HIDE DEF pl
  <2> QED BY DEF ManifestFor, ShardsIn, LengthsIn, ListedFiles, Absent, AbsentHashes, AbsentLengths,
                 dataSize, provSize, blobSize
<1> HIDE DEF pl, missing, counts, vis, hid, sums, files, blobs, bytes
<1>15. m = ManifestFor(S, pl, m.media, m.provenance, m.selection)
  BY <1>1, <1>2, <1>3, <1>4, <1>5, <1>6, <1>8, <1>9, <1>13, <1>14
<1> QED BY <1>15 DEF pl
-----------------------------------------------------------------------------
(* The container of a finished reading.                                    *)

LEMMA EndPack ==
  ASSUME NEW t, NEW m, NEW list, NEW es, NEW a, NEW S, NEW n, Finished(t, m, list, es, a, S, n)
  PROVE  t = Pack(<<Entry(ManifestPath, m), Entry(ChecksumPath, m.checksums)>> \o PayloadAt(t, n))
<1> DEFINE E == {Entry(t[i].path, t[i].body) : i \in 1..(n + 2)}
           pl == PayloadAt(t, n)
           two == [i \in 1..2 |-> Entry(t[i].path, t[i].body)]
           all == two \o pl
<1>1. /\ n \in Nat /\ \A i \in 1..(n + 2) : t[i] = File(t[i])
      /\ t[n + 3] = Zero /\ t[n + 4] = Zero /\ Len(t) = n + 4 /\ DOMAIN t = 1..(n + 4)
  BY EndManifest
<1>2. two \in [1..2 -> E] /\ pl \in [1..n -> E]
  <2>1. (\A i \in 1..2 : i \in 1..(n + 2)) /\ (\A i \in 1..n : i + 2 \in 1..(n + 2))
    BY <1>1
  <2>2. two \in [1..2 -> E]
    BY <2>1
  <2>3. pl \in [1..n -> E]
    BY <2>1 DEF PayloadAt
  <2> QED BY <2>2, <2>3
<1>3. <<Entry(ManifestPath, m), Entry(ChecksumPath, m.checksums)>> = two
  <2>1. t[1].path = ManifestPath /\ t[1].body = m /\ t[2].path = ChecksumPath
    BY DEF Finished
  <2>2. t[2].body = m.checksums
    BY EndList
  <2>3. two[1] = Entry(ManifestPath, m) /\ two[2] = Entry(ChecksumPath, m.checksums)
    BY <2>1, <2>2
  <2>4. two = <<two[1], two[2]>>
    OBVIOUS
  <2> HIDE DEF two
  <2> QED BY <2>3, <2>4
<1>4. \A i \in 1..2 : two[i] = Entry(t[i].path, t[i].body)
  OBVIOUS
<1>5. \A i \in 1..n : pl[i] = Entry(t[i + 2].path, t[i + 2].body)
  BY DEF PayloadAt
<1> DEFINE w == 2
<1> HIDE DEF E, pl, two, w
<1>6. /\ DOMAIN all = 1..(w + n) /\ Len(all) = w + n
      /\ \A i \in 1..w : all[i] = two[i]
      /\ \A i \in (w + 1)..(w + n) : all[i] = pl[i - w]
  <2>1. w \in Nat /\ two \in [1..w -> E]
    BY <1>2 DEF w
  <2>2. n \in Nat /\ pl \in [1..n -> E]
    BY <1>1, <1>2
  <2> QED BY <2>1, <2>2, Concatenated
<1> HIDE DEF all
<1>7. /\ Len(all) = n + 2
      /\ \A i \in 1..2 : all[i] = two[i]
      /\ \A i \in 3..(n + 2) : all[i] = pl[i - 2]
  <2>1. w = 2
    BY DEF w
  <2>2. w + n = n + 2 /\ w + 1 = 3
    BY <1>1, <2>1
  <2> QED BY <1>6, <2>1, <2>2
<1>8. ASSUME NEW i \in 1..(n + 2) PROVE all[i] = Entry(t[i].path, t[i].body)
  <2>1. CASE i \in 1..2
    BY <1>4, <1>7, <2>1
  <2>2. CASE i \in 3..(n + 2)
    <3>1. i - 2 \in 1..n /\ (i - 2) + 2 = i
      BY <1>1, <2>2
    <3>2. pl[i - 2] = Entry(t[(i - 2) + 2].path, t[(i - 2) + 2].body)
      BY <1>5, <3>1
    <3> QED BY <1>7, <2>2, <3>1, <3>2
  <2> QED BY <1>1, <2>1, <2>2
<1>9. ASSUME NEW i \in 1..(n + 2) PROVE File(all[i]) = t[i]
  <2>1. all[i].path = t[i].path /\ all[i].body = t[i].body
    <3>1. \A p, b : Entry(p, b).path = p /\ Entry(p, b).body = b
      BY DEF Entry
    <3> QED BY <1>8, <3>1
  <2>2. File(all[i]) = File(t[i])
    BY <2>1 DEF File
  <2> QED BY <1>1, <2>2
<1>10. t = [i \in 1..(n + 4) |-> t[i]]
  <2>1. t \in Seq(ToSet(t))
    BY DEF Finished, IsContainer
  <2> DEFINE X == ToSet(t)
  <2>2. t \in Seq(X)
    BY <2>1
  <2> HIDE DEF X
  <2> QED BY <1>1, <2>2
<1>11. Pack(all) = [i \in 1..(n + 4) |-> IF i <= n + 2 THEN File(all[i]) ELSE Zero]
  <2>1. (n + 2) + 2 = n + 4
    BY <1>1
  <2> QED BY <1>7, <2>1 DEF Pack
<1>12. ASSUME NEW i \in 1..(n + 4) PROVE t[i] = IF i <= n + 2 THEN File(all[i]) ELSE Zero
  <2>1. CASE i <= n + 2
    <3>1. i \in 1..(n + 2)
      BY <1>1, <2>1
    <3> QED BY <1>9, <2>1, <3>1
  <2>2. CASE ~(i <= n + 2)
    <3>1. i = n + 3 \/ i = n + 4
      BY <1>1, <2>2
    <3> QED BY <1>1, <2>2, <3>1
  <2> QED BY <2>1, <2>2
<1>13. t = Pack(all)
  BY <1>10, <1>11, <1>12
<1> QED BY <1>3, <1>13 DEF all, pl

LEMMA EndFraming ==
  ASSUME NEW t, NEW m, NEW list, NEW es, NEW a, NEW S, NEW n, Finished(t, m, list, es, a, S, n)
  PROVE  /\ Framed(t) /\ Len(Files(t)) >= 2 /\ Files(t)[1].body = m
         /\ DOMAIN Files(t) = 1..(n + 2) /\ \A i \in 1..(n + 2) : Files(t)[i] = t[i]
<1> DEFINE fs == Files(t)
<1>1. /\ n \in Nat /\ \A i \in 1..(n + 2) : t[i] = File(t[i])
      /\ t[n + 3] = Zero /\ t[n + 4] = Zero /\ Len(t) = n + 4 /\ DOMAIN t = 1..(n + 4)
  BY EndManifest
<1> DEFINE X == ToSet(t)
<1>2. t \in Seq(X)
  BY DEF Finished, IsContainer
<1> HIDE DEF X
<1>3. fs = [i \in 1..(n + 2) |-> t[i]]
  <2>1. Len(t) - 2 = n + 2
    BY <1>1
  <2>2. fs = SubSeq(t, 1, n + 2)
    BY <2>1 DEF Files
  <2>3. SubSeq(t, 1, n + 2) = [i \in 1..((n + 2) - 1 + 1) |-> t[i + 1 - 1]]
    BY <1>1, <1>2
  <2>4. (n + 2) - 1 + 1 = n + 2 /\ \A i \in 1..(n + 2) : i + 1 - 1 = i
    BY <1>1
  <2> QED BY <2>2, <2>3, <2>4
<1>4. DOMAIN fs = 1..(n + 2) /\ Len(fs) = n + 2 /\ \A i \in 1..(n + 2) : fs[i] = t[i]
  <2>1. n + 2 \in Nat
    BY <1>1
  <2> HIDE DEF fs
  <2> QED BY <1>3, <2>1
<1>5. t[1].body = m
  BY DEF Finished
<1> HIDE DEF fs
<1>6. \A e \in ToSet(fs) : e.el = "file"
  <2>1. \A i \in 1..(n + 2) : t[i].el = "file"
    BY DEF Finished
  <2> QED BY <1>4, <2>1 DEF ToSet
<1>7. t = [i \in 1..(n + 4) |-> t[i]]
  BY <1>1, <1>2
<1>8. Pack(fs) = [i \in 1..(n + 4) |-> IF i <= n + 2 THEN File(fs[i]) ELSE Zero]
  <2>1. (n + 2) + 2 = n + 4
    BY <1>1
  <2> QED BY <1>4, <2>1 DEF Pack
<1>9. ASSUME NEW i \in 1..(n + 4) PROVE t[i] = IF i <= n + 2 THEN File(fs[i]) ELSE Zero
  <2>1. CASE i <= n + 2
    <3>1. i \in 1..(n + 2)
      BY <1>1, <2>1
    <3> QED BY <1>1, <1>4, <2>1, <3>1
  <2>2. CASE ~(i <= n + 2)
    <3>1. i = n + 3 \/ i = n + 4
      BY <1>1, <2>2
    <3> QED BY <1>1, <2>2, <3>1
  <2> QED BY <2>1, <2>2
<1>10. t = Pack(fs)
  BY <1>7, <1>8, <1>9
<1>11. 1 \in 1..(n + 2) /\ n + 2 >= 2
  BY <1>1
<1> QED BY <1>4, <1>5, <1>6, <1>10, <1>11 DEF Framed, fs

LEMMA RecordsHaveTypes == \A r \in Records : "type" \in DOMAIN r
BY DEF Records

LEMMA EndRecords ==
  ASSUME NEW t, NEW m, NEW list, NEW es, NEW a, NEW S, NEW n, Finished(t, m, list, es, a, S, n)
  PROVE  /\ RecordsIn(t) = S
         /\ \A e \in ToSet(Files(t)) : e.body.form = "lines" => \A r \in ToSet(e.body.lines) : "type" \in DOMAIN r
<1> DEFINE nf == Len(m.files)
<1>1. n \in Nat /\ nf \in 0..n /\ IsManifest(m) /\ ManifestValid(m) /\ m.form = "manifest"
  BY EndManifest, EndPaths
<1>2. nf \in Nat /\ DOMAIN m.files = 1..nf /\ \A k \in 1..nf : m.files[k].records \in Nat
  BY <1>1, ManifestFiles
<1>3. DOMAIN Files(t) = 1..(n + 2) /\ \A i \in 1..(n + 2) : Files(t)[i] = t[i]
  BY EndFraming
<1>4. S \in SUBSET Records
  BY DEF Finished, RecordsKnown, Known
<1>5. ASSUME NEW i \in 1..(n + 2), t[i].body.form = "lines" PROVE \E k \in 1..nf : i = k + 2
  <2>1. i # 1
    BY <1>1, <1>5 DEF Finished
  <2>2. i # 2
    <3>1. t[2].body.form = "checksums"
      BY DEF Finished
    <3> QED BY <1>5, <3>1
  <2>3. ~(i - 2 \in (nf + 1)..n)
    <3> SUFFICES ASSUME i - 2 \in (nf + 1)..n PROVE FALSE
      OBVIOUS
    <3>1. t[(i - 2) + 2].body = Blob(t[(i - 2) + 2].path.hash)
      BY EndPaths
    <3>2. (i - 2) + 2 = i
      BY <1>1
    <3>3. t[i].body.form = "blob"
      BY <3>1, <3>2 DEF Blob
    <3> QED BY <1>5, <3>3
  <2>4. i - 2 \in 1..nf /\ i = (i - 2) + 2
    <3> HIDE DEF nf
    <3> QED BY <1>1, <1>2, <2>1, <2>2, <2>3
  <2> QED BY <2>4
<1>6. /\ \A k \in 1..nf :
           /\ Len(LinesAt(t, k)) = m.files[k].records /\ LinesAt(t, k) \in Seq(Records \cup [bad : STRING])
           /\ t[k + 2].body = Lines(LinesAt(t, k))
           /\ \A j \in 1..m.files[k].records : LinesAt(t, k)[j] \in OfType(S, m.files[k].family)
      /\ \A r \in S : \E k \in 1..nf : \E j \in 1..m.files[k].records : r = LinesAt(t, k)[j]
  BY EndShards
<1>7. ASSUME NEW k \in 1..nf
      PROVE  /\ ToSet(t[k + 2].body.lines) = {LinesAt(t, k)[j] : j \in 1..m.files[k].records}
             /\ t[k + 2].body.form = "lines" /\ k + 2 \in 1..(n + 2)
             /\ ToSet(t[k + 2].body.lines) \in SUBSET S
  <2> DEFINE X == Records \cup [bad : STRING]
             ls == LinesAt(t, k)
  <2>1. ls \in Seq(X) /\ Len(ls) = m.files[k].records
    BY <1>6
  <2> HIDE DEF X, ls
  <2>2. DOMAIN ls = 1..m.files[k].records
    BY <2>1
  <2>3. ToSet(t[k + 2].body.lines) = {ls[j] : j \in 1..m.files[k].records}
    BY <2>2 DEF ToSet, ls, LinesAt
  <2>4. t[k + 2].body.form = "lines"
    <3>1. t[k + 2].body = Lines(ls)
      BY <1>6 DEF ls
    <3>2. Lines(ls).form = "lines"
      BY DEF Lines
    <3> QED BY <3>1, <3>2
  <2>5. \A j \in 1..m.files[k].records : ls[j] \in S
    BY <1>6 DEF OfType, ls
  <2>6. k + 2 \in 1..(n + 2)
    <3> HIDE DEF nf
    <3> QED BY <1>1, <1>2
  <2> QED BY <2>3, <2>4, <2>5, <2>6 DEF ls
<1>8. ASSUME NEW e \in ToSet(Files(t)), e.body.form = "lines" PROVE ToSet(e.body.lines) \in SUBSET S
  <2>1. PICK i \in 1..(n + 2) : e = t[i]
    BY <1>3 DEF ToSet
  <2>2. PICK k \in 1..nf : i = k + 2
    BY <1>5, <1>8, <2>1
  <2> QED BY <1>7, <2>1, <2>2
<1>9. ASSUME NEW r \in S PROVE \E e \in ToSet(Files(t)) : e.body.form = "lines" /\ r \in ToSet(e.body.lines)
  <2>1. PICK k \in 1..nf : \E j \in 1..m.files[k].records : r = LinesAt(t, k)[j]
    BY <1>6
  <2>2. t[k + 2] \in ToSet(Files(t))
    BY <1>3, <1>7 DEF ToSet
  <2>3. t[k + 2].body.form = "lines" /\ r \in ToSet(t[k + 2].body.lines)
    BY <1>7, <2>1
  <2> QED BY <2>2, <2>3
<1>10. RecordsIn(t) = S
  BY <1>8, <1>9 DEF RecordsIn
<1>11. \A e \in ToSet(Files(t)) : e.body.form = "lines" => \A r \in ToSet(e.body.lines) : "type" \in DOMAIN r
  BY <1>4, <1>8, RecordsHaveTypes
<1> QED BY <1>10, <1>11
-----------------------------------------------------------------------------
(* The records of a finished reading are sound.                            *)

LEMMA AppendParts ==
  ASSUME NEW X, NEW s \in Seq(X), NEW c \in X
  PROVE  Append(s, c)[Len(s) + 1] = c /\ \A i \in 1..Len(s) : Append(s, c)[i] = s[i]
OBVIOUS

LEMMA KeyOfMessage ==
  ASSUME NEW x, NEW y, NEW c, RevisionKey(y) = Append(MessageKey(x), c)
  PROVE  MessageKey(y) = MessageKey(x) /\ y.rev = c
<1> DEFINE X == {x.chat, x.msg, c}
           s == <<x.chat, x.msg>>
           w == <<y.chat, y.msg, y.rev>>
<1>1. s \in Seq(X) /\ Len(s) = 2 /\ s[1] = x.chat /\ s[2] = x.msg /\ c \in X
  OBVIOUS
<1>11. s \in Seq(X) /\ c \in X
  BY <1>1
<1>2. w[1] = y.chat /\ w[2] = y.msg /\ w[3] = y.rev
  OBVIOUS
<1>3. w = Append(s, c)
  BY DEF RevisionKey, MessageKey
<1> HIDE DEF X, s, w
<1>4. Append(s, c)[1] = s[1] /\ Append(s, c)[2] = s[2] /\ Append(s, c)[3] = c
  <2>1. Len(s) \in Nat /\ 1 \in 1..Len(s) /\ 2 \in 1..Len(s) /\ Len(s) + 1 = 3
    BY <1>1
  <2>2. Append(s, c)[Len(s) + 1] = c /\ \A i \in 1..Len(s) : Append(s, c)[i] = s[i]
    BY <1>11, AppendParts
  <2> DEFINE g == Append(s, c)
  <2> HIDE DEF g
  <2>3. g[Len(s) + 1] = c /\ \A i \in 1..Len(s) : g[i] = s[i]
    BY <2>2 DEF g
  <2>4. g[1] = s[1] /\ g[2] = s[2] /\ g[3] = c
    BY <2>1, <2>3
  <2> QED BY <2>4 DEF g
<1>5. y.chat = x.chat /\ y.msg = x.msg /\ y.rev = c
  BY <1>1, <1>2, <1>3, <1>4
<1> QED BY <1>5 DEF MessageKey

LEMMA EmptyByCardinality ==
  ASSUME NEW T, IsFiniteSet(T) PROVE Cardinality(T) = 0 <=> T = {}
BY FS_EmptySet

\* The revisions of the records, with what RevisionIssues checks of the accumulator.
LEMMA SoundRevisions ==
  ASSUME NEW a, NEW m, NEW S, Known(a, m, S), RevisionIssues(a) = {}, NEW r \in OfType(S, "revision")
  PROVE  LET own == MediaOf(S, RevisionKey(r)) IN
         /\ \E x \in OfType(S, "message") : MessageKey(x) = MessageKey(r)
         /\ r.rev \in 1..Cardinality(RevisionsOf(S, MessageKey(r)))
         /\ r.fits
         /\ r.content = "text" => r.text /\ own = {}
         /\ r.content = "caption" => r.text /\ own # {}
         /\ r.content = "none" => ~r.text /\ ~r.entities /\ own # {}
<1> DEFINE own == MediaOf(S, RevisionKey(r))
<1>1. MessagesKnown(a, S) /\ RevisionsKnown(a, S) /\ IsFiniteSet(S)
  BY DEF Known
<1>2. /\ RevisionKey(r) \in DOMAIN a.revisions
      /\ a.revisions[RevisionKey(r)] = Summary(r, Cardinality(own))
      /\ MessageKey(r) \in DOMAIN a.messages /\ r.fits
      /\ MessageKey(r) \in DOMAIN a.lastRevision /\ r.rev \in 1..a.lastRevision[MessageKey(r)]
      /\ a.lastRevision[MessageKey(r)] = Cardinality(RevisionsOf(S, MessageKey(r)))
  BY <1>1 DEF RevisionsKnown
<1>3. \E x \in OfType(S, "message") : MessageKey(x) = MessageKey(r)
  BY <1>1, <1>2 DEF MessagesKnown
<1>4. IsFiniteSet(own)
  <2>1. own \in SUBSET S
    BY DEF MediaOf, OfType
  <2> QED BY <1>1, <2>1, FS_Subset
<1>5. Cardinality(own) = 0 <=> own = {}
  BY <1>4, EmptyByCardinality
<1> DEFINE w == a.revisions[RevisionKey(r)]
<1>6. /\ w.content = "text" => w.text /\ w.media = 0
      /\ w.content = "caption" => w.text /\ w.media # 0
      /\ w.content = "none" => ~w.text /\ ~w.entities /\ w.media # 0
  BY <1>2, NoRevisionIssue
<1>7. w.content = r.content /\ w.text = r.text /\ w.entities = r.entities /\ w.media = Cardinality(own)
  BY <1>2 DEF Summary
<1> HIDE DEF w, own
<1>8. /\ r.content = "text" => r.text /\ own = {}
      /\ r.content = "caption" => r.text /\ own # {}
      /\ r.content = "none" => ~r.text /\ ~r.entities /\ own # {}
  BY <1>5, <1>6, <1>7
<1> QED BY <1>2, <1>3, <1>8 DEF own

LEMMA EndSound ==
  ASSUME NEW t, NEW m, NEW list, NEW es, NEW a, NEW S, NEW n, Finished(t, m, list, es, a, S, n)
  PROVE  Sound(S, m.media, m.provenance)
<1>1. Known(a, m, S) /\ InOrder(a, S)
  BY DEF Finished, RecordsKnown
<1>2. FinishIssues(a, m, list, es) = {}
  BY DEF Finished
<1>3. RevisionIssues(a) = {} /\ MediaIssues(a, m, es) = {}
  BY <1>2, NoIssue
<1>4. BlobsMatch(a, es)
  BY <1>3, NoMediaIssue
<1>5. /\ ChannelsKnown(a, S) /\ MessagesKnown(a, S) /\ RevisionsKnown(a, S) /\ AttachedKnown(a, S)
      /\ OriginalsKnown(a, m, S) /\ ObservationsKnown(a, m, S) /\ ObservedKnown(a, m, S)
  BY <1>1 DEF Known
<1> DEFINE channels == OfType(S, "channel")
           messages == OfType(S, "message")
           revisions == OfType(S, "revision")
           attached == OfType(S, "revision-media")
           observations == OfType(S, "provenance-observation")
           observed == OfType(S, "provenance-media")
<1>6. \A r, s \in S : r.type = s.type /\ OrderParts(r) = OrderParts(s) => r = s
  BY <1>1 DEF InOrder
<1>7. ASSUME NEW x \in messages
      PROVE  /\ \E c \in channels : c.chat = x.chat
             /\ \E r \in revisions : MessageKey(r) = MessageKey(x) /\ r.rev = x.current
             /\ x.hidden <=> x.changed
  <2>1. x.chat \in a.channels /\ MessageKey(x) \in DOMAIN a.messages /\ a.messages[MessageKey(x)] = x.current
    BY <1>5 DEF MessagesKnown
  <2>2. \E c \in channels : c.chat = x.chat
    BY <1>5, <2>1 DEF ChannelsKnown
  <2>3. Append(MessageKey(x), x.current) \in DOMAIN a.revisions
    BY <1>3, <2>1, NoRevisionIssue
  <2>4. PICK r \in revisions : RevisionKey(r) = Append(MessageKey(x), x.current)
    BY <1>5, <2>3 DEF RevisionsKnown
  <2>5. MessageKey(r) = MessageKey(x) /\ r.rev = x.current
    BY <2>4, KeyOfMessage
  <2>6. x \in S /\ x.type = "message"
    BY DEF OfType
  <2>7. x.hidden <=> x.changed
    BY <1>1, <2>6 DEF InOrder
  <2> QED BY <2>2, <2>5, <2>7
<1>8. ASSUME NEW r \in revisions
      PROVE  LET own == {x \in attached : RevisionKey(x) = RevisionKey(r)} IN
             /\ \E x \in messages : MessageKey(x) = MessageKey(r)
             /\ r.rev \in 1..Cardinality({x \in revisions : MessageKey(x) = MessageKey(r)})
             /\ r.fits
             /\ r.content = "text" => r.text /\ own = {}
             /\ r.content = "caption" => r.text /\ own # {}
             /\ r.content = "none" => ~r.text /\ ~r.entities /\ own # {}
  <2>1. LET own == MediaOf(S, RevisionKey(r)) IN
        /\ \E x \in OfType(S, "message") : MessageKey(x) = MessageKey(r)
        /\ r.rev \in 1..Cardinality(RevisionsOf(S, MessageKey(r)))
        /\ r.fits
        /\ r.content = "text" => r.text /\ own = {}
        /\ r.content = "caption" => r.text /\ own # {}
        /\ r.content = "none" => ~r.text /\ ~r.entities /\ own # {}
    BY <1>1, <1>3, SoundRevisions
  <2> QED BY <2>1 DEF MediaOf, RevisionsOf
<1>9. ASSUME NEW x \in attached
      PROVE  /\ \E r \in revisions : RevisionKey(r) = RevisionKey(x)
             /\ x.pos \in 0..(Cardinality({b \in attached : RevisionKey(b) = RevisionKey(x)}) - 1)
             /\ x.located
  <2>1. /\ RevisionKey(x) \in DOMAIN a.revisions /\ x.located
        /\ RevisionKey(x) \in DOMAIN a.lastMedia /\ x.pos \in 0..a.lastMedia[RevisionKey(x)]
        /\ a.lastMedia[RevisionKey(x)] = Cardinality(MediaOf(S, RevisionKey(x))) - 1
    BY <1>5 DEF AttachedKnown
  <2>2. \E r \in revisions : RevisionKey(r) = RevisionKey(x)
    BY <1>5, <2>1 DEF RevisionsKnown
  <2>3. x.pos \in 0..(Cardinality(MediaOf(S, RevisionKey(x))) - 1)
    BY <2>1
  <2> QED BY <2>1, <2>2, <2>3 DEF MediaOf
<1>10. ASSUME NEW x \in Originals(S)
       PROVE  /\ \A y \in Originals(S) : x.original[1] = y.original[1] => x.original = y.original
              /\ x.original[4] => m.media /\ x.available /\ x.original[2] = BlobBytes[x.original[1]]
  <2> DEFINE h == x.original[1]
  <2>1. /\ h \in DOMAIN a.originals /\ a.originals[h].is = x.original
        /\ x.original[4] => x.available /\ m.media
    BY <1>5 DEF OriginalsKnown
  <2>2. \A y \in Originals(S) : x.original[1] = y.original[1] => x.original = y.original
    <3> TAKE y \in Originals(S)
    <3>1. a.originals[y.original[1]].is = y.original
      BY <1>5 DEF OriginalsKnown
    <3> QED BY <2>1, <3>1
  <2>3. ASSUME x.original[4] PROVE x.original[2] = BlobBytes[h]
    <3>1. h \in HeldHashes(a)
      BY <2>1, <2>3 DEF HeldHashes
    <3> HIDE DEF h
    <3>2. PICK i \in BlobsOf(es) : es[i].path.hash = h
      BY <1>4, <3>1 DEF BlobsMatch
    <3>3. es[i].bytes = a.originals[h].is[2]
      BY <1>4, <3>1, <3>2 DEF BlobsMatch
    <3>4. i \in (Len(m.files) + 1)..n
      <4>1. /\ BlobsOf(es) = (Len(m.files) + 1)..n
            /\ IncludedBlobs(S) = {PayloadAt(t, n)[j] : j \in (Len(m.files) + 1)..n}
        BY EndBlobs
      <4> QED BY <4>1
    <3>5. t[i + 2].body = Blob(t[i + 2].path.hash)
      BY <3>4, EndPaths
    <3>6. i \in 1..n
      <4>1. Len(m.files) \in 0..n /\ n \in Nat
        BY EndPaths, EndManifest
      <4> QED BY <3>4, <4>1
    <3>7. es[i] = ChecksumOf(t[i + 2])
      BY <3>6 DEF Finished
    <3>8. es[i].path = t[i + 2].path /\ es[i].bytes = Bytes(t[i + 2].body)
      BY <3>7 DEF ChecksumOf
    <3>9. Bytes(Blob(h)) = BlobBytes[h]
      BY DEF Bytes, Blob
    <3> QED BY <2>1, <3>2, <3>3, <3>5, <3>8, <3>9
  <2> QED BY <2>1, <2>2, <2>3
<1>11. ASSUME NEW o, Referring(a, m, o)
       PROVE  /\ m.provenance
              /\ \E x \in messages : MessageKey(x) = MessageKey(o)
              /\ o.rev # 0 => \E r \in revisions : RevisionKey(r) = RevisionKey(o)
  BY <1>5, <1>11 DEF Referring, MessagesKnown, RevisionsKnown
<1>12. \A o \in observations \cup observed : Referring(a, m, o)
  BY <1>5 DEF ObservationsKnown, ObservedKnown
<1>13. \A o, p \in observations : Identity(o.source) = Identity(p.source) => o = p
  BY <1>5 DEF ObservationsKnown
<1>14. ASSUME NEW x \in observed
       PROVE  /\ \E o \in observations : ProvenanceKey(o) = ProvenanceKey(x)
              /\ x.pos \in 0..(Cardinality({b \in observed : ProvenanceKey(b) = ProvenanceKey(x)}) - 1)
              /\ x.located
  <2>1. /\ ProvenanceKey(x) \in a.observations /\ x.located
        /\ ProvenanceKey(x) \in DOMAIN a.lastObserved /\ x.pos \in 0..a.lastObserved[ProvenanceKey(x)]
        /\ a.lastObserved[ProvenanceKey(x)] = Cardinality(ObservedOf(S, ProvenanceKey(x))) - 1
    BY <1>5 DEF ObservedKnown
  <2>2. \E o \in observations : ProvenanceKey(o) = ProvenanceKey(x)
    BY <1>5, <2>1 DEF ObservationsKnown
  <2>3. x.pos \in 0..(Cardinality(ObservedOf(S, ProvenanceKey(x))) - 1)
    BY <2>1
  <2> QED BY <2>1, <2>2, <2>3 DEF ObservedOf
<1>15. \A o \in observations \cup observed :
         /\ m.provenance
         /\ \E x \in messages : MessageKey(x) = MessageKey(o)
         /\ o.rev # 0 => \E r \in revisions : RevisionKey(r) = RevisionKey(o)
  BY <1>11, <1>12
<1> HIDE DEF channels, messages, revisions, attached, observations, observed
<1> QED BY <1>6, <1>7, <1>8, <1>9, <1>10, <1>13, <1>14, <1>15
        DEF Sound, channels, messages, revisions, attached, observations, observed

LEMMA EndCoherent ==
  ASSUME NEW t, NEW m, NEW list, NEW es, NEW a, NEW S, NEW n, Finished(t, m, list, es, a, S, n)
  PROVE  Coherent(t)
<1> DEFINE fs == Files(t)
           chats == Ascending({c.chat : c \in OfType(S, "channel")})
<1>1. Framed(t) /\ Len(fs) >= 2 /\ fs[1].body = m
  BY EndFraming
<1>2. RecordsIn(t) = S
  BY EndRecords
<1>3. \A e \in ToSet(fs) : e.body.form = "lines" => \A r \in ToSet(e.body.lines) : "type" \in DOMAIN r
  BY EndRecords
<1>4. n \in Nat /\ IsManifest(m) /\ ManifestValid(m) /\ m.form = "manifest"
  BY EndManifest
<1>5. Sound(S, m.media, m.provenance)
  BY EndSound
<1>6. m.selection \in {<<>>, chats}
  <2>1. FinishIssues(a, m, list, es) = {}
    BY DEF Finished
  <2>2. CountIssues(a, m) = {}
    BY <2>1, NoIssue
  <2>3. m.selection = <<>> \/ m.selection = Ascending(a.channels)
    BY <2>2, NoCountIssue
  <2>4. ChannelsKnown(a, S)
    BY DEF Finished, RecordsKnown, Known
  <2>5. a.channels = {c.chat : c \in OfType(S, "channel")}
    BY <2>4 DEF ChannelsKnown
  <2> QED BY <2>3, <2>5
<1>7. ASSUME NEW f \in Families
      PROVE  /\ \A i \in DOMAIN SizesOf(m)[f] : SizesOf(m)[f][i] \in 1..MaxShardRecords
             /\ Total(SizesOf(m)[f]) = Cardinality(OfType(S, f))
  <2>1. Total(SizesOf(m)[f]) = Cardinality(OfType(S, f))
    BY EndCounts
  <2>2. ASSUME NEW i \in DOMAIN SizesOf(m)[f] PROVE SizesOf(m)[f][i] \in 1..MaxShardRecords
    <3> DEFINE c == Cardinality(FilesOf(m, f))
               z == SizesOf(m)[f]
    <3>1. /\ c \in Nat /\ DOMAIN z = 1..c
          /\ \A k \in FilesOf(m, f) : z[m.files[k].shard + 1] = m.files[k].records
          /\ \A j \in 1..c : \E k \in FilesOf(m, f) : m.files[k].shard = j - 1
      BY <1>4, OwnShards
    <3> HIDE DEF c, z
    <3>2. i \in 1..c
      BY <3>1 DEF z
    <3>3. PICK k \in FilesOf(m, f) : m.files[k].shard = i - 1
      BY <3>1, <3>2
    <3>4. (i - 1) + 1 = i
      BY <3>1, <3>2
    <3>5. z[i] = m.files[k].records
      BY <3>1, <3>3, <3>4
    <3>6. k \in DOMAIN m.files
      BY DEF FilesOf
    <3>7. m.files[k].records \in 1..MaxShardRecords
      BY <1>4, <3>6, ManifestFiles
    <3> QED BY <3>5, <3>7 DEF z
  <2> QED BY <2>1, <2>2
<1>8. t = ArchiveOf(S, SizesOf(m), m.media, m.provenance, m.selection)
  <2> DEFINE pl == PayloadAt(t, n)
  <2>1. pl = Payload(S, SizesOf(m))
    BY EndPayload
  <2>2. m = ManifestFor(S, pl, m.media, m.provenance, m.selection)
    BY EndManifestIs
  <2>3. t = Pack(<<Entry(ManifestPath, m), Entry(ChecksumPath, m.checksums)>> \o pl)
    BY EndPack
  <2> DEFINE q == Payload(S, SizesOf(m))
             mf == ManifestFor(S, q, m.media, m.provenance, m.selection)
  <2> HIDE DEF pl
  <2>4. ArchiveOf(S, SizesOf(m), m.media, m.provenance, m.selection) =
          Pack(<<Entry(ManifestPath, mf), Entry(ChecksumPath, mf.checksums)>> \o q)
    BY DEF ArchiveOf
  <2>5. q = pl /\ mf = m
    BY <2>1, <2>2
  <2> HIDE DEF q, mf
  <2> QED BY <2>3, <2>4, <2>5
<1> DEFINE b == Files(t)[1].body
           R == RecordsIn(t)
<1>9. b = m /\ R = S
  BY <1>1, <1>2
<1> HIDE DEF b, R
<1>10. /\ b.form = "manifest"
       /\ Sound(R, b.media, b.provenance)
       /\ \A f \in Families :
            /\ \A i \in DOMAIN SizesOf(b)[f] : SizesOf(b)[f][i] \in 1..MaxShardRecords
            /\ Total(SizesOf(b)[f]) = Cardinality(OfType(R, f))
       /\ t = ArchiveOf(R, SizesOf(b), b.media, b.provenance, b.selection)
  BY <1>4, <1>5, <1>7, <1>8, <1>9
<1>11. b.selection \in {<<>>, Ascending({c.chat : c \in OfType(R, "channel")})}
  BY <1>6, <1>9
<1> QED BY <1>1, <1>3, <1>10, <1>11 DEF Coherent, SizesOf, FilesOf, b, R
-----------------------------------------------------------------------------
(* The reading keeps what it knows of the records up to where it is.       *)

\* An issue that is noted stays noted.
LEMMA IssuesStay ==
  ASSUME NEW a, DOMAIN a = Fields, NEW m, NEW r, r.type \in Families \/ r.type = "none",
         m.files[a.file].family \in Families
  PROVE  /\ DOMAIN Accept(a, m, r) = Fields /\ (Accept(a, m, r).issues = {} => a.issues = {})
         /\ Accept(a, m, r).file \in {a.file, a.file + 1}
<1> DEFINE shard == m.files[a.file]
           last == a.line + 1 = shard.records
           ordered == IF r.type \in DOMAIN a.lastOrder
                      THEN Less(a.lastOrder[r.type], OrderParts(r)) ELSE TRUE
           p == [a EXCEPT !.records = @ + 1,
                          !.file = IF last THEN @ + 1 ELSE @,
                          !.line = IF last THEN 0 ELSE @ + 1]
           c == [p EXCEPT !.lastOrder = Put(@, r.type, OrderParts(r)),
                          !.issues = @ \cup When(~ordered, "record_order_or_identity_invalid")]
           b == Accept(a, m, r)
<1>1. b = IF ~RecordValid(shard.family, r)
          THEN [p EXCEPT !.issues = @ \cup {"record_schema_invalid"}]
          ELSE CASE r.type = "channel" -> AcceptChannel(c, r)
                 [] r.type = "message" -> AcceptMessage(c, r)
                 [] r.type = "revision" -> AcceptRevision(c, r)
                 [] r.type = "revision-media" -> AcceptRevisionMedia(c, r, m)
                 [] r.type = "provenance-observation" -> AcceptObservation(c, r, m)
                 [] r.type = "provenance-media" -> AcceptObserved(c, r, m)
  BY DEF Accept
<1>2. DOMAIN p = Fields /\ p.issues = a.issues /\ p.file \in {a.file, a.file + 1}
  BY DEF Fields
<1>3. DOMAIN c = Fields /\ (c.issues = {} => a.issues = {}) /\ c.file \in {a.file, a.file + 1}
  <2> HIDE DEF p, last, ordered
  <2>1. DOMAIN c = Fields /\ c.file = p.file /\ c.issues = p.issues \cup When(~ordered, "record_order_or_identity_invalid")
    BY <1>2 DEF Fields
  <2> HIDE DEF c
  <2> QED BY <1>2, <2>1
<1> HIDE DEF p, c, b
<1>4. CASE ~RecordValid(shard.family, r)
  <2>1. b = [p EXCEPT !.issues = @ \cup {"record_schema_invalid"}]
    BY <1>1, <1>4
  <2>2. DOMAIN b = Fields /\ "record_schema_invalid" \in b.issues /\ b.file = p.file
    BY <1>2, <2>1 DEF Fields
  <2> QED BY <1>2, <2>2 DEF b
<1>5. CASE RecordValid(shard.family, r)
  <2>1. r.type \in Families
    BY <1>5 DEF RecordValid
  <2>2. CASE r.type = "channel"
    <3>1. b = AcceptChannel(c, r)
      BY <1>1, <1>5, <2>2
    <3>2. /\ DOMAIN AcceptChannel(c, r) = Fields /\ (AcceptChannel(c, r).issues = {} => c.issues = {})
          /\ AcceptChannel(c, r).file = c.file
      <4>1. /\ DOMAIN AcceptChannel(c, r) = Fields /\ (AcceptChannel(c, r).issues = {} => c.issues = {})
            /\ \A f \in Fields \ {"channels", "channelRows", "issues"} : AcceptChannel(c, r)[f] = c[f]
        BY <1>3, ChannelFields
      <4> QED BY <4>1 DEF Fields
    <3> QED BY <1>3, <3>1, <3>2 DEF b
  <2>3. CASE r.type = "message"
    <3>1. b = AcceptMessage(c, r)
      BY <1>1, <1>5, <2>3
    <3>2. /\ DOMAIN AcceptMessage(c, r) = Fields /\ (AcceptMessage(c, r).issues = {} => c.issues = {})
          /\ AcceptMessage(c, r).file = c.file
      <4>1. /\ DOMAIN AcceptMessage(c, r) = Fields /\ (AcceptMessage(c, r).issues = {} => c.issues = {})
            /\ \A f \in Fields \ {"messages", "visible", "hidden", "issues"} : AcceptMessage(c, r)[f] = c[f]
        BY <1>3, MessageFields
      <4> QED BY <4>1 DEF Fields
    <3> QED BY <1>3, <3>1, <3>2 DEF b
  <2>4. CASE r.type = "revision"
    <3>1. b = AcceptRevision(c, r)
      BY <1>1, <1>5, <2>4
    <3>2. /\ DOMAIN AcceptRevision(c, r) = Fields /\ (AcceptRevision(c, r).issues = {} => c.issues = {})
          /\ AcceptRevision(c, r).file = c.file
      <4>1. /\ DOMAIN AcceptRevision(c, r) = Fields /\ (AcceptRevision(c, r).issues = {} => c.issues = {})
            /\ \A f \in Fields \ {"lastRevision", "revisionRows", "revisions", "issues"} : AcceptRevision(c, r)[f] = c[f]
        BY <1>3, RevisionFields
      <4> QED BY <4>1 DEF Fields
    <3> QED BY <1>3, <3>1, <3>2 DEF b
  <2>5. CASE r.type = "revision-media"
    <3>1. b = AcceptRevisionMedia(c, r, m)
      BY <1>1, <1>5, <2>5
    <3>2. DOMAIN AcceptRevisionMedia(c, r, m) = Fields /\ AcceptRevisionMedia(c, r, m).file = c.file
      BY <1>3, MediaFields DEF Fields
    <3>3. AcceptRevisionMedia(c, r, m).issues = {} => c.issues = {}
      <4>1. DOMAIN Attach(c, r) = Fields /\ (Attach(c, r).issues = {} => c.issues = {})
        BY <1>3, AttachFields
      <4>2. NoteOriginal(Attach(c, r), r, m).issues = {} => Attach(c, r).issues = {}
        BY <4>1, OriginalFields
      <4>3. AcceptRevisionMedia(c, r, m) = IF r.original = <<>> THEN Attach(c, r)
                                           ELSE NoteOriginal(Attach(c, r), r, m)
        BY DEF AcceptRevisionMedia, Attach
      <4> QED BY <4>1, <4>2, <4>3
    <3> QED BY <1>3, <3>1, <3>2, <3>3 DEF b
  <2>6. CASE r.type = "provenance-observation"
    <3>1. b = AcceptObservation(c, r, m)
      BY <1>1, <1>5, <2>6
    <3>2. /\ DOMAIN AcceptObservation(c, r, m) = Fields /\ (AcceptObservation(c, r, m).issues = {} => c.issues = {})
          /\ AcceptObservation(c, r, m).file = c.file
      <4>1. /\ DOMAIN AcceptObservation(c, r, m) = Fields /\ (AcceptObservation(c, r, m).issues = {} => c.issues = {})
            /\ \A f \in Fields \ {"observations", "sources", "provenanceRows", "issues"} : AcceptObservation(c, r, m)[f] = c[f]
        BY <1>3, ObservationFields
      <4> QED BY <4>1 DEF Fields
    <3> QED BY <1>3, <3>1, <3>2 DEF b
  <2>7. CASE r.type = "provenance-media"
    <3>1. b = AcceptObserved(c, r, m)
      BY <1>1, <1>5, <2>7
    <3>2. /\ DOMAIN AcceptObserved(c, r, m) = Fields /\ (AcceptObserved(c, r, m).issues = {} => c.issues = {})
          /\ AcceptObserved(c, r, m).file = c.file
      <4>1. /\ DOMAIN AcceptObserved(c, r, m) = Fields /\ (AcceptObserved(c, r, m).issues = {} => c.issues = {})
            /\ \A f \in Fields \ {"lastObserved", "provenanceRows", "issues"} : AcceptObserved(c, r, m)[f] = c[f]
        BY <1>3, ObservedFields
      <4> QED BY <4>1 DEF Fields
    <3> QED BY <1>3, <3>1, <3>2 DEF b
  <2> QED BY <2>1, <2>2, <2>3, <2>4, <2>5, <2>6, <2>7, FamilyNames
<1> QED BY <1>4, <1>5 DEF b

\* As long as no issue is noted, the accumulator knows the records at the places D of t.
RecordsRead(a, m, t, D) ==
    /\ DOMAIN a = Fields /\ a.file \in Nat \ {0}
    /\ a.issues = {} => \E S : RecordsKnown(a, m, S) /\ Placement(a, m, t, S, D)

LEMMA NothingRead ==
  ASSUME NEW m, IsManifest(m), ManifestValid(m), NEW t PROVE RecordsRead(EmptyAcc, m, t, {})
<1>1. Placement(EmptyAcc, m, t, {}, {}) /\ RecordsKnown(EmptyAcc, m, {})
  BY NothingPlaced
<1>2. DOMAIN EmptyAcc = Fields /\ EmptyAcc.file = 1
  BY DEF EmptyAcc, Fields
<1> QED BY <1>1, <1>2 DEF RecordsRead

\* One more record, at the place that is due.
LEMMA ReadRecord ==
  ASSUME NEW a, NEW m, IsManifest(m), ManifestValid(m), NEW t, NEW D, RecordsRead(a, m, t, D),
         NEW d, NEW r, r \in Records \/ r.type = "none", r \in Records => r = Line(t, d),
         NEW p, p = PathAt(t, d), NEW l, l = d[2],
         Placed(a, m, p, l)
  PROVE  RecordsRead(Accept(a, m, r), m, t, D \cup {d})
<1> DEFINE b == Accept(a, m, r)
<1>1. r.type \in Families \/ r.type = "none"
  BY PartsAreNumbers
<1>0. m.files[a.file].family \in Families
  <2>1. a.file \in 1..Len(m.files)
    BY ManifestFiles DEF RecordsRead, Placed
  <2> QED BY <2>1, ManifestFiles
<1>2. /\ DOMAIN b = Fields /\ (b.issues = {} => a.issues = {})
      /\ b.file \in {a.file, a.file + 1}
  BY <1>0, <1>1, IssuesStay DEF RecordsRead
<1>3. ASSUME b.issues = {} PROVE \E S : RecordsKnown(b, m, S) /\ Placement(b, m, t, S, D \cup {d})
  <2>1. PICK S : RecordsKnown(a, m, S) /\ Placement(a, m, t, S, D)
    BY <1>2, <1>3 DEF RecordsRead
  <2>2. /\ r \in Records /\ r.type = m.files[a.file].family
        /\ \A x \in OfType(S, r.type) : Less(OrderParts(x), OrderParts(r)) /\ ~Less(OrderParts(r), OrderParts(x))
        /\ b.file = IF a.line + 1 = m.files[a.file].records THEN a.file + 1 ELSE a.file
        /\ b.line = IF a.line + 1 = m.files[a.file].records THEN 0 ELSE a.line + 1
        /\ RecordsKnown(b, m, S \cup {r})
    <3>1. LET bb == Accept(a, m, r)
              shard == m.files[a.file] IN
          /\ r \in Records /\ r.type = shard.family
          /\ \A x \in OfType(S, r.type) : Less(OrderParts(x), OrderParts(r)) /\ ~Less(OrderParts(r), OrderParts(x))
          /\ bb.file = IF a.line + 1 = shard.records THEN a.file + 1 ELSE a.file
          /\ bb.line = IF a.line + 1 = shard.records THEN 0 ELSE a.line + 1
          /\ RecordsKnown(bb, m, S \cup {r})
          /\ a.issues = {}
      BY <1>0, <1>3, <2>1, Accepted
    <3> QED BY <3>1
  <2>3. IsFiniteSet(S)
    BY <2>1 DEF RecordsKnown, Known
  <2>4. ~Less(OrderParts(r), OrderParts(r))
    BY <2>2, PartsOrder
  <2>5. a.file <= Len(m.files) /\ PathAt(t, d) = m.files[a.file].path /\ d[2] = a.line + 1
    BY DEF Placed
  <2>6. r = Line(t, d)
    BY <2>2
  <2> HIDE DEF b
  <2>7. Placement(b, m, t, S \cup {r}, D \cup {d})
    BY <2>1, <2>2, <2>3, <2>4, <2>5, <2>6, PlaceNext
  <2> QED BY <2>2, <2>7
<1>4. b.file \in Nat \ {0}
  BY <1>2 DEF RecordsRead
<1> QED BY <1>2, <1>3, <1>4 DEF RecordsRead
-----------------------------------------------------------------------------
(* The container, entry by entry.                                          *)

\* The places of the first n payload entries, and of the lines before l of the next.
PlacesRead(t, n, l) == Places(t, n) \cup {<<n + 1, k>> : k \in 1..(l - 1)}

LEMMA PlacesGrow ==
  ASSUME NEW t, NEW n \in Nat
  PROVE  /\ Places(t, 0) = {}
         /\ PlacesRead(t, n, 1) = Places(t, n)
         /\ \A l \in Nat \ {0} : PlacesRead(t, n, l + 1) = PlacesRead(t, n, l) \cup {<<n + 1, l>>}
         /\ t[n + 3].path.kind # "data" => Places(t, n + 1) = Places(t, n)
         /\ \A l \in Nat : t[n + 3].path.kind = "data" /\ DOMAIN t[n + 3].body.lines = 1..l =>
              Places(t, n + 1) = PlacesRead(t, n, l + 1)
<1>1. (n + 1) + 2 = n + 3 /\ n + 1 \in 1..(n + 1) /\ 1..(n + 1) = (1..n) \cup {n + 1} /\ n + 1 \notin 1..n
  OBVIOUS
<1>2. Places(t, 0) = {}
  BY DEF Places
<1>3. PlacesRead(t, n, 1) = Places(t, n)
  <2>1. 1..(1 - 1) = {}
    OBVIOUS
  <2> QED BY <2>1 DEF PlacesRead
<1>4. ASSUME NEW l \in Nat \ {0} PROVE PlacesRead(t, n, l + 1) = PlacesRead(t, n, l) \cup {<<n + 1, l>>}
  <2>1. 1..((l + 1) - 1) = (1..(l - 1)) \cup {l}
    OBVIOUS
  <2> QED BY <2>1 DEF PlacesRead
<1> DEFINE Due == {d \in {n + 1} \X (Nat \ {0}) : /\ t[d[1] + 2].path.kind = "data"
                                                  /\ d[2] \in DOMAIN t[d[1] + 2].body.lines}
<1>5. Places(t, n + 1) = Places(t, n) \cup Due
  BY <1>1 DEF Places
<1>6. ASSUME t[n + 3].path.kind # "data" PROVE Due = {}
  BY <1>1, <1>6
<1>7. ASSUME NEW l \in Nat, t[n + 3].path.kind = "data", DOMAIN t[n + 3].body.lines = 1..l
      PROVE  Due = {<<n + 1, k>> : k \in 1..((l + 1) - 1)}
  <2>1. (l + 1) - 1 = l /\ 1..l \subseteq Nat \ {0}
    OBVIOUS
  <2>2. ASSUME NEW d \in Due PROVE \E k \in 1..l : d = <<n + 1, k>>
    <3>1. d[1] = n + 1 /\ d = <<d[1], d[2]>> /\ d[2] \in DOMAIN t[n + 3].body.lines
      BY <1>1
    <3> QED BY <1>7, <3>1
  <2>3. ASSUME NEW k \in 1..l PROVE <<n + 1, k>> \in Due
    <3>1. <<n + 1, k>>[1] = n + 1 /\ <<n + 1, k>>[2] = k /\ <<n + 1, k>> \in {n + 1} \X (Nat \ {0})
      BY <2>1
    <3> DEFINE d == <<n + 1, k>>
    <3>2. t[d[1] + 2].path.kind = "data" /\ d[2] \in DOMAIN t[d[1] + 2].body.lines
      BY <1>1, <1>7, <3>1
    <3> QED BY <3>1, <3>2
  <2> HIDE DEF Due
  <2> QED BY <2>1, <2>2, <2>3
<1> HIDE DEF Due
<1> QED BY <1>2, <1>3, <1>4, <1>5, <1>6, <1>7 DEF PlacesRead

\* What is in the container at a file.
LEMMA FileAt ==
  ASSUME tar \in Archives, NEW i \in DOMAIN tar, tar[i].el = "file"
  PROVE  /\ tar[i].path \in Paths /\ IsBody(tar[i].body)
         /\ Entry(tar[i].path, tar[i].body) # NoEntry /\ tar[i].body # NoManifest
         /\ tar[i].body.form = "checksums" => tar[i].body.list # NoList
<1>1. IsContainer(tar)
  BY ArchivesAssumption
<1>2. tar[i] \in ToSet(tar)
  BY DEF ToSet
<1>3. DOMAIN tar = 1..Len(tar)
  BY <1>1, ElementShapes
<1>4. tar[i].path \in Paths /\ IsBody(tar[i].body)
  BY <1>1, <1>3, ElementShapes
<1>5. /\ NoEntry # Entry(tar[i].path, tar[i].body)
      /\ NoManifest # tar[i].body
      /\ tar[i].body.form = "checksums" => NoList # tar[i].body.list
  BY <1>2, ArchivesAssumption
<1> QED BY <1>4, <1>5

\* The entries opened so far, and the lines of the open shard that are read, plus one.
FilesRead == IF entry = NoEntry THEN pos - 1 ELSE pos
NextLine == IF entry # NoEntry /\ entry.path.kind = "data" THEN line ELSE 1

\* The files before the current element have different paths, and are known to.
FilesInv ==
    /\ pos \in Nat \ {0}
    /\ \A i \in 1..FilesRead :
         i \in DOMAIN tar /\ tar[i].el = "file" /\ CollisionKey(tar[i].path) \in seen
    /\ \A i, j \in 1..FilesRead : CollisionKey(tar[i].path) = CollisionKey(tar[j].path) => i = j
    /\ entry # NoEntry => entry = Entry(tar[pos].path, tar[pos].body)

\* First the manifest, then the list that it holds, then what they plan.
StagesInv ==
    /\ (manifest = NoManifest <=> pos = 1) /\ (listed = NoList <=> pos \in 1..2)
    /\ entry # NoEntry => /\ pos = 1 => entry.path = ManifestPath
                          /\ pos = 2 => entry.path = ChecksumPath
    /\ pos # 1 => /\ tar[1].path = ManifestPath /\ tar[1].body = manifest
                  /\ ManifestReadable(manifest) /\ manifest.canonical
    /\ pos \notin 1..2 => /\ tar[2].path = ChecksumPath /\ tar[2].body.form = "checksums"
                          /\ tar[2].body.list = listed /\ ~Repeats(listed)

PayloadInv ==
    /\ evidence = [i \in 1..(pos - 3) |-> ChecksumOf(tar[i + 2])]
    /\ \A i \in 3..(pos - 1) : tar[i].path.kind = "data" => tar[i].body.form = "lines"
    /\ entry # NoEntry /\ entry.path.kind = "data" =>
         line \in Nat \ {0} /\ (entry.body.form = "lines" => line <= Len(entry.body.lines) + 1)
    /\ pos \in 1..2 => acc = EmptyAcc
    /\ pos \notin 1..2 => RecordsRead(acc, manifest, tar, PlacesRead(tar, pos - 3, NextLine))

TarInv == FilesInv /\ StagesInv /\ PayloadInv

LEMMA ControlPaths ==
  /\ ManifestPath.kind = "manifest" /\ ChecksumPath.kind = "checksums" /\ ManifestPath # ChecksumPath
  /\ CollisionKey(ManifestPath) = ManifestPath /\ CollisionKey(ChecksumPath) = ChecksumPath
BY DEF CollisionKey, ManifestPath, ChecksumPath

\* The kind of the open entry tells the stage.
LEMMA StageOfEntry ==
  ASSUME tar \in Archives, TarInv, entry # NoEntry
  PROVE  /\ pos \in DOMAIN tar /\ tar[pos].el = "file"
         /\ entry.path = tar[pos].path /\ entry.body = tar[pos].body
         /\ entry.path \in Paths /\ IsBody(entry.body)
         /\ entry.path.kind = "manifest" => pos = 1
         /\ entry.path.kind = "checksums" => pos = 2
         /\ entry.path.kind \notin {"manifest", "checksums"} => pos \notin 1..2
<1>1. pos \in Nat \ {0} /\ pos \in 1..FilesRead
  BY DEF TarInv, FilesInv, FilesRead
<1>2. pos \in DOMAIN tar /\ tar[pos].el = "file"
  BY <1>1 DEF TarInv, FilesInv
<1>3. entry.path = tar[pos].path /\ entry.body = tar[pos].body
  <2>1. entry = Entry(tar[pos].path, tar[pos].body)
    BY DEF TarInv, FilesInv
  <2>2. \A p, b : Entry(p, b).path = p /\ Entry(p, b).body = b
    BY DEF Entry
  <2> QED BY <2>1, <2>2
<1>4. entry.path \in Paths /\ IsBody(entry.body)
  BY <1>2, <1>3, FileAt
<1>5. \A i \in 1..FilesRead : CollisionKey(tar[i].path) = CollisionKey(tar[pos].path) => i = pos
  BY <1>1 DEF TarInv, FilesInv
<1>6. 1..2 = {1, 2} /\ FilesRead = pos
  BY DEF FilesRead
<1>7. ASSUME entry.path.kind = "manifest" PROVE pos = 1
  <2>1. entry.path = ManifestPath
    BY <1>4, <1>7, PathShapes
  <2>2. pos # 1 => tar[1].path = ManifestPath
    BY DEF TarInv, StagesInv
  <2>3. 1 \in 1..FilesRead
    BY <1>1, <1>6
  <2> QED BY <1>3, <1>5, <2>1, <2>2, <2>3
<1>8. ASSUME entry.path.kind = "checksums" PROVE pos = 2
  <2>1. entry.path = ChecksumPath
    BY <1>4, <1>8, PathShapes
  <2>2. pos # 1
    BY <2>1, ControlPaths DEF TarInv, StagesInv
  <2>3. pos \notin 1..2 => tar[2].path = ChecksumPath
    BY DEF TarInv, StagesInv
  <2>4. 2 \in 1..FilesRead
    BY <1>1, <1>6, <2>2
  <2>5. pos \notin 1..2 => 2 = pos
    BY <1>3, <1>5, <2>1, <2>3, <2>4
  <2> QED BY <1>6, <2>2, <2>5
<1>9. ASSUME entry.path.kind \notin {"manifest", "checksums"} PROVE pos \notin 1..2
  BY <1>6, <1>9, ControlPaths DEF TarInv, StagesInv
<1> QED BY <1>2, <1>3, <1>4, <1>7, <1>8, <1>9

\* The manifest that was read.
LEMMA ManifestRead ==
  ASSUME tar \in Archives, TarInv, pos # 1
  PROVE  IsManifest(manifest) /\ ManifestValid(manifest) /\ ManifestReadable(manifest) /\ manifest.canonical
<1>1. tar[1].body = manifest /\ ManifestReadable(manifest) /\ manifest.canonical
  BY DEF TarInv, StagesInv
<1>2. 1 \in 1..FilesRead
  BY DEF TarInv, FilesInv, FilesRead
<1>3. 1 \in DOMAIN tar /\ tar[1].el = "file"
  BY <1>2 DEF TarInv, FilesInv
<1>4. IsBody(manifest)
  BY <1>1, <1>3, FileAt
<1>5. manifest.form = "manifest" /\ ManifestValid(manifest)
  BY <1>1 DEF ManifestReadable
<1> QED BY <1>1, <1>4, <1>5, BodyShapes

LEMMA TarBegins ==
  ASSUME tar \in Archives, ValidationInit PROVE TarInv
<1>1. pos = 1 /\ entry = NoEntry /\ manifest = NoManifest /\ listed = NoList /\ evidence = <<>> /\ acc = EmptyAcc
  BY DEF ValidationInit
<1>2. FilesInv
  <2>1. FilesRead = 0 /\ 1..FilesRead = {}
    BY <1>1 DEF FilesRead
  <2> QED BY <1>1, <2>1 DEF FilesInv
<1>3. StagesInv
  BY <1>1 DEF StagesInv
<1>4. PayloadInv
  <2>1. 1..(pos - 3) = {} /\ 3..(pos - 1) = {}
    BY <1>1
  <2>2. <<>> = [i \in {} |-> ChecksumOf(tar[i + 2])]
    OBVIOUS
  <2> QED BY <1>1, <2>1, <2>2 DEF PayloadInv
<1> QED BY <1>2, <1>3, <1>4 DEF TarInv
LEMMA OpenKeeps ==
  ASSUME tar \in Archives, TarInv, OpenEntry, verdict' = "reading"
  PROVE  TarInv'
<1>1. /\ entry = NoEntry /\ pos \in 1..Len(tar) /\ tar[pos].el = "file"
      /\ ~EntryRefused(tar[pos].path, Bytes(tar[pos].body))
      /\ entry' = Entry(tar[pos].path, tar[pos].body) /\ line' = 1
      /\ seen' = seen \cup {CollisionKey(tar[pos].path)}
      /\ UNCHANGED <<tar, mode, pos, manifest, listed, payload, evidence, acc>>
  BY DEF OpenEntry, Fail, TarInv, FilesInv
<1>2. pos \in DOMAIN tar
  <2>1. IsContainer(tar)
    BY ArchivesAssumption
  <2> QED BY <1>1, <2>1, ElementShapes
<1>3. entry' # NoEntry /\ entry'.path = tar[pos].path /\ entry'.body = tar[pos].body
  <2>1. Entry(tar[pos].path, tar[pos].body) # NoEntry
    BY <1>1, <1>2, FileAt
  <2>2. \A p, b : Entry(p, b).path = p /\ Entry(p, b).body = b
    BY DEF Entry
  <2> QED BY <1>1, <2>1, <2>2
<1>4. CollisionKey(tar[pos].path) \notin seen /\ tar[pos].path = Expected
  BY <1>1 DEF EntryRefused
<1>5. FilesRead = pos - 1 /\ FilesRead' = pos /\ pos \in Nat \ {0}
  BY <1>1, <1>3 DEF FilesRead, TarInv, FilesInv
<1>6. FilesInv'
  <2>1. ASSUME NEW i \in 1..pos PROVE i \in DOMAIN tar /\ tar[i].el = "file" /\ CollisionKey(tar[i].path) \in seen'
    <3>1. CASE i = pos
      BY <1>1, <1>2, <3>1
    <3>2. CASE i # pos
      <4>1. i \in 1..FilesRead
        BY <1>5, <3>2
      <4> QED BY <1>1, <4>1 DEF TarInv, FilesInv
    <3> QED BY <3>1, <3>2
  <2>2. ASSUME NEW i \in 1..pos, NEW j \in 1..pos, CollisionKey(tar[i].path) = CollisionKey(tar[j].path)
        PROVE  i = j
    <3>1. ASSUME NEW k \in 1..pos, k # pos PROVE k \in 1..FilesRead /\ CollisionKey(tar[k].path) \in seen
      <4>1. k \in 1..FilesRead
        BY <1>5, <3>1
      <4> QED BY <4>1 DEF TarInv, FilesInv
    <3>2. CASE i # pos /\ j # pos
      BY <2>2, <3>1, <3>2 DEF TarInv, FilesInv
    <3>3. CASE ~(i # pos /\ j # pos)
      BY <1>4, <2>2, <3>1, <3>3
    <3> QED BY <3>2, <3>3
  <2>3. \A i \in 1..FilesRead' :
          i \in DOMAIN tar' /\ tar'[i].el = "file" /\ CollisionKey(tar'[i].path) \in seen'
    BY <1>1, <1>5, <2>1
  <2>4. \A i, j \in 1..FilesRead' : CollisionKey(tar'[i].path) = CollisionKey(tar'[j].path) => i = j
    BY <1>1, <1>5, <2>2
  <2> QED BY <1>1, <1>5, <2>3, <2>4 DEF FilesInv
<1>7. StagesInv'
  <2>1. (pos = 1 => tar[pos].path = ManifestPath) /\ (pos = 2 => tar[pos].path = ChecksumPath)
    BY <1>4 DEF Expected, TarInv, StagesInv
  <2> QED BY <1>1, <1>3, <2>1 DEF TarInv, StagesInv
<1>8. PayloadInv'
  <2>1. NextLine = 1 /\ NextLine' = 1
    BY <1>1 DEF NextLine
  <2>2. entry'.body.form = "lines" => 1 <= Len(entry'.body.lines) + 1
    <3> SUFFICES ASSUME entry'.body.form = "lines" PROVE 1 <= Len(entry'.body.lines) + 1
      OBVIOUS
    <3>1. IsBody(entry'.body)
      BY <1>1, <1>2, <1>3, FileAt
    <3>2. entry'.body.lines \in Seq(Records \cup [bad : STRING])
      BY <3>1, BodyShapes
    <3> DEFINE X == Records \cup [bad : STRING]
               ls == entry'.body.lines
    <3>3. ls \in Seq(X)
      BY <3>2
    <3> HIDE DEF X, ls
    <3>4. Len(ls) \in Nat
      BY <3>3
    <3> QED BY <3>4 DEF ls
  <2> QED BY <1>1, <2>1, <2>2 DEF TarInv, PayloadInv
<1> QED BY <1>6, <1>7, <1>8 DEF TarInv

\* The files are the same once the open entry is closed.
LEMMA CloseFiles ==
  ASSUME TarInv, entry # NoEntry, CloseEntry, UNCHANGED <<tar, seen>>
  PROVE  FilesInv'
<1>1. pos' = pos + 1 /\ entry' = NoEntry /\ pos \in Nat \ {0}
  BY DEF CloseEntry, TarInv, FilesInv
<1>2. FilesRead = pos /\ FilesRead' = pos
  BY <1>1 DEF FilesRead
<1> QED BY <1>1, <1>2 DEF TarInv, FilesInv

LEMMA ManifestKeeps ==
  ASSUME tar \in Archives, TarInv, ReadManifest, verdict' = "reading"
  PROVE  TarInv'
<1>1. /\ entry # NoEntry /\ entry.path.kind = "manifest" /\ manifest' = entry.body
      /\ ManifestReadable(entry.body) /\ entry.body.canonical /\ CloseEntry
      /\ UNCHANGED <<tar, mode, line, listed, payload, evidence, seen, size, acc>>
  BY DEF ReadManifest, Open, Fail
<1>2. /\ pos = 1 /\ pos \in DOMAIN tar /\ tar[pos].el = "file"
      /\ entry.path = tar[pos].path /\ entry.body = tar[pos].body /\ entry.path \in Paths
  BY <1>1, StageOfEntry
<1>3. pos' = 2 /\ entry' = NoEntry
  BY <1>1, <1>2 DEF CloseEntry
<1>4. FilesInv'
  BY <1>1, CloseFiles
<1>5. StagesInv'
  <2>1. manifest' # NoManifest
    BY <1>1, <1>2, FileAt
  <2>2. entry.path = ManifestPath
    BY <1>1, <1>2 DEF TarInv, StagesInv
  <2>3. listed' = NoList
    BY <1>1, <1>2 DEF TarInv, StagesInv
  <2> QED BY <1>1, <1>2, <1>3, <2>1, <2>2, <2>3 DEF StagesInv
<1>6. PayloadInv'
  <2>1. 1..(pos - 3) = {} /\ 1..(pos' - 3) = {} /\ 3..(pos' - 1) = {} /\ pos' \in 1..2 /\ pos \in 1..2
    BY <1>2, <1>3
  <2>2. evidence = [i \in {} |-> ChecksumOf(tar[i + 2])] /\ acc = EmptyAcc
    BY <2>1 DEF TarInv, PayloadInv
  <2> QED BY <1>1, <1>3, <2>1, <2>2 DEF PayloadInv
<1> QED BY <1>4, <1>5, <1>6 DEF TarInv

LEMMA ListKeeps ==
  ASSUME tar \in Archives, TarInv, ReadChecksums, verdict' = "reading"
  PROVE  TarInv'
<1>1. /\ entry # NoEntry /\ entry.path.kind = "checksums" /\ listed' = entry.body.list
      /\ entry.body = manifest.checksums /\ ~ListUnreadable(entry.body.list) /\ CloseEntry
      /\ UNCHANGED <<tar, mode, line, manifest, evidence, seen, size, acc>>
  BY DEF ReadChecksums, Open, Fail
<1>2. /\ pos = 2 /\ pos \in DOMAIN tar /\ tar[pos].el = "file"
      /\ entry.path = tar[pos].path /\ entry.body = tar[pos].body /\ entry.path \in Paths
  BY <1>1, StageOfEntry
<1>3. pos' = 3 /\ entry' = NoEntry
  BY <1>1, <1>2 DEF CloseEntry
<1>4. FilesInv'
  BY <1>1, CloseFiles
<1>5. IsManifest(manifest) /\ ManifestValid(manifest)
  BY <1>2, ManifestRead
<1>6. tar[2].body.form = "checksums"
  <2>1. IsList(entry.body)
    BY <1>1, <1>5 DEF IsManifest
  <2>2. entry.body.form = "checksums"
    BY <2>1 DEF IsList
  <2> QED BY <1>2, <2>2
<1>7. StagesInv'
  <2>1. listed' # NoList
    BY <1>1, <1>2, <1>6, FileAt
  <2>2. tar[2].path = ChecksumPath
    BY <1>1, <1>2 DEF TarInv, StagesInv
  <2>3. ~Repeats(listed')
    BY <1>1 DEF ListUnreadable, ListUnsound
  <2>4. pos' # 1 /\ pos' \notin 1..2 /\ pos # 1
    BY <1>2, <1>3
  <2>5. /\ manifest # NoManifest /\ tar[1].path = ManifestPath /\ tar[1].body = manifest
        /\ ManifestReadable(manifest) /\ manifest.canonical
    BY <2>4 DEF TarInv, StagesInv
  <2> QED BY <1>1, <1>2, <1>3, <1>6, <2>1, <2>2, <2>3, <2>4, <2>5 DEF StagesInv
<1>8. PayloadInv'
  <2>1. 1..(pos - 3) = {} /\ 1..(pos' - 3) = {} /\ 3..(pos' - 1) = {} /\ pos' \notin 1..2 /\ pos \in 1..2 /\ pos' - 3 = 0
    BY <1>2, <1>3
  <2>2. evidence = [i \in {} |-> ChecksumOf(tar[i + 2])] /\ acc = EmptyAcc
    BY <2>1 DEF TarInv, PayloadInv
  <2>3. RecordsRead(EmptyAcc, manifest, tar, {})
    BY <1>5, NothingRead
  <2>4. PlacesRead(tar, 0, 1) = {}
    BY PlacesGrow
  <2>5. NextLine' = 1
    BY <1>3 DEF NextLine
  <2>6. RecordsRead(acc', manifest', tar', PlacesRead(tar', pos' - 3, NextLine'))
    BY <1>1, <2>1, <2>2, <2>3, <2>4, <2>5
  <2> QED BY <1>1, <1>3, <2>1, <2>2, <2>6 DEF PayloadInv
<1> QED BY <1>4, <1>7, <1>8 DEF TarInv

LEMMA LineKeeps ==
  ASSUME tar \in Archives, TarInv, ReadLine, verdict' = "reading"
  PROVE  TarInv'
<1> DEFINE r == entry.body.lines[line]
<1>1. /\ entry # NoEntry /\ entry.path.kind = "data" /\ entry.body.form = "lines"
      /\ line <= Len(entry.body.lines) /\ "type" \in DOMAIN r
      /\ Placed(acc, manifest, entry.path, line)
      /\ acc' = Accept(acc, manifest, r) /\ line' = line + 1
      /\ UNCHANGED <<tar, mode, pos, entry, manifest, listed, payload, evidence, seen, size>>
  BY DEF ReadLine, Open, Fail
<1>2. /\ pos \notin 1..2 /\ pos \in DOMAIN tar /\ tar[pos].el = "file"
      /\ entry.path = tar[pos].path /\ entry.body = tar[pos].body /\ IsBody(entry.body)
  BY <1>1, StageOfEntry
<1>3. pos \in Nat \ {0} /\ line \in Nat \ {0}
  BY <1>1 DEF TarInv, FilesInv, PayloadInv
<1>4. IsManifest(manifest) /\ ManifestValid(manifest)
  <2>1. pos # 1
    BY <1>2
  <2> QED BY <2>1, ManifestRead
<1>5. Len(entry.body.lines) \in Nat /\ r \in Records
  <2> DEFINE X == Records \cup [bad : STRING]
             ls == entry.body.lines
  <2>1. ls \in Seq(X)
    BY <1>1, <1>2, BodyShapes
  <2> HIDE DEF X, ls
  <2>2. Len(ls) \in Nat /\ DOMAIN ls = 1..Len(ls)
    BY <2>1
  <2>3. line \in DOMAIN ls
    BY <1>1, <1>3, <2>2 DEF ls
  <2>4. ls[line] \in X
    BY <2>1, <2>3
  <2>5. \A x \in [bad : STRING] : "type" \notin DOMAIN x
    OBVIOUS
  <2> QED BY <1>1, <2>2, <2>4, <2>5 DEF X, ls
<1> DEFINE n == pos - 3
           d == <<n + 1, line>>
           D == PlacesRead(tar, n, line)
<1>6. n \in Nat /\ n + 1 + 2 = pos /\ n + 3 = pos
  BY <1>2, <1>3
<1>7. d[1] = n + 1 /\ d[2] = line
  OBVIOUS
<1>8. NextLine = line /\ NextLine' = line + 1
  BY <1>1 DEF NextLine
<1>9. RecordsRead(acc, manifest, tar, D)
  BY <1>2, <1>8 DEF TarInv, PayloadInv
<1>10. PathAt(tar, d) = entry.path /\ Line(tar, d) = r
  BY <1>2, <1>6, <1>7 DEF PathAt, Line
<1>11. PlacesRead(tar, n, line + 1) = D \cup {d}
  BY <1>3, <1>6, PlacesGrow
<1> HIDE DEF r, n, d, D
<1>12. RecordsRead(Accept(acc, manifest, r), manifest, tar, D \cup {d})
  BY <1>1, <1>4, <1>5, <1>7, <1>9, <1>10, ReadRecord
<1>13. RecordsRead(acc', manifest', tar', PlacesRead(tar', pos' - 3, NextLine'))
  BY <1>1, <1>8, <1>11, <1>12 DEF n
<1>14. FilesInv'
  <2>1. FilesRead' = FilesRead
    BY <1>1 DEF FilesRead
  <2> QED BY <1>1, <2>1 DEF TarInv, FilesInv
<1>15. StagesInv'
  BY <1>1 DEF TarInv, StagesInv
<1>16. PayloadInv'
  <2>1. line' \in Nat \ {0} /\ line' <= Len(entry.body.lines) + 1
    BY <1>1, <1>3, <1>5
  <2> QED BY <1>1, <1>2, <1>13, <2>1 DEF TarInv, PayloadInv
<1> QED BY <1>14, <1>15, <1>16 DEF TarInv

\* Evidence of an entry whose records, if any, have been read.
LEMMA EvidenceKeeps ==
  ASSUME tar \in Archives, TarInv, entry # NoEntry, pos \notin 1..2, TakeEvidence,
         entry.path.kind = "data" => entry.body.form = "lines" /\ line > Len(entry.body.lines)
  PROVE  TarInv'
<1>1. /\ evidence' = Append(evidence, ChecksumOf(entry)) /\ CloseEntry
      /\ UNCHANGED <<tar, mode, line, manifest, listed, payload, seen, size, acc>>
  BY DEF TakeEvidence
<1>2. /\ pos \in DOMAIN tar /\ tar[pos].el = "file"
      /\ entry.path = tar[pos].path /\ entry.body = tar[pos].body /\ IsBody(entry.body)
  BY StageOfEntry
<1>3. pos' = pos + 1 /\ entry' = NoEntry /\ pos \in Nat \ {0}
  BY <1>1 DEF CloseEntry, TarInv, FilesInv
<1>4. FilesInv'
  BY <1>1, CloseFiles
<1>5. StagesInv'
  <2>1. pos' \notin 1..2 /\ pos' # 1 /\ pos # 1
    BY <1>3
  <2> QED BY <1>1, <1>3, <2>1 DEF TarInv, StagesInv
<1> DEFINE n == pos - 3
<1>6. n \in Nat /\ n + 3 = pos /\ pos' - 3 = n + 1
  BY <1>3
<1>7. evidence' = [i \in 1..(n + 1) |-> ChecksumOf(tar[i + 2])]
  <2> DEFINE g == [i \in 1..n |-> ChecksumOf(tar[i + 2])]
             h == [i \in 1..(n + 1) |-> ChecksumOf(tar[i + 2])]
             c == ChecksumOf(entry)
             X == {ChecksumOf(tar[i + 2]) : i \in 1..(n + 1)}
  <2>1. evidence = g
    BY DEF TarInv, PayloadInv
  <2>2. c = ChecksumOf(tar[(n + 1) + 2])
    <3>1. (n + 1) + 2 = pos
      BY <1>6
    <3> QED BY <1>2, <3>1 DEF ChecksumOf
  <2> HIDE DEF n
  <2>3. g \in [1..n -> X] /\ c \in X
    <3>1. n + 1 \in 1..(n + 1) /\ \A i \in 1..n : i \in 1..(n + 1)
      BY <1>6
    <3> HIDE DEF c
    <3> QED BY <2>2, <3>1
  <2>4. /\ DOMAIN h = 1..(n + 1) /\ h = [i \in 1..(n + 1) |-> h[i]]
        /\ \A i \in 1..n : h[i] = g[i]
        /\ h[n + 1] = c
    <3>1. n + 1 \in 1..(n + 1) /\ \A i \in 1..n : i \in 1..(n + 1)
      BY <1>6
    <3> HIDE DEF c
    <3> QED BY <2>2, <3>1
  <2> HIDE DEF g, h, c, X
  <2>5. g \in Seq(X) /\ Len(g) = n
    BY <1>6, <2>3
  <2> DEFINE A == Append(g, c)
  <2>6. A[n + 1] = c /\ \A i \in 1..n : A[i] = g[i]
    <3>1. c \in X
      BY <2>3
    <3>2. Append(g, c)[Len(g) + 1] = c /\ \A i \in 1..Len(g) : Append(g, c)[i] = g[i]
      BY <2>5, <3>1, AppendParts
    <3> HIDE DEF A
    <3>3. A[Len(g) + 1] = c /\ \A i \in 1..Len(g) : A[i] = g[i]
      BY <3>2 DEF A
    <3> QED BY <2>5, <3>3
  <2>7. A \in Seq(X) /\ Len(A) = n + 1
    BY <2>3, <2>5
  <2> HIDE DEF A
  <2>8. A = [i \in 1..(n + 1) |-> A[i]]
    BY <2>7
  <2>9. ASSUME NEW i \in 1..(n + 1) PROVE A[i] = h[i]
    <3>1. i \in 1..n \/ i = n + 1
      BY <1>6
    <3> QED BY <2>4, <2>6, <3>1
  <2>10. A = h
    BY <2>4, <2>8, <2>9
  <2> QED BY <1>1, <2>1, <2>10 DEF A, c, h
<1>8. RecordsRead(acc, manifest, tar, Places(tar, n + 1))
  <2>1. RecordsRead(acc, manifest, tar, PlacesRead(tar, n, NextLine))
    BY DEF TarInv, PayloadInv
  <2>2. PlacesRead(tar, n, NextLine) = Places(tar, n + 1)
    <3>1. CASE entry.path.kind = "data"
      <4> DEFINE X == Records \cup [bad : STRING]
                 ls == entry.body.lines
      <4>1. ls \in Seq(X)
        BY <1>2, <3>1, BodyShapes
      <4>2. line \in Nat \ {0} /\ line <= Len(ls) + 1 /\ line > Len(ls)
        BY <3>1 DEF TarInv, PayloadInv
      <4>3. tar[n + 3].path.kind = "data" /\ tar[n + 3].body.lines = ls
        BY <1>2, <1>6, <3>1
      <4>4. NextLine = line
        BY <3>1 DEF NextLine
      <4> HIDE DEF X, ls, n
      <4>5. Len(ls) \in Nat /\ DOMAIN ls = 1..Len(ls)
        BY <4>1
      <4>6. line = Len(ls) + 1
        BY <4>2, <4>5
      <4>7. Places(tar, n + 1) = PlacesRead(tar, n, Len(ls) + 1)
        BY <1>6, <4>3, <4>5, PlacesGrow
      <4> QED BY <4>4, <4>6, <4>7
    <3>2. CASE entry.path.kind # "data"
      <4>1. tar[n + 3].path.kind # "data"
        BY <1>2, <1>6, <3>2
      <4>2. NextLine = 1
        BY <3>2 DEF NextLine
      <4> HIDE DEF n
      <4>3. Places(tar, n + 1) = Places(tar, n) /\ PlacesRead(tar, n, 1) = Places(tar, n)
        BY <1>6, <4>1, PlacesGrow
      <4> QED BY <4>2, <4>3
    <3> QED BY <3>1, <3>2
  <2> QED BY <2>1, <2>2
<1>9. RecordsRead(acc', manifest', tar', PlacesRead(tar', pos' - 3, NextLine'))
  <2>1. NextLine' = 1
    BY <1>3 DEF NextLine
  <2> HIDE DEF n
  <2>2. PlacesRead(tar, n + 1, 1) = Places(tar, n + 1)
    <3>1. n + 1 \in Nat
      BY <1>6
    <3> QED BY <3>1, PlacesGrow
  <2> QED BY <1>1, <1>6, <1>8, <2>1, <2>2
<1>10. PayloadInv'
  <2>1. pos' \notin 1..2
    BY <1>3
  <2>2. \A i \in 3..(pos' - 1) : tar[i].path.kind = "data" => tar[i].body.form = "lines"
    <3> TAKE i \in 3..(pos' - 1)
    <3>1. CASE i = pos
      BY <1>2, <3>1
    <3>2. CASE i # pos
      <4>1. i \in 3..(pos - 1)
        BY <1>3, <3>2
      <4> QED BY <4>1 DEF TarInv, PayloadInv
    <3> QED BY <3>1, <3>2
  <2> QED BY <1>1, <1>3, <1>6, <1>7, <1>9, <2>1, <2>2 DEF PayloadInv
<1> QED BY <1>4, <1>5, <1>10 DEF TarInv
\* A container that ends well, with no issue.
LEMMA TarEndsClean ==
  ASSUME tar \in Archives, TarInv, EndOfContainer, verdict' = "clean"
  PROVE  Coherent(tar)
<1>1. /\ entry = NoEntry /\ pos <= Len(tar) /\ tar[pos].el = "zero" /\ \A i \in DOMAIN tar : ~Malformed(i)
      /\ manifest # NoManifest /\ listed # NoList
      /\ FinishIssues(acc, manifest, listed, evidence) = {}
  BY DEF EndOfContainer, Fail, Conclude
<1>2. IsContainer(tar) /\ Len(tar) \in Nat /\ DOMAIN tar = 1..Len(tar)
  <2>1. IsContainer(tar)
    BY ArchivesAssumption
  <2> QED BY <2>1, ElementShapes
<1>3. pos \in Nat \ {0} /\ pos \notin 1..2 /\ pos # 1
  BY <1>1 DEF TarInv, FilesInv, StagesInv
<1>4. FilesRead = pos - 1
  BY <1>1 DEF FilesRead
<1> DEFINE n == pos - 3
<1>5. n \in Nat /\ n + 3 = pos /\ n + 2 = pos - 1
  BY <1>3
<1>6. \A i \in 1..Len(tar) : tar[i].el \in {"file", "zero"}
  BY <1>2, ElementShapes
<1>7. Len(tar) = pos + 1 /\ tar[pos + 1].el = "zero"
  <2>1. pos # Len(tar)
    <3> SUFFICES ASSUME pos = Len(tar) PROVE FALSE
      OBVIOUS
    <3>1. pos \in DOMAIN tar /\ pos - 1 \in 1..FilesRead
      BY <1>1, <1>2, <1>3, <1>4
    <3>2. tar[pos - 1].el = "file"
      BY <3>1 DEF TarInv, FilesInv
    <3>3. Malformed(pos)
      BY <3>2 DEF Malformed
    <3> QED BY <1>1, <3>1, <3>3
  <2> DEFINE L == Len(tar)
  <2>0. L \in Nat /\ DOMAIN tar = 1..L /\ pos \in Nat /\ pos >= 1 /\ pos <= L /\ pos # L
    <3>1. pos \in Nat /\ pos >= 1
      BY <1>3
    <3>2. pos <= Len(tar)
      BY <1>1
    <3> QED BY <1>2, <2>1, <3>1, <3>2
  <2> HIDE DEF L
  <2>2. pos + 1 \in DOMAIN tar /\ (pos + 1) - 1 = pos /\ pos + 1 > 1 /\ pos + 1 <= L
    BY <2>0
  <2>3. tar[pos + 1].el # "file"
    <3> SUFFICES ASSUME tar[pos + 1].el = "file" PROVE FALSE
      OBVIOUS
    <3>1. HeaderMalformed(pos + 1)
      BY <1>1, <2>2 DEF HeaderMalformed
    <3> QED BY <1>1, <2>2, <3>1 DEF Malformed
  <2>4. tar[pos + 1].el = "zero"
    BY <1>2, <1>6, <2>2, <2>3
  <2>5. ~(pos + 2 <= Len(tar))
    <3> SUFFICES ASSUME pos + 2 <= Len(tar) PROVE FALSE
      OBVIOUS
    <3>1. pos + 2 \in DOMAIN tar /\ (pos + 2) - 1 = pos + 1 /\ (pos + 2) - 2 = pos /\ pos + 2 > 2
      BY <1>2, <1>3
    <3>2. Malformed(pos + 2)
      BY <1>1, <2>4, <3>1 DEF Malformed
    <3> QED BY <1>1, <3>1, <3>2
  <2>6. ~(pos + 2 <= L)
    BY <2>5 DEF L
  <2>7. L = pos + 1
    BY <2>0, <2>2, <2>6
  <2> QED BY <2>4, <2>7 DEF L
<1>8. \A i \in 1..(n + 2) : tar[i].el = "file" /\ tar[i].type = "file" /\ tar[i].padded
  <2> TAKE i \in 1..(n + 2)
  <2>1. i \in 1..FilesRead /\ i \in DOMAIN tar
    BY <1>2, <1>3, <1>4, <1>7
  <2>2. tar[i].el = "file"
    BY <2>1 DEF TarInv, FilesInv
  <2>3. ~Malformed(i)
    BY <1>1, <2>1
  <2>4. tar[i].padded /\ tar[i].type = "file"
    BY <2>2, <2>3 DEF Malformed, HeaderMalformed
  <2> QED BY <2>2, <2>4
<1>9. /\ tar[1].path = ManifestPath /\ tar[1].body = manifest /\ ManifestReadable(manifest) /\ manifest.canonical
      /\ tar[2].path = ChecksumPath /\ tar[2].body.form = "checksums" /\ tar[2].body.list = listed
      /\ ~Repeats(listed)
  BY <1>3 DEF TarInv, StagesInv
<1>10. evidence = [i \in 1..n |-> ChecksumOf(tar[i + 2])]
  BY DEF TarInv, PayloadInv
<1>11. \A i, j \in 1..n : tar[i + 2].path = tar[j + 2].path => i = j
  <2> TAKE i \in 1..n, j \in 1..n
  <2> HAVE tar[i + 2].path = tar[j + 2].path
  <2>1. i + 2 \in 1..FilesRead /\ j + 2 \in 1..FilesRead
    BY <1>3, <1>4
  <2>2. i + 2 = j + 2
    BY <2>1 DEF TarInv, FilesInv
  <2> QED BY <1>5, <2>2
<1>12. \A i, j \in DOMAIN listed : listed[i].path = listed[j].path => i = j
  BY <1>9 DEF Repeats
<1>13. \A i \in 1..n : tar[i + 2].path.kind = "data" => tar[i + 2].body.form = "lines"
  <2> TAKE i \in 1..n
  <2>1. i + 2 \in 3..(pos - 1)
    BY <1>3
  <2> QED BY <2>1 DEF TarInv, PayloadInv
<1>14. RecordsRead(acc, manifest, tar, Places(tar, n))
  <2>1. NextLine = 1
    BY <1>1 DEF NextLine
  <2>2. RecordsRead(acc, manifest, tar, PlacesRead(tar, n, 1))
    BY <1>3, <2>1 DEF TarInv, PayloadInv
  <2> HIDE DEF n
  <2>3. PlacesRead(tar, n, 1) = Places(tar, n)
    BY <1>5, PlacesGrow
  <2> QED BY <2>2, <2>3
<1>15. acc.issues = {}
  BY <1>1, NoIssue
<1>16. PICK S : RecordsKnown(acc, manifest, S) /\ Placement(acc, manifest, tar, S, Places(tar, n))
  BY <1>14, <1>15 DEF RecordsRead
<1>17. Len(tar) = n + 4 /\ tar[n + 3].el = "zero" /\ tar[n + 4].el = "zero"
  <2>1. n + 4 = pos + 1
    BY <1>5
  <2> QED BY <1>1, <1>5, <1>7, <2>1
<1> HIDE DEF n
<1>18. Finished(tar, manifest, listed, evidence, acc, S, n)
  BY <1>1, <1>2, <1>5, <1>8, <1>9, <1>10, <1>11, <1>12, <1>13, <1>16, <1>17 DEF Finished
<1> QED BY <1>18, EndCoherent

-----------------------------------------------------------------------------
(* Records handed in by a caller.                                          *)

\* A caller has a manifest and a list, and files for them.
ModelGiven ==
    /\ Framed(tar) /\ Len(Files(tar)) >= 2
    /\ [i \in 1..2 |-> Files(tar)[i].path] = <<ManifestPath, ChecksumPath>>
    /\ Files(tar)[1].body.form = "manifest" /\ Files(tar)[1].body.canonical
    /\ Files(tar)[2].body.form = "checksums"
    /\ \A i \in 3..Len(Files(tar)) : Files(tar)[i].path.kind = "data" => Files(tar)[i].body.form = "lines"

GivenPlaces == Places(tar, Len(tar) - 4)
GivenOrder == Arrange(GivenPlaces, [p \in GivenPlaces |-> p])

ModelInv ==
    /\ ModelGiven /\ pos \in Nat \ {0}
    /\ manifest = NoManifest => pos = 1 /\ acc = EmptyAcc
    /\ manifest # NoManifest =>
         /\ manifest = tar[1].body /\ ManifestReadable(manifest)
         /\ pos <= Len(Envelopes) + 1
         /\ RecordsRead(acc, manifest, tar, {GivenOrder[j] : j \in 1..(pos - 1)})

LEMMA FramedFiles ==
  ASSUME tar \in Archives, ModelGiven
  PROVE  LET n == Len(tar) - 4 IN
         /\ IsContainer(tar) /\ n \in Nat /\ DOMAIN tar = 1..(n + 4)
         /\ Len(Files(tar)) = n + 2 /\ DOMAIN Files(tar) = 1..(n + 2)
         /\ \A i \in 1..(n + 2) : /\ Files(tar)[i] = tar[i]
                                  /\ tar[i].el = "file" /\ tar[i].type = "file" /\ tar[i].padded
         /\ tar[n + 3].el = "zero" /\ tar[n + 4].el = "zero"
         /\ DOMAIN PayloadEntries = 1..n /\ \A i \in 1..n : PayloadEntries[i] = tar[i + 2]
<1> DEFINE n == Len(tar) - 4
           fs == Files(tar)
           X == ToSet(tar)
<1>1. IsContainer(tar) /\ Len(tar) \in Nat /\ DOMAIN tar = 1..Len(tar)
  <2>1. IsContainer(tar)
    BY ArchivesAssumption
  <2> QED BY <2>1, ElementShapes
<1>2. tar \in Seq(X)
  BY <1>1 DEF IsContainer
<1> HIDE DEF X
<1>3. /\ fs = [i \in 1..(Len(tar) - 2) |-> tar[i]]
      /\ DOMAIN fs = 1..(Len(tar) - 2)
  <2> DEFINE k == Len(tar) - 2
  <2>1. k \in Int /\ (k - 1) + 1 = k
    BY <1>1
  <2>2. fs = SubSeq(tar, 1, k)
    BY DEF Files
  <2> HIDE DEF k, fs
  <2>3. SubSeq(tar, 1, k) = [i \in 1..((k - 1) + 1) |-> tar[i + 1 - 1]]
    BY <1>2, <2>1
  <2>4. \A i \in 1..k : i + 1 - 1 = i
    BY <2>1
  <2>5. fs = [i \in 1..k |-> tar[i]]
    BY <2>1, <2>2, <2>3, <2>4
  <2>6. DOMAIN fs = 1..k
    BY <2>5
  <2> QED BY <2>5, <2>6 DEF k
<1>4. Framed(tar) /\ Len(fs) >= 2
  BY DEF ModelGiven
<1>5. Len(tar) - 2 \in Nat
  <2> SUFFICES ASSUME Len(tar) - 2 < 0 PROVE FALSE
    BY <1>1
  <2>1. 1..(Len(tar) - 2) = {}
    BY <1>1
  <2>2. fs = [i \in {} |-> tar[i]]
    BY <1>3, <2>1
  <2>3. fs = <<>>
    BY <2>2
  <2>4. Len(fs) = 0
    BY <2>3
  <2> HIDE DEF fs
  <2> QED BY <1>4, <2>4
<1>6. Len(fs) = Len(tar) - 2
  <2> DEFINE k == Len(tar) - 2
  <2>1. k \in Nat /\ fs = [i \in 1..k |-> tar[i]]
    BY <1>3, <1>5
  <2> HIDE DEF k, fs
  <2>2. Len(fs) = k
    BY <2>1
  <2> QED BY <2>2 DEF k
<1>7. n \in Nat /\ Len(tar) - 2 = n + 2 /\ Len(tar) = n + 4
  <2> HIDE DEF fs
  <2> QED BY <1>1, <1>4, <1>6
<1> HIDE DEF n
<1>8. \A i \in 1..(n + 2) : fs[i] = tar[i]
  BY <1>3, <1>7
<1>9. DOMAIN fs = 1..(n + 2) /\ Len(fs) = n + 2
  BY <1>3, <1>6, <1>7
<1>10. tar = Pack(fs)
  BY <1>4 DEF Framed
<1> HIDE DEF fs
<1>11. tar = [i \in 1..((n + 2) + 2) |-> IF i <= n + 2 THEN File(fs[i]) ELSE Zero]
  BY <1>9, <1>10 DEF Pack
<1>12. ASSUME NEW i \in 1..(n + 2)
       PROVE  tar[i].el = "file" /\ tar[i].type = "file" /\ tar[i].padded
  <2>1. i \in 1..((n + 2) + 2) /\ i <= n + 2
    BY <1>7
  <2>2. tar[i] = File(fs[i])
    BY <1>11, <2>1
  <2>3. \A e : File(e).el = "file" /\ File(e).type = "file" /\ File(e).padded
    BY DEF File
  <2> QED BY <2>2, <2>3
<1>13. tar[n + 3].el = "zero" /\ tar[n + 4].el = "zero"
  <2>1. /\ n + 3 \in 1..((n + 2) + 2) /\ n + 4 \in 1..((n + 2) + 2)
        /\ ~(n + 3 <= n + 2) /\ ~(n + 4 <= n + 2)
    BY <1>7
  <2>2. tar[n + 3] = Zero /\ tar[n + 4] = Zero
    BY <1>11, <2>1
  <2> QED BY <2>2 DEF Zero
<1>14. DOMAIN PayloadEntries = 1..n /\ \A i \in 1..n : PayloadEntries[i] = tar[i + 2]
  <2> DEFINE pe == PayloadEntries
  <2>1. pe = SubSeq(fs, 3, n + 2)
    BY <1>9 DEF PayloadEntries, fs
  <2>2. fs \in Seq(X)
    <3>1. \A i \in 1..(n + 2) : i \in 1..(n + 4)
      BY <1>7
    <3>2. \A i \in 1..(n + 2) : fs[i] \in X
      BY <1>1, <1>2, <1>7, <1>8, <3>1
    <3>3. fs = [i \in 1..(n + 2) |-> tar[i]]
      BY <1>3, <1>7 DEF fs
    <3>4. n + 2 \in Nat
      BY <1>7
    <3> QED BY <1>8, <3>2, <3>3, <3>4
  <2> HIDE DEF pe
  <2>3. SubSeq(fs, 3, n + 2) = [i \in 1..(((n + 2) - 3) + 1) |-> fs[i + 3 - 1]]
    BY <1>7, <2>2
  <2>4. ((n + 2) - 3) + 1 = n /\ \A i \in 1..n : i + 3 - 1 = i + 2 /\ i + 2 \in 1..(n + 2)
    BY <1>7
  <2>5. DOMAIN pe = 1..n
    BY <2>1, <2>3, <2>4
  <2>6. ASSUME NEW i \in 1..n PROVE pe[i] = tar[i + 2]
    <3>1. i \in 1..(((n + 2) - 3) + 1)
      BY <2>4
    <3>2. pe[i] = fs[i + 3 - 1]
      BY <2>1, <2>3, <3>1
    <3>3. i + 3 - 1 = i + 2 /\ i + 2 \in 1..(n + 2)
      BY <2>4
    <3> QED BY <1>8, <3>2, <3>3
  <2> QED BY <2>5, <2>6 DEF pe
<1> QED BY <1>1, <1>7, <1>8, <1>9, <1>12, <1>13, <1>14 DEF n, fs
\* The envelopes are the lines of the shards, in the order of their places.
LEMMA EnvelopesAre ==
  ASSUME tar \in Archives, ModelGiven
  PROVE  /\ Len(Envelopes) \in Nat
         /\ \A j \in 1..Len(Envelopes) :
              LET d == GivenOrder[j] IN
              /\ d \in GivenPlaces
              /\ Envelopes[j].path = PathAt(tar, d) /\ Envelopes[j].line = d[2]
              /\ Envelopes[j].record = Line(tar, d)
              /\ Line(tar, d) \in Records \cup [bad : STRING]
         /\ \A d \in GivenPlaces : \E j \in 1..Len(Envelopes) : GivenOrder[j] = d
<1> DEFINE n == Len(tar) - 4
           pe == PayloadEntries
           D == GivenPlaces
           X == Records \cup [bad : STRING]
<1>1. /\ IsContainer(tar) /\ n \in Nat /\ DOMAIN tar = 1..(n + 4)
      /\ Len(Files(tar)) = n + 2 /\ DOMAIN Files(tar) = 1..(n + 2)
      /\ \A i \in 1..(n + 2) : Files(tar)[i] = tar[i] /\ tar[i].el = "file"
      /\ DOMAIN pe = 1..n /\ \A i \in 1..n : pe[i] = tar[i + 2]
  BY FramedFiles
<1> HIDE DEF pe
<1>2. ASSUME NEW i \in 1..n, tar[i + 2].path.kind = "data"
      PROVE  LET ls == tar[i + 2].body.lines IN
             ls \in Seq(X) /\ Len(ls) \in Nat /\ DOMAIN ls = 1..Len(ls)
  <2> DEFINE ls == tar[i + 2].body.lines
  <2>1. i + 2 \in 3..(n + 2) /\ i + 2 \in 1..(n + 2) /\ i + 2 \in DOMAIN tar
    BY <1>1
  <2>2. tar[i + 2].body.form = "lines"
    BY <1>1, <1>2, <2>1 DEF ModelGiven
  <2>3. IsBody(tar[i + 2].body)
    BY <1>1, <2>1, FileAt
  <2>4. ls \in Seq(X)
    BY <2>2, <2>3, BodyShapes
  <2> HIDE DEF ls, X
  <2>5. Len(ls) \in Nat /\ DOMAIN ls = 1..Len(ls)
    BY <2>4
  <2> QED BY <2>4, <2>5 DEF ls
<1> HIDE DEF X
<1> DEFINE Of(i) == {<<i, k>> : k \in DOMAIN pe[i].body.lines}
           shards == {i \in DOMAIN pe : pe[i].path.kind = "data"}
<1>3. D = {d \in (1..n) \X (Nat \ {0}) : /\ tar[d[1] + 2].path.kind = "data"
                                         /\ d[2] \in DOMAIN tar[d[1] + 2].body.lines}
  BY DEF GivenPlaces, Places
<1> HIDE DEF D, n
<1>4. shards = {i \in 1..n : tar[i + 2].path.kind = "data"}
  BY <1>1
<1>5. D = UNION {Of(i) : i \in shards}
  <2>1. ASSUME NEW d \in D PROVE \E i \in shards : d \in Of(i)
    <3>1. d[1] \in shards /\ d = <<d[1], d[2]>> /\ d[2] \in DOMAIN pe[d[1]].body.lines
      <4>1. d[1] \in 1..n /\ d = <<d[1], d[2]>> /\ tar[d[1] + 2].path.kind = "data" /\ d[2] \in DOMAIN tar[d[1] + 2].body.lines
        BY <1>3
      <4> QED BY <1>1, <1>4, <4>1
    <3> HIDE DEF shards
    <3> QED BY <3>1
  <2>2. ASSUME NEW i \in shards, NEW k \in DOMAIN pe[i].body.lines PROVE <<i, k>> \in D
    <3>1. i \in 1..n /\ tar[i + 2].path.kind = "data" /\ pe[i] = tar[i + 2]
      BY <1>1, <1>4
    <3>2. k \in 1..Len(tar[i + 2].body.lines) /\ Len(tar[i + 2].body.lines) \in Nat
      BY <1>2, <3>1
    <3>3. k \in Nat \ {0}
      BY <3>2
    <3>4. <<i, k>>[1] = i /\ <<i, k>>[2] = k /\ <<i, k>> \in (1..n) \X (Nat \ {0})
      BY <3>1, <3>3
    <3>5. k \in DOMAIN tar[i + 2].body.lines
      BY <3>1
    <3> QED BY <1>3, <3>1, <3>4, <3>5
  <2> HIDE DEF shards
  <2> QED BY <2>1, <2>2
<1>6. IsFiniteSet(D)
  <2> DEFINE q == [i \in 1..n |-> IF i \in shards THEN Of(i) ELSE {}]
  <2>1. DOMAIN q = 1..n /\ \A i \in 1..n : q[i] = IF i \in shards THEN Of(i) ELSE {}
    OBVIOUS
  <2>2. IsFiniteSet({q[i] : i \in 1..n})
    <3> HIDE DEF q
    <3> QED BY <1>1, <2>1, RangeIsFinite
  <2>3. ASSUME NEW i \in shards PROVE IsFiniteSet(Of(i))
    <3> DEFINE L == Len(tar[i + 2].body.lines)
    <3>1. i \in 1..n /\ tar[i + 2].path.kind = "data" /\ pe[i] = tar[i + 2]
      BY <1>1, <1>4
    <3>2. L \in Nat /\ DOMAIN pe[i].body.lines = 1..L
      BY <1>2, <3>1
    <3> HIDE DEF L
    <3> DEFINE g == [k \in 1..L |-> <<i, k>>]
    <3>3. DOMAIN g = 1..L /\ \A k \in 1..L : g[k] = <<i, k>>
      OBVIOUS
    <3> HIDE DEF g
    <3>4. IsFiniteSet({g[k] : k \in 1..L})
      BY <3>2, <3>3, RangeIsFinite
    <3>5. Of(i) = {g[k] : k \in 1..L}
      BY <3>2, <3>3
    <3> QED BY <3>4, <3>5
  <2>4. \A i \in shards : i \in 1..n
    BY <1>4
  <2> HIDE DEF Of, shards, q
  <2>5. UNION {Of(i) : i \in shards} = UNION {q[i] : i \in 1..n}
    BY <2>1, <2>4
  <2>6. \A T \in {q[i] : i \in 1..n} : IsFiniteSet(T)
    BY <2>1, <2>3, FS_EmptySet
  <2>7. IsFiniteSet(UNION {q[i] : i \in 1..n})
    BY <2>2, <2>6, FS_UNION
  <2> QED BY <1>5, <2>5, <2>7
<1> DEFINE key == [p \in D |-> p]
<1>7. Sortable(D, key)
  <2> DEFINE w == 2
  <2>1. w \in Nat
    BY DEF w
  <2>2. \A d \in D : key[d] \in [1..w -> Int]
    <3> TAKE d \in D
    <3>1. d[1] \in Int /\ d[2] \in Int /\ d = <<d[1], d[2]>>
      BY <1>1, <1>3
    <3>2. \A x, y \in Int : <<x, y>> \in [1..2 -> Int]
      OBVIOUS
    <3>3. d \in [1..2 -> Int]
      BY <3>1, <3>2
    <3> QED BY <3>3 DEF w
  <2>3. \A x, y \in D : key[x] = key[y] => x = y
    OBVIOUS
  <2> HIDE DEF w, key
  <2> QED BY <1>6, <2>1, <2>2, <2>3, KeysSort
<1> DEFINE o == Arrange(D, key)
           c == Cardinality(D)
<1>8. c \in Nat /\ o \in [1..c -> D] /\ \A x \in D : \E i \in 1..c : o[i] = x
  <2> HIDE DEF key
  <2> QED BY <1>7, Arranged
<1>9. o = GivenOrder
  BY DEF GivenOrder, D
<1>10. Envelopes = [k \in DOMAIN o |->
                     [path |-> pe[o[k][1]].path, line |-> o[k][2], record |-> pe[o[k][1]].body.lines[o[k][2]]]]
  BY <1>5 DEF Envelopes, pe
<1> HIDE DEF o, c, key, shards, Of
<1>11. /\ DOMAIN Envelopes = 1..c
       /\ \A j \in 1..c : /\ Envelopes[j].path = pe[o[j][1]].path /\ Envelopes[j].line = o[j][2]
                          /\ Envelopes[j].record = pe[o[j][1]].body.lines[o[j][2]]
  BY <1>8, <1>10
<1>12. Len(Envelopes) = c
  <2> DEFINE ev == Envelopes
             g == [k \in DOMAIN o |->
                     [path |-> pe[o[k][1]].path, line |-> o[k][2], record |-> pe[o[k][1]].body.lines[o[k][2]]]]
  <2>1. ev = [k \in 1..c |-> g[k]]
    BY <1>8, <1>10
  <2> HIDE DEF ev, g
  <2>2. Len(ev) = c
    BY <1>8, <2>1
  <2> QED BY <2>2 DEF ev
<1>13. ASSUME NEW j \in 1..c
       PROVE  /\ o[j] \in D
              /\ Envelopes[j].path = PathAt(tar, o[j]) /\ Envelopes[j].line = o[j][2]
              /\ Envelopes[j].record = Line(tar, o[j])
              /\ Line(tar, o[j]) \in X
  <2> DEFINE d == o[j]
  <2>1. d \in D
    BY <1>8
  <2> HIDE DEF d
  <2>2. d[1] \in 1..n /\ tar[d[1] + 2].path.kind = "data" /\ d[2] \in DOMAIN tar[d[1] + 2].body.lines
    BY <1>3, <2>1
  <2>3. pe[d[1]] = tar[d[1] + 2]
    BY <1>1, <2>2
  <2>4. tar[d[1] + 2].body.lines[d[2]] \in X
    <3> DEFINE ls == tar[d[1] + 2].body.lines
    <3>1. ls \in Seq(X) /\ DOMAIN ls = 1..Len(ls)
      BY <1>2, <2>2
    <3>2. d[2] \in DOMAIN ls
      BY <2>2
    <3> HIDE DEF ls
    <3>3. ls[d[2]] \in X
      BY <3>1, <3>2
    <3> QED BY <3>3 DEF ls
  <2> QED BY <1>11, <2>1, <2>3, <2>4 DEF PathAt, Line, d
<1> QED BY <1>8, <1>9, <1>12, <1>13 DEF X, D

LEMMA ModelBegins ==
  ASSUME tar \in Archives, ValidationInit, mode = "model" PROVE ModelInv
<1>1. ModelGiven
  BY DEF ValidationInit, ModelGiven
<1>2. pos = 1 /\ manifest = NoManifest /\ acc = EmptyAcc
  BY DEF ValidationInit
<1> QED BY <1>1, <1>2 DEF ModelInv

LEMMA ModelManifest ==
  ASSUME tar \in Archives, ModelInv, manifest # NoManifest
  PROVE  IsManifest(manifest) /\ ManifestValid(manifest)
<1>1. ModelGiven /\ manifest = tar[1].body /\ ManifestReadable(manifest)
  BY DEF ModelInv
<1> DEFINE n == Len(tar) - 4
<1>2. n \in Nat /\ DOMAIN tar = 1..(n + 4) /\ \A i \in 1..(n + 2) : tar[i].el = "file"
  BY <1>1, FramedFiles
<1> HIDE DEF n
<1>3. 1 \in DOMAIN tar /\ 1 \in 1..(n + 2)
  BY <1>2
<1>4. tar[1].el = "file"
  BY <1>2, <1>3
<1>5. IsBody(tar[1].body)
  BY <1>3, <1>4, FileAt
<1>6. manifest.form = "manifest" /\ ManifestValid(manifest)
  BY <1>1 DEF ManifestReadable
<1>7. IsBody(manifest)
  BY <1>1, <1>5
<1> QED BY <1>6, <1>7, BodyShapes

LEMMA ModelOpens ==
  ASSUME tar \in Archives, ModelInv, OpenModel, verdict' = "reading"
  PROVE  ModelInv'
<1> DEFINE m == Files(tar)[1].body
<1>1. /\ manifest = NoManifest /\ ManifestReadable(m) /\ manifest' = m
      /\ UNCHANGED <<tar, mode, pos, acc>>
  BY DEF OpenModel, Fail
<1>2. ModelGiven /\ pos = 1 /\ acc = EmptyAcc
  BY <1>1 DEF ModelInv
<1> DEFINE n == Len(tar) - 4
<1>3. n \in Nat /\ DOMAIN tar = 1..(n + 4) /\ \A i \in 1..(n + 2) : Files(tar)[i] = tar[i] /\ tar[i].el = "file"
  BY <1>2, FramedFiles
<1> HIDE DEF n
<1>4. 1 \in DOMAIN tar /\ 1 \in 1..(n + 2)
  BY <1>3
<1>5. m = tar[1].body /\ tar[1].el = "file"
  BY <1>3, <1>4
<1>6. IsBody(m)
  BY <1>4, <1>5, FileAt
<1>7. m.form = "manifest" /\ ManifestValid(m)
  BY <1>1 DEF ManifestReadable
<1> HIDE DEF m
<1>8. IsManifest(m)
  BY <1>6, <1>7, BodyShapes
<1>9. RecordsRead(EmptyAcc, m, tar, {})
  BY <1>7, <1>8, NothingRead
<1>10. {GivenOrder[j] : j \in 1..(pos - 1)} = {}
  BY <1>2
<1>11. Len(Envelopes) \in Nat
  BY <1>2, EnvelopesAre
<1>12. pos' = 1 /\ pos' <= Len(Envelopes) + 1
  BY <1>1, <1>2, <1>11
<1>13. ModelGiven' /\ GivenOrder' = GivenOrder /\ Envelopes' = Envelopes
  BY <1>1, <1>2 DEF ModelGiven, GivenOrder, GivenPlaces, Envelopes, PayloadEntries
<1>14. RecordsRead(acc', manifest', tar', {GivenOrder'[j] : j \in 1..(pos' - 1)})
  BY <1>1, <1>2, <1>9, <1>10, <1>13
<1> QED BY <1>1, <1>2, <1>5, <1>12, <1>13, <1>14 DEF ModelInv

LEMMA ModelReads ==
  ASSUME tar \in Archives, ModelInv, NextRecord, verdict' = "reading"
  PROVE  ModelInv'
<1> DEFINE e == Envelopes[pos]
           r == IF "type" \in DOMAIN e.record THEN e.record ELSE [type |-> "none"]
<1>1. /\ manifest # NoManifest /\ pos <= Len(Envelopes) /\ Placed(acc, manifest, e.path, e.line)
      /\ acc' = Accept(acc, manifest, r) /\ pos' = pos + 1
      /\ UNCHANGED <<tar, mode, manifest>>
  BY DEF NextRecord, Fail
<1>2. /\ ModelGiven /\ pos \in Nat \ {0} /\ manifest = tar[1].body /\ ManifestReadable(manifest)
      /\ RecordsRead(acc, manifest, tar, {GivenOrder[j] : j \in 1..(pos - 1)})
  BY <1>1 DEF ModelInv
<1>3. IsManifest(manifest) /\ ManifestValid(manifest)
  BY <1>1, ModelManifest
<1> DEFINE d == GivenOrder[pos]
           D == {GivenOrder[j] : j \in 1..(pos - 1)}
<1>4. Len(Envelopes) \in Nat
  BY <1>2, EnvelopesAre
<1>5. pos \in 1..Len(Envelopes)
  BY <1>1, <1>2, <1>4
<1>6. /\ e.path = PathAt(tar, d) /\ e.line = d[2] /\ e.record = Line(tar, d)
      /\ Line(tar, d) \in Records \cup [bad : STRING]
  BY <1>2, <1>5, EnvelopesAre
<1> HIDE DEF e
<1>7. (r \in Records \/ r.type = "none") /\ (r \in Records => r = Line(tar, d))
  <2>1. \A x \in [bad : STRING] : "type" \notin DOMAIN x
    OBVIOUS
  <2>2. CASE "type" \in DOMAIN e.record
    <3>1. r = Line(tar, d)
      BY <1>6, <2>2
    <3>2. Line(tar, d) \in Records
      BY <1>6, <2>1, <2>2
    <3> QED BY <3>1, <3>2
  <2>3. CASE ~("type" \in DOMAIN e.record)
    <3>1. r.type = "none"
      BY <2>3
    <3> HIDE DEF r, d
    <3>2. r \notin Records
      <4> SUFFICES ASSUME r \in Records PROVE FALSE
        OBVIOUS
      <4>1. r.type \in Families
        BY PartsAreNumbers
      <4> QED BY <3>1, <4>1, FamilyNames
    <3> QED BY <3>1, <3>2
  <2> QED BY <2>2, <2>3
<1> HIDE DEF r, d, D
<1>8. RecordsRead(acc, manifest, tar, D)
  BY <1>2 DEF D
<1>9. RecordsRead(Accept(acc, manifest, r), manifest, tar, D \cup {d})
  BY <1>1, <1>3, <1>6, <1>7, <1>8, ReadRecord
<1>10. {GivenOrder[j] : j \in 1..((pos + 1) - 1)} = D \cup {d}
  <2>1. 1..((pos + 1) - 1) = (1..(pos - 1)) \cup {pos}
    BY <1>2
  <2> QED BY <2>1 DEF D, d
<1>11. ModelGiven' /\ GivenOrder' = GivenOrder /\ Envelopes' = Envelopes
  <2>1. tar' = tar
    BY <1>1
  <2>2. ModelGiven'
    BY <1>2, <2>1 DEF ModelGiven
  <2>3. GivenOrder' = GivenOrder
    BY <2>1 DEF GivenOrder, GivenPlaces
  <2>4. Envelopes' = Envelopes
    BY <2>1 DEF Envelopes, PayloadEntries
  <2> QED BY <2>2, <2>3, <2>4
<1>12. RecordsRead(acc', manifest', tar', {GivenOrder'[j] : j \in 1..(pos' - 1)})
  BY <1>1, <1>9, <1>10, <1>11
<1>13. pos' \in Nat \ {0} /\ pos' <= Len(Envelopes) + 1
  BY <1>1, <1>2, <1>4, <1>5
<1> QED BY <1>1, <1>2, <1>11, <1>12, <1>13 DEF ModelInv

LEMMA ModelEndsClean ==
  ASSUME tar \in Archives, ModelInv, FinishModel, verdict' = "clean"
  PROVE  Coherent(tar)
<1> DEFINE n == Len(tar) - 4
           list == Files(tar)[2].body.list
           found == [i \in DOMAIN PayloadEntries |-> ChecksumOf(PayloadEntries[i])]
<1>1. /\ manifest # NoManifest /\ pos > Len(Envelopes)
      /\ ~ListUnsound(list) /\ ~Repeats(found)
      /\ FinishIssues(acc, manifest, list, found) = {}
  BY DEF FinishModel, Fail, Conclude
<1>2. /\ ModelGiven /\ pos \in Nat \ {0} /\ manifest = tar[1].body /\ ManifestReadable(manifest)
      /\ pos <= Len(Envelopes) + 1
      /\ RecordsRead(acc, manifest, tar, {GivenOrder[j] : j \in 1..(pos - 1)})
  BY <1>1 DEF ModelInv
<1>3. /\ IsContainer(tar) /\ n \in Nat /\ DOMAIN tar = 1..(n + 4)
      /\ Len(Files(tar)) = n + 2
      /\ \A i \in 1..(n + 2) : /\ Files(tar)[i] = tar[i]
                               /\ tar[i].el = "file" /\ tar[i].type = "file" /\ tar[i].padded
      /\ tar[n + 3].el = "zero" /\ tar[n + 4].el = "zero"
      /\ DOMAIN PayloadEntries = 1..n /\ \A i \in 1..n : PayloadEntries[i] = tar[i + 2]
  BY <1>2, FramedFiles
<1>4. Len(tar) = n + 4
  <2>1. Len(tar) \in Nat
    BY <1>3, ElementShapes
  <2> QED BY <2>1
<1>5. found = [i \in 1..n |-> ChecksumOf(tar[i + 2])]
  BY <1>3
<1>6. {GivenOrder[j] : j \in 1..(pos - 1)} = Places(tar, n)
  <2>1. Len(Envelopes) \in Nat
    BY <1>2, EnvelopesAre
  <2>2. pos - 1 = Len(Envelopes)
    BY <1>1, <1>2, <2>1
  <2>3. /\ \A j \in 1..Len(Envelopes) : GivenOrder[j] \in GivenPlaces
        /\ \A d \in GivenPlaces : \E j \in 1..Len(Envelopes) : GivenOrder[j] = d
    BY <1>2, EnvelopesAre
  <2>4. GivenPlaces = Places(tar, n)
    BY DEF GivenPlaces
  <2> QED BY <2>2, <2>3, <2>4
<1> HIDE DEF n
<1>7. /\ 1 \in 1..2 /\ 2 \in 1..2 /\ 1 \in 1..(n + 2) /\ 2 \in 1..(n + 2)
      /\ \A i \in 1..n : i + 2 \in 3..(n + 2) /\ i + 2 \in 1..(n + 2)
  BY <1>3
<1>8. /\ tar[1].path = ManifestPath /\ tar[2].path = ChecksumPath
      /\ manifest.canonical /\ tar[2].body.form = "checksums" /\ tar[2].body.list = list
  <2>1. Files(tar)[1] = tar[1] /\ Files(tar)[2] = tar[2]
    BY <1>3, <1>7
  <2>2. Files(tar)[1].path = ManifestPath /\ Files(tar)[2].path = ChecksumPath
    <3>1. [i \in 1..2 |-> Files(tar)[i].path] = <<ManifestPath, ChecksumPath>>
      BY <1>2 DEF ModelGiven
    <3> DEFINE g == [i \in 1..2 |-> Files(tar)[i].path]
               u == <<ManifestPath, ChecksumPath>>
    <3>2. g[1] = Files(tar)[1].path /\ g[2] = Files(tar)[2].path
      OBVIOUS
    <3>3. u[1] = ManifestPath /\ u[2] = ChecksumPath
      OBVIOUS
    <3>4. g = u
      BY <3>1
    <3> HIDE DEF g, u
    <3> QED BY <3>2, <3>3, <3>4
  <2>3. Files(tar)[1].body.canonical /\ Files(tar)[2].body.form = "checksums"
    BY <1>2 DEF ModelGiven
  <2> QED BY <1>2, <2>1, <2>2, <2>3
<1>9. \A i, j \in 1..n : tar[i + 2].path = tar[j + 2].path => i = j
  <2> TAKE i \in 1..n, j \in 1..n
  <2> HAVE tar[i + 2].path = tar[j + 2].path
  <2>1. DOMAIN found = 1..n /\ found[i] = ChecksumOf(tar[i + 2]) /\ found[j] = ChecksumOf(tar[j + 2])
    BY <1>5
  <2> HIDE DEF found
  <2>2. found[i].path = found[j].path
    BY <2>1 DEF ChecksumOf
  <2> QED BY <1>1, <2>1, <2>2 DEF Repeats
<1>10. \A i, j \in DOMAIN list : list[i].path = list[j].path => i = j
  <2> HIDE DEF list
  <2> QED BY <1>1 DEF ListUnsound, Repeats
<1>11. \A i \in 1..n : tar[i + 2].path.kind = "data" => tar[i + 2].body.form = "lines"
  <2> TAKE i \in 1..n
  <2>1. i + 2 \in 3..Len(Files(tar)) /\ Files(tar)[i + 2] = tar[i + 2]
    BY <1>3, <1>7
  <2> QED BY <1>2, <2>1 DEF ModelGiven
<1> HIDE DEF list, found
<1>12. acc.issues = {}
  BY <1>1, NoIssue
<1>13. RecordsRead(acc, manifest, tar, Places(tar, n))
  BY <1>2, <1>6
<1>14. PICK S : RecordsKnown(acc, manifest, S) /\ Placement(acc, manifest, tar, S, Places(tar, n))
  BY <1>12, <1>13 DEF RecordsRead
<1>15. Finished(tar, manifest, list, found, acc, S, n)
  BY <1>1, <1>2, <1>3, <1>4, <1>5, <1>8, <1>9, <1>10, <1>11, <1>14 DEF Finished
<1> QED BY <1>15, EndCoherent
-----------------------------------------------------------------------------
(* The two together.                                                       *)

ReadingInv ==
    /\ tar \in Archives
    /\ Active("tar") => TarInv
    /\ Active("model") => ModelInv
    /\ CleanIsCoherent

LEMMA ReadingBegins == ValidationInit => ReadingInv
<1> SUFFICES ASSUME ValidationInit PROVE ReadingInv
  OBVIOUS
<1>1. tar \in Archives /\ verdict = "reading"
  BY DEF ValidationInit
<1>2. TarInv
  BY <1>1, TarBegins
<1>3. mode = "model" => ModelInv
  BY <1>1, ModelBegins
<1> QED BY <1>1, <1>2, <1>3 DEF ReadingInv, Active, CleanIsCoherent

\* A step that ends the reading without a clean verdict.
LEMMA Refused ==
  ASSUME ReadingInv, tar' = tar, verdict' \notin {"reading", "clean"}
  PROVE  ReadingInv'
BY DEF ReadingInv, Active, CleanIsCoherent

\* A step of the reading of a container.
LEMMA TarStep ==
  ASSUME ReadingInv, Active("tar"), tar' = tar, mode' = mode,
         verdict' \in {"reading", "fatal"}, verdict' = "reading" => TarInv'
  PROVE  ReadingInv'
<1>1. mode' = "tar"
  BY DEF Active
<1>2. tar' \in Archives
  BY DEF ReadingInv
<1> QED BY <1>1, <1>2 DEF ReadingInv, Active, CleanIsCoherent

\* A step through records that were handed in.
LEMMA ModelStep ==
  ASSUME ReadingInv, Active("model"), tar' = tar, mode' = mode,
         verdict' \in {"reading", "fatal"}, verdict' = "reading" => ModelInv'
  PROVE  ReadingInv'
<1>1. mode' = "model"
  BY DEF Active
<1>2. tar' \in Archives
  BY DEF ReadingInv
<1> QED BY <1>1, <1>2 DEF ReadingInv, Active, CleanIsCoherent

\* The last step, with what has been noted.
LEMMA LastStep ==
  ASSUME ReadingInv, tar' = tar, verdict' \in {"fatal", "partial", "clean"},
         verdict' = "clean" => Coherent(tar)
  PROVE  ReadingInv'
<1>1. CleanIsCoherent'
  BY DEF CleanIsCoherent
<1>2. verdict' # "reading"
  OBVIOUS
<1> QED BY <1>1, <1>2 DEF ReadingInv, Active

LEMMA ReadingGoesOn == ReadingInv /\ [ValidationNext]_validationVars => ReadingInv'
<1> SUFFICES ASSUME ReadingInv, [ValidationNext]_validationVars PROVE ReadingInv'
  OBVIOUS
<1>1. tar \in Archives
  BY DEF ReadingInv
<1>2. Active("tar") => TarInv
  BY DEF ReadingInv
<1>3. Active("model") => ModelInv
  BY DEF ReadingInv
<1>4. CASE FramingFails
  BY <1>4, Refused DEF FramingFails, Fail
<1>5. CASE OpenEntry
  <2>1. Active("tar") /\ tar' = tar /\ mode' = mode /\ verdict' \in {"reading", "fatal"}
    BY <1>5 DEF OpenEntry, Fail, Active
  <2>2. verdict' = "reading" => TarInv'
    BY <1>1, <1>2, <1>5, <2>1, OpenKeeps
  <2> QED BY <2>1, <2>2, TarStep
<1>6. CASE ReadManifest
  <2>1. Active("tar") /\ tar' = tar /\ mode' = mode /\ verdict' \in {"reading", "fatal"}
    BY <1>6 DEF ReadManifest, Open, Fail, Active
  <2>2. verdict' = "reading" => TarInv'
    BY <1>1, <1>2, <1>6, <2>1, ManifestKeeps
  <2> QED BY <2>1, <2>2, TarStep
<1>7. CASE ReadChecksums
  <2>1. Active("tar") /\ tar' = tar /\ mode' = mode /\ verdict' \in {"reading", "fatal"}
    BY <1>7 DEF ReadChecksums, Open, Fail, Active
  <2>2. verdict' = "reading" => TarInv'
    BY <1>1, <1>2, <1>7, <2>1, ListKeeps
  <2> QED BY <2>1, <2>2, TarStep
<1>8. CASE ReadLine
  <2>1. Active("tar") /\ tar' = tar /\ mode' = mode /\ verdict' \in {"reading", "fatal"}
    BY <1>8 DEF ReadLine, Open, Fail, Active
  <2>2. verdict' = "reading" => TarInv'
    BY <1>1, <1>2, <1>8, <2>1, LineKeeps
  <2> QED BY <2>1, <2>2, TarStep
<1>9. CASE CloseShard
  <2>1. Active("tar") /\ tar' = tar /\ mode' = mode /\ verdict' \in {"reading", "fatal"}
    BY <1>9 DEF CloseShard, TakeEvidence, Open, Fail, Active
  <2>2. ASSUME verdict' = "reading" PROVE TarInv'
    <3>1. /\ entry # NoEntry /\ entry.path.kind = "data" /\ entry.body.form = "lines"
          /\ line > Len(entry.body.lines) /\ TakeEvidence
      BY <1>9, <2>2 DEF CloseShard, Open, Fail
    <3>2. pos \notin 1..2
      BY <1>1, <1>2, <2>1, <3>1, StageOfEntry
    <3> QED BY <1>1, <1>2, <2>1, <3>1, <3>2, EvidenceKeeps
  <2> QED BY <2>1, <2>2, TarStep
<1>10. CASE ReadBlob
  <2>1. Active("tar") /\ tar' = tar /\ mode' = mode /\ verdict' \in {"reading", "fatal"}
    BY <1>10 DEF ReadBlob, TakeEvidence, Open, Fail, Active
  <2>2. ASSUME verdict' = "reading" PROVE TarInv'
    <3>1. entry # NoEntry /\ entry.path.kind = "blob" /\ TakeEvidence
      BY <1>10, <2>2 DEF ReadBlob, Open, Fail
    <3>2. pos \notin 1..2
      BY <1>1, <1>2, <2>1, <3>1, StageOfEntry
    <3> QED BY <1>1, <1>2, <2>1, <3>1, <3>2, EvidenceKeeps
  <2> QED BY <2>1, <2>2, TarStep
<1>11. CASE EndOfContainer
  <2>1. Active("tar") /\ tar' = tar /\ verdict' \in {"fatal", "partial", "clean"}
    BY <1>11 DEF EndOfContainer, Fail, Conclude
  <2>2. verdict' = "clean" => Coherent(tar)
    BY <1>1, <1>2, <1>11, <2>1, TarEndsClean
  <2> QED BY <2>1, <2>2, LastStep
<1>12. CASE OpenModel
  <2>1. Active("model") /\ tar' = tar /\ mode' = mode /\ verdict' \in {"reading", "fatal"}
    BY <1>12 DEF OpenModel, Fail, Active
  <2>2. verdict' = "reading" => ModelInv'
    BY <1>1, <1>3, <1>12, <2>1, ModelOpens
  <2> QED BY <2>1, <2>2, ModelStep
<1>13. CASE NextRecord
  <2>1. Active("model") /\ tar' = tar /\ mode' = mode /\ verdict' \in {"reading", "fatal"}
    BY <1>13 DEF NextRecord, Fail, Active
  <2>2. verdict' = "reading" => ModelInv'
    BY <1>1, <1>3, <1>13, <2>1, ModelReads
  <2> QED BY <2>1, <2>2, ModelStep
<1>14. CASE FinishModel
  <2>1. Active("model") /\ tar' = tar /\ verdict' \in {"fatal", "partial", "clean"}
    BY <1>14 DEF FinishModel, Fail, Conclude
  <2>2. verdict' = "clean" => Coherent(tar)
    BY <1>1, <1>3, <1>14, <2>1, ModelEndsClean
  <2> QED BY <2>1, <2>2, LastStep
<1>15. CASE Interrupt
  BY <1>15, Refused DEF Interrupt, Fail
<1>16. CASE UNCHANGED validationVars
  <2>1. /\ tar' = tar /\ mode' = mode /\ pos' = pos /\ entry' = entry /\ line' = line
        /\ manifest' = manifest /\ listed' = listed /\ payload' = payload /\ evidence' = evidence
        /\ seen' = seen /\ size' = size /\ acc' = acc /\ verdict' = verdict /\ why' = why
    BY <1>16 DEF validationVars, reading
  <2>2. TarInv' <=> TarInv
    <3>1. FilesRead' = FilesRead /\ NextLine' = NextLine
      BY <2>1 DEF FilesRead, NextLine
    <3>2. FilesInv' <=> FilesInv
      BY <2>1, <3>1 DEF FilesInv
    <3>3. StagesInv' <=> StagesInv
      BY <2>1 DEF StagesInv
    <3>4. PayloadInv' <=> PayloadInv
      BY <2>1, <3>1 DEF PayloadInv
    <3> QED BY <3>2, <3>3, <3>4 DEF TarInv
  <2>3. ModelInv' <=> ModelInv
    <3>1. ModelGiven' <=> ModelGiven
      BY <2>1 DEF ModelGiven
    <3>2. GivenOrder' = GivenOrder
      BY <2>1 DEF GivenOrder, GivenPlaces
    <3>3. Envelopes' = Envelopes
      BY <2>1 DEF Envelopes, PayloadEntries
    <3> QED BY <2>1, <3>1, <3>2, <3>3 DEF ModelInv
  <2>4. (Active("tar")' <=> Active("tar")) /\ (Active("model")' <=> Active("model"))
    BY <2>1 DEF Active
  <2>5. CleanIsCoherent' <=> CleanIsCoherent
    BY <2>1 DEF CleanIsCoherent
  <2> QED BY <2>1, <2>2, <2>3, <2>4, <2>5 DEF ReadingInv
<1> QED BY <1>4, <1>5, <1>6, <1>7, <1>8, <1>9, <1>10, <1>11, <1>12, <1>13, <1>14, <1>15, <1>16
        DEF ValidationNext

\* An archive that the reading calls clean is, entry for entry and record for record, the
\* archive of the records in it, whatever containers may be read and whatever the limits are:
\* the running maps, the planned places and the totals leave nothing unchecked (validator.ts,
\* onEntry, onRecord and finish).
THEOREM CleanIsWritten == ValidationSpec => []CleanIsCoherent
<1>1. ValidationInit => ReadingInv
  BY ReadingBegins
<1>2. ReadingInv /\ [ValidationNext]_validationVars => ReadingInv'
  BY ReadingGoesOn
<1>3. ReadingInv => CleanIsCoherent
  BY DEF ReadingInv
<1> QED BY <1>1, <1>2, <1>3, PTL DEF ValidationSpec
=============================================================================
