-------------------------- MODULE DetectionProofs --------------------------
(***************************************************************************)
(* Proofs about Detection, for any set of patches evaluated together, any  *)
(* number of test files and tests, and any limit.                          *)
(***************************************************************************)
EXTENDS Detection, ProofLibrary, FiniteSetTheorems

---------------------------------------------------------------------------
(* FlattenSeq *)

(* h gives what the first elements of seqs are, flattened. *)
FlatPrefixes(seqs, h, n) ==
  h[1] = seqs[1] /\ \A i \in 2 .. n : h[i] = h[i - 1] \o seqs[i]

(* The prefixes of a flattened sequence are sequences. *)
LEMMA PrefixType ==
  ASSUME NEW S, NEW seqs \in Seq(Seq(S)), seqs # <<>>, NEW h, FlatPrefixes(seqs, h, Len(seqs))
  PROVE  \A i \in 1 .. Len(seqs) : h[i] \in Seq(S)
<1> DEFINE T == {i \in 1 .. Len(seqs) : h[i] \in Seq(S)}
<1>1. Len(seqs) \in Nat /\ 1 \in 1 .. Len(seqs) /\ \A i \in 1 .. Len(seqs) : seqs[i] \in Seq(S)
  BY EmptySeq, LenProperties, ElementOfSeq
<1>2. 1 \in T
  BY <1>1 DEF FlatPrefixes
<1>3. ASSUME NEW m \in 2 .. Len(seqs), m - 1 \in T
      PROVE  m \in T
  <2>0. m \in 1 .. Len(seqs)
    BY <1>1
  <2>1. h[m] = h[m - 1] \o seqs[m]
    BY Zenon DEF FlatPrefixes
  <2>2. h[m - 1] \in Seq(S) /\ seqs[m] \in Seq(S)
    BY <1>1, <1>3, <2>0
  <2>3. h[m - 1] \o seqs[m] \in Seq(S)
    BY <2>2, ConcatProperties, Zenon
  <2> QED BY <2>0, <2>1, <2>3, Zenon
<1> HIDE DEF T
<1>4. \A m \in 1 .. Len(seqs) : m \in T
  BY <1>1, <1>2, <1>3, UpTo
<1> QED BY <1>4 DEF T

(* There are such prefixes. *)
LEMMA PrefixesExist ==
  ASSUME NEW S, NEW seqs \in Seq(Seq(S)), seqs # <<>>
  PROVE  \E h : DOMAIN h = 1 .. Len(seqs) /\ FlatPrefixes(seqs, h, Len(seqs))
<1> DEFINE Good(h, n) == DOMAIN h = 1 .. n /\ FlatPrefixes(seqs, h, n)
           T == {n \in 1 .. Len(seqs) : \E h : Good(h, n)}
<1>1. Len(seqs) \in Nat /\ 1 \in 1 .. Len(seqs)
  BY EmptySeq, LenProperties
<1>2. 1 \in T
  <2>1. Good([i \in 1 .. 1 |-> seqs[1]], 1)
    BY DEF FlatPrefixes
  <2> QED BY <1>1, <2>1
<1>3. ASSUME NEW m \in 2 .. Len(seqs), m - 1 \in T
      PROVE  m \in T
  <2>0. m \in 1 .. Len(seqs) /\ m \in Nat /\ m >= 2 /\ m - 1 \in Nat /\ m - 1 >= 1
    BY <1>1
  <2>1. PICK g : Good(g, m - 1)
    BY <1>3
  <2> DEFINE h == [i \in 1 .. m |-> IF i = m THEN g[m - 1] \o seqs[m] ELSE g[i]]
  <2>2. h[1] = seqs[1]
    BY <2>0, <2>1 DEF FlatPrefixes
  <2>3. ASSUME NEW i \in 2 .. m PROVE h[i] = h[i - 1] \o seqs[i]
    <3>1. h[i - 1] = g[i - 1]
      BY <2>0
    <3>2. CASE i = m
      <4>1. m \in 1 .. m
        BY <2>0
      <4>2. h[m] = g[m - 1] \o seqs[m]
        BY <4>1, Zenon
      <4> QED BY <3>1, <3>2, <4>2, Zenon
    <3>3. CASE i # m
      <4>1. i \in 2 .. m - 1 /\ h[i] = g[i]
        BY <2>0, <3>3
      <4> QED BY <2>1, <3>1, <4>1 DEF FlatPrefixes
    <3> QED BY <3>2, <3>3
  <2>4. Good(h, m)
    BY <2>2, <2>3 DEF FlatPrefixes
  <2> HIDE DEF h
  <2> QED BY <2>0, <2>4
<1> HIDE DEF T
<1>4. \A m \in 1 .. Len(seqs) : m \in T
  BY <1>1, <1>2, <1>3, UpTo
<1>5. Len(seqs) \in 1 .. Len(seqs)
  BY <1>1
<1> QED BY <1>4, <1>5 DEF T

(* FlattenSeq is the last of them. *)
LEMMA FlattenPrefixes ==
  ASSUME NEW S, NEW seqs \in Seq(Seq(S)), seqs # <<>>
  PROVE  \E h : FlatPrefixes(seqs, h, Len(seqs)) /\ FlattenSeq(seqs) = h[Len(seqs)]
<1> DEFINE n == Len(seqs)
           body(h) == [i \in 1 .. n |-> IF i = 1 THEN seqs[i] ELSE h[i - 1] \o seqs[i]]
           f == CHOOSE h : h = body(h)
<1>1. n \in Nat /\ n # 0 /\ 1 \in 1 .. n
  BY EmptySeq, LenProperties
<1>2. PICK g : DOMAIN g = 1 .. n /\ FlatPrefixes(seqs, g, n)
  BY PrefixesExist
<1>3. \E h : h = body(h)
  <2>1. ASSUME NEW i \in 1 .. n, i # 1 PROVE g[i] = g[i - 1] \o seqs[i]
    <3>1. i \in 2 .. n
      BY <1>1, <2>1
    <3> QED BY <1>2, <3>1, Zenon DEF FlatPrefixes
  <2>2. ASSUME NEW i \in 1 .. n PROVE g[i] = body(g)[i]
    <3>1. CASE i = 1
      BY <1>2, <3>1, Zenon DEF FlatPrefixes
    <3>2. CASE i # 1
      BY <2>1, <3>2, Zenon
    <3> QED BY <3>1, <3>2
  <2> DEFINE e == [i \in 1 .. n |-> g[i]]
  <2>3. body(e) = body(g)
    <3>1. ASSUME NEW i \in 1 .. n, i # 1 PROVE e[i - 1] = g[i - 1]
      BY <1>1, <3>1
    <3>2. ASSUME NEW i \in 1 .. n PROVE body(e)[i] = body(g)[i]
      <4>1. CASE i = 1
        BY <4>1, Zenon
      <4>2. CASE i # 1
        <5>1. body(g)[i] = g[i - 1] \o seqs[i]
          BY <4>2, Zenon
        <5>2. e[i - 1] = g[i - 1]
          BY <3>1, <4>2
        <5> HIDE DEF e
        <5>3. body(e)[i] = e[i - 1] \o seqs[i]
          BY <4>2, Zenon
        <5> QED BY <5>1, <5>2, <5>3, Zenon
      <4> QED BY <4>1, <4>2
    <3> QED BY <3>2, Zenon
  <2>4. e = body(g)
    BY <2>2, Zenon
  <2> QED BY <2>3, <2>4, Zenon
<1>4. f = body(f)
  BY <1>3, Zenon
<1>5. FlattenSeq(seqs) = f[n]
  BY <1>1, Zenon DEF FlattenSeq
<1> HIDE DEF f
<1>6. f[1] = seqs[1]
  BY <1>1, <1>4, Zenon
<1>7. ASSUME NEW i \in 2 .. n PROVE f[i] = f[i - 1] \o seqs[i]
  <2>1. i \in 1 .. n /\ i # 1
    BY <1>1
  <2> QED BY <1>4, <2>1, Zenon
<1> QED BY <1>5, <1>6, <1>7, Zenon DEF FlatPrefixes

(* Flattening nonempty sequences gives one at least as long. *)
LEMMA FlattenType ==
  ASSUME NEW S, NEW seqs \in Seq(Seq(S)), seqs # <<>>,
         \A i \in 1 .. Len(seqs) : seqs[i] # <<>>
  PROVE  FlattenSeq(seqs) \in Seq(S) /\ Len(FlattenSeq(seqs)) >= Len(seqs)
<1>1. Len(seqs) \in Nat /\ 1 \in 1 .. Len(seqs) /\ Len(seqs) \in 1 .. Len(seqs)
  BY EmptySeq, LenProperties
<1>2. PICK h : FlatPrefixes(seqs, h, Len(seqs)) /\ FlattenSeq(seqs) = h[Len(seqs)]
  BY FlattenPrefixes
<1>3. \A i \in 1 .. Len(seqs) : h[i] \in Seq(S)
  BY <1>2, PrefixType
<1>4. \A i \in 1 .. Len(seqs) : seqs[i] \in Seq(S) /\ Len(seqs[i]) \in Nat /\ Len(seqs[i]) >= 1
  <2> TAKE i \in 1 .. Len(seqs)
  <2>1. seqs[i] \in Seq(S) /\ seqs[i] # <<>>
    BY ElementOfSeq
  <2>2. Len(seqs[i]) \in Nat /\ Len(seqs[i]) # 0
    BY <2>1, LenProperties, EmptySeq, Zenon
  <2> QED BY <2>1, <2>2
<1> DEFINE T == {i \in 1 .. Len(seqs) : Len(h[i]) >= i}
<1>5. 1 \in T
  BY <1>1, <1>2, <1>4 DEF FlatPrefixes
<1>6. ASSUME NEW m \in 2 .. Len(seqs), m - 1 \in T
      PROVE  m \in T
  <2>1. m \in 1 .. Len(seqs) /\ m - 1 \in 1 .. Len(seqs)
    BY <1>1
  <2>2. h[m] = h[m - 1] \o seqs[m]
    BY <1>2, Zenon DEF FlatPrefixes
  <2>3. h[m - 1] \in Seq(S) /\ seqs[m] \in Seq(S) /\ Len(seqs[m]) >= 1 /\ Len(seqs[m]) \in Nat
    BY <1>3, <1>4, <2>1
  <2> DEFINE a == h[m - 1]
             b == seqs[m]
  <2>4. Len(a \o b) = Len(a) + Len(b)
    BY <2>3, ConcatProperties, Zenon
  <2>5. Len(h[m - 1]) >= m - 1 /\ Len(h[m - 1]) \in Nat
    BY <1>6, <2>3, LenProperties
  <2>6. Len(a \o b) >= m
    <3>1. Len(a) >= m - 1 /\ Len(a) \in Nat /\ Len(b) >= 1 /\ Len(b) \in Nat /\ m \in Nat
      BY <1>1, <2>3, <2>5
    <3> HIDE DEF a, b
    <3> QED BY <2>4, <3>1
  <2>7. Len(h[m]) >= m
    BY <2>2, <2>6, Zenon
  <2> QED BY <2>1, <2>7
<1> HIDE DEF T
<1>7. \A m \in 1 .. Len(seqs) : m \in T
  BY <1>1, <1>5, <1>6, UpTo
<1>8. Len(seqs) \in T
  BY <1>1, <1>7
<1> QED BY <1>1, <1>2, <1>3, <1>8 DEF T

(* Flattening sequences of one element each gives these elements in order. *)
LEMMA FlattenSingles ==
  ASSUME NEW S, NEW seqs \in Seq(Seq(S)), seqs # <<>>,
         \A i \in 1 .. Len(seqs) : Len(seqs[i]) = 1
  PROVE  /\ Len(FlattenSeq(seqs)) = Len(seqs)
         /\ \A i \in 1 .. Len(seqs) : FlattenSeq(seqs)[i] = seqs[i][1]
<1>1. Len(seqs) \in Nat /\ 1 \in 1 .. Len(seqs) /\ Len(seqs) \in 1 .. Len(seqs)
  BY EmptySeq, LenProperties
<1>2. PICK h : FlatPrefixes(seqs, h, Len(seqs)) /\ FlattenSeq(seqs) = h[Len(seqs)]
  BY FlattenPrefixes
<1>3. \A i \in 1 .. Len(seqs) : h[i] \in Seq(S)
  BY <1>2, PrefixType
<1> DEFINE T == {i \in 1 .. Len(seqs) : Len(h[i]) = i /\ \A j \in 1 .. i : h[i][j] = seqs[j][1]}
<1>4. 1 \in T
  <2>1. h[1] = seqs[1] /\ Len(seqs[1]) = 1
    BY <1>1, <1>2 DEF FlatPrefixes
  <2>2. \A j \in 1 .. 1 : h[1][j] = seqs[j][1]
    BY <2>1
  <2> QED BY <1>1, <2>1, <2>2
<1>5. ASSUME NEW m \in 2 .. Len(seqs), m - 1 \in T
      PROVE  m \in T
  <2>1. m \in 1 .. Len(seqs) /\ m - 1 \in 1 .. Len(seqs) /\ m \in Nat
    BY <1>1
  <2>2. h[m] = h[m - 1] \o seqs[m]
    BY <1>2, Zenon DEF FlatPrefixes
  <2>3. h[m - 1] \in Seq(S) /\ seqs[m] \in Seq(S) /\ Len(seqs[m]) = 1
    BY <1>3, <2>1, ElementOfSeq
  <2>4. Len(h[m - 1]) = m - 1 /\ \A j \in 1 .. m - 1 : h[m - 1][j] = seqs[j][1]
    BY <1>5
  <2> DEFINE a == h[m - 1]
             b == seqs[m]
  <2>5. /\ Len(a \o b) = Len(a) + Len(b)
        /\ \A j \in 1 .. Len(a) + Len(b) :
             (a \o b)[j] = IF j <= Len(a) THEN a[j] ELSE b[j - Len(a)]
    BY <2>3, ConcatProperties, Zenon
  <2>6. h[m] = a \o b /\ Len(a) = m - 1 /\ Len(b) = 1 /\ b = seqs[m]
        /\ \A j \in 1 .. m - 1 : a[j] = seqs[j][1]
    BY <2>2, <2>3, <2>4, Zenon
  <2> HIDE DEF a, b
  <2>7. Len(h[m]) = m
    BY <2>1, <2>5, <2>6
  <2>8. ASSUME NEW j \in 1 .. m PROVE h[m][j] = seqs[j][1]
    <3>1. CASE j \in 1 .. m - 1
      BY <2>1, <2>5, <2>6, <3>1
    <3>2. CASE j = m
      <4>1. ~(m <= Len(a)) /\ m - Len(a) = 1 /\ m \in 1 .. Len(a) + Len(b)
        BY <2>1, <2>6
      <4>2. (a \o b)[m] = b[1]
        BY <2>5, <4>1
      <4> QED BY <2>6, <3>2, <4>2, Zenon
    <3> QED BY <2>1, <3>1, <3>2
  <2> QED BY <2>1, <2>7, <2>8
<1> HIDE DEF T
<1>6. \A m \in 1 .. Len(seqs) : m \in T
  BY <1>1, <1>4, <1>5, UpTo
<1>7. Len(seqs) \in T
  BY <1>1, <1>6
<1> QED BY <1>2, <1>7 DEF T

---------------------------------------------------------------------------
(* The results of tc *)

(* What the files returned, before it is flattened. *)
PerFile(p) ==
  [f \in Files |-> IF state[p][f] = "NotRelevant" THEN <<"NotRelevant">> ELSE outcomes[p][f]]

Results == Outcome \cup {"NotRelevant"}

(* Every file returned something. *)
LEMMA PerFileType ==
  ASSUME TypeOK, FilePart, NEW p \in Patches,
         \A f \in Files : state[p][f] \in {"done", "NotRelevant"}
  PROVE  /\ PerFile(p) \in Seq(Seq(Results)) /\ Len(PerFile(p)) = NumFiles /\ PerFile(p) # <<>>
         /\ \A f \in Files :
              /\ PerFile(p)[f] # <<>>
              /\ PerFile(p)[f] = IF state[p][f] = "NotRelevant" THEN <<"NotRelevant">>
                                                                ELSE outcomes[p][f]
<1>1. NumFiles \in Nat \ {0} /\ Files = 1 .. NumFiles
  BY DetectionAssumption DEF Files
<1>2. ASSUME NEW f \in Files
      PROVE  /\ PerFile(p)[f] \in Seq(Results) /\ PerFile(p)[f] # <<>>
             /\ PerFile(p)[f] = IF state[p][f] = "NotRelevant" THEN <<"NotRelevant">>
                                                               ELSE outcomes[p][f]
  <2>1. PerFile(p)[f] = IF state[p][f] = "NotRelevant" THEN <<"NotRelevant">> ELSE outcomes[p][f]
    BY Zenon DEF PerFile
  <2>2. CASE state[p][f] = "NotRelevant"
    <3>1. <<"NotRelevant">> \in Seq(Results) /\ <<"NotRelevant">> # <<>>
      BY DEF Results
    <3> QED BY <2>1, <2>2, <3>1, Zenon
  <2>3. CASE state[p][f] # "NotRelevant"
    <3>1. outcomes[p][f] \in Seq(Outcome) /\ tests[f] \in 1 .. MaxTests
      BY DEF TypeOK
    <3>2. outcomes[p][f] \in Seq(Results)
      <4>1. Len(outcomes[p][f]) \in Nat /\ DOMAIN outcomes[p][f] = 1 .. Len(outcomes[p][f])
            /\ \A i \in 1 .. Len(outcomes[p][f]) : outcomes[p][f][i] \in Outcome
        BY <3>1, LenProperties, ElementOfSeq
      <4> QED BY <3>1, <4>1 DEF Results
    <3>3. Len(outcomes[p][f]) = tests[f]
      BY <2>3 DEF FilePart, FileFits
    <3>4. outcomes[p][f] # <<>>
      BY <3>1, <3>3, EmptySeq, DetectionAssumption
    <3> QED BY <2>1, <2>3, <3>2, <3>4
  <2> QED BY <2>2, <2>3
<1>3. PerFile(p) \in Seq(Seq(Results)) /\ Len(PerFile(p)) = NumFiles
  BY <1>1, <1>2, IsASeq DEF PerFile
<1>4. PerFile(p) # <<>>
  BY <1>1, <1>3, EmptySeq
<1> QED BY <1>2, <1>3, <1>4

(* tc returns a result for every file at least. *)
LEMMA TcRstsType ==
  ASSUME TypeOK, FilePart, NEW p \in Patches,
         \A f \in Files : state[p][f] \in {"done", "NotRelevant"}
  PROVE  /\ tcRsts(p) \in Seq(Results)
         /\ [f \in {g \in Files : g <= Len(tcRsts(p))} |-> tcRsts(p)[f]] \in [Files -> Results]
<1>1. /\ PerFile(p) \in Seq(Seq(Results)) /\ Len(PerFile(p)) = NumFiles /\ PerFile(p) # <<>>
      /\ \A f \in Files : PerFile(p)[f] # <<>>
  BY PerFileType
<1>2. NumFiles \in Nat \ {0} /\ Files = 1 .. NumFiles
  BY DetectionAssumption DEF Files
<1>3. tcRsts(p) = FlattenSeq(PerFile(p))
  BY DEF tcRsts, PerFile
<1>4. FlattenSeq(PerFile(p)) \in Seq(Results) /\ Len(FlattenSeq(PerFile(p))) >= NumFiles
  BY <1>1, <1>2, FlattenType
<1>5. tcRsts(p) \in Seq(Results) /\ Len(tcRsts(p)) >= NumFiles /\ Len(tcRsts(p)) \in Nat
  BY <1>3, <1>4, LenProperties
<1>6. {g \in Files : g <= Len(tcRsts(p))} = Files
  BY <1>2, <1>5
<1>7. \A f \in Files : tcRsts(p)[f] \in Results
  <2> TAKE f \in Files
  <2>1. f \in 1 .. Len(tcRsts(p))
    BY <1>2, <1>5
  <2> QED BY <1>5, <2>1, ElementOfSeq
<1> QED BY <1>5, <1>6, <1>7

(* With one test per file, the results are those of the files. *)
LEMMA TcRstsSingles ==
  ASSUME TypeOK, FilePart, NEW p \in Patches,
         \A f \in Files : state[p][f] \in {"done", "NotRelevant"},
         \A f \in Files : tests[f] = 1
  PROVE  /\ {g \in Files : g <= Len(tcRsts(p))} = Files
         /\ \A f \in Files : tcRsts(p)[f] = IF state[p][f] = "NotRelevant" THEN "NotRelevant"
                                                                          ELSE outcomes[p][f][1]
<1>1. /\ PerFile(p) \in Seq(Seq(Results)) /\ Len(PerFile(p)) = NumFiles /\ PerFile(p) # <<>>
      /\ \A f \in Files : PerFile(p)[f] = IF state[p][f] = "NotRelevant" THEN <<"NotRelevant">>
                                                                          ELSE outcomes[p][f]
  BY PerFileType
<1>2. NumFiles \in Nat \ {0} /\ Files = 1 .. NumFiles
  BY DetectionAssumption DEF Files
<1>3. tcRsts(p) = FlattenSeq(PerFile(p))
  BY DEF tcRsts, PerFile
<1>4. ASSUME NEW f \in Files
      PROVE  /\ Len(PerFile(p)[f]) = 1
             /\ PerFile(p)[f][1] = IF state[p][f] = "NotRelevant" THEN "NotRelevant"
                                                                  ELSE outcomes[p][f][1]
  <2>1. CASE state[p][f] = "NotRelevant"
    <3>1. PerFile(p)[f] = <<"NotRelevant">>
      BY <1>1, <2>1
    <3>2. Len(<<"NotRelevant">>) = 1 /\ <<"NotRelevant">>[1] = "NotRelevant"
      OBVIOUS
    <3> QED BY <2>1, <3>1, <3>2, Zenon
  <2>2. CASE state[p][f] # "NotRelevant"
    <3>1. PerFile(p)[f] = outcomes[p][f]
      BY <1>1, <2>2
    <3>2. state[p][f] = "done"
      BY <2>2
    <3>3. Len(outcomes[p][f]) = tests[f]
      BY <3>2, Zenon DEF FilePart, FileFits
    <3>4. Len(outcomes[p][f]) = 1
      BY <3>3, Zenon
    <3> QED BY <2>2, <3>1, <3>4, Zenon
  <2> QED BY <2>1, <2>2
<1>5. /\ Len(FlattenSeq(PerFile(p))) = NumFiles
      /\ \A f \in Files : FlattenSeq(PerFile(p))[f] = PerFile(p)[f][1]
  BY <1>1, <1>2, <1>4, FlattenSingles
<1>6. {g \in Files : g <= Len(tcRsts(p))} = Files
  BY <1>2, <1>3, <1>5
<1> QED BY <1>3, <1>4, <1>5, <1>6

---------------------------------------------------------------------------
(* Types *)

(* The score of a patch. *)
LEMMA ScoreType ==
  ASSUME TypeOK, NEW p \in Patches, findings[p] # NoInfo
  PROVE  Score(p) \in Findings \X Nat
<1>1. DOMAIN report[p] \subseteq Files
  <2>1. report[p] = <<>> \/ report[p] \in [Files -> Outcome \cup {"NotRelevant"}]
    BY DEF TypeOK
  <2>2. DOMAIN <<>> = {}
    OBVIOUS
  <2> QED BY <2>1, <2>2
<1>2. FailedTestCases(p) \in SUBSET Files
  BY <1>1 DEF FailedTestCases
<1>3. IsFiniteSet(Files)
  BY FS_Interval, DetectionAssumption DEF Files
<1>4. Cardinality(FailedTestCases(p)) \in Nat
  BY <1>2, <1>3, FS_Subset, FS_CardinalityType
<1>5. findings[p] \in Findings
  BY DEF TypeOK
<1> QED BY <1>4, <1>5 DEF Score

(* Every step keeps the types. *)
LEMMA TypeStep ==
  ASSUME TypeOK, LockPart, FilePart, [Next]_vars
  PROVE  TypeOK'
<1>1. CASE UNCHANGED vars
  BY <1>1 DEF TypeOK, vars, inputVars, tcVars, resultVars
<1>2. CASE AssignFitness
  <2>1. \A p \in Patches : Score(p) \in Findings \X Nat
    BY <1>2, ScoreType DEF AssignFitness
  <2>2. fitness' \in [Patches -> {NoInfo} \cup (Findings \X Nat)]
    BY <1>2, <2>1 DEF AssignFitness
  <2> QED BY <1>2, <2>2 DEF AssignFitness, TypeOK, inputVars, tcVars
<1>3. ASSUME NEW p \in Patches, Build(p) PROVE TypeOK'
  BY <1>3 DEF Build, TypeOK, inputVars, tcVars, resultVars
<1>4. ASSUME NEW p \in Patches, Built(p) PROVE TypeOK'
  <2>1. queue' \in Seq(Patches)
    BY <1>4, AppendProperties DEF Built, TypeOK
  <2> QED BY <1>4, <2>1 DEF Built, TypeOK, inputVars, tcVars, resultVars
<1>5. ASSUME NEW p \in Patches, BuildFails(p) \/ StartTests(p) PROVE TypeOK'
  BY <1>5 DEF BuildFails, StartTests, TypeOK, inputVars, tcVars, resultVars
<1>6. ASSUME NEW p \in Patches, TcFails(p), queue # <<>> PROVE TypeOK'
  <2>1. queue' \in Seq(Patches)
    BY <1>6, HeadTailProperties DEF TcFails, TypeOK
  <2>2. state' \in [Patches -> [Files -> {"queued", "running", "done", "NotRelevant", "killed"}]]
    BY <1>6 DEF TcFails, TypeOK
  <2> QED BY <1>6, <2>1, <2>2 DEF TcFails, TypeOK, inputVars, resultVars
<1>7. ASSUME NEW p \in Patches, NEW f \in Files, StartFile(p, f) PROVE TypeOK'
  <2>1. state' \in [Patches -> [Files -> {"queued", "running", "done", "NotRelevant", "killed"}]]
    BY <1>7 DEF StartFile, TypeOK
  <2> QED BY <1>7, <2>1 DEF StartFile, TypeOK, inputVars, resultVars
<1>8. ASSUME NEW p \in Patches, NEW f \in Files, NEW rst \in {"pass", "fail"}, RunTest(p, f, rst)
      PROVE  TypeOK'
  <2>1. state' \in [Patches -> [Files -> {"queued", "running", "done", "NotRelevant", "killed"}]]
    BY <1>8 DEF RunTest, TypeOK
  <2>2. outcomes[p][f] \in Seq(Outcome) /\ rst \in Outcome
    BY DEF TypeOK, Outcome
  <2>3. Append(outcomes[p][f], rst) \in Seq(Outcome)
        /\ Len(Append(outcomes[p][f], rst)) = Len(outcomes[p][f]) + 1
    BY <2>2, AppendProperties
  <2>4. outcomes' = [outcomes EXCEPT ![p][f] = Append(outcomes[p][f], rst)]
    BY <1>8 DEF RunTest
  <2> DEFINE new == Append(outcomes[p][f], rst)
  <2> HIDE DEF new
  <2>5. outcomes' = [outcomes EXCEPT ![p][f] = new] /\ new \in Seq(Outcome)
    BY <2>3, <2>4 DEF new
  <2>6. outcomes' \in [Patches -> [Files -> Seq(Outcome)]]
    BY <2>5 DEF TypeOK
  <2>7. Len(new) <= tests[f]
    <3>1. Len(outcomes[p][f]) < tests[f] /\ Len(outcomes[p][f]) \in Nat /\ tests[f] \in Nat
      BY <1>8, <2>2, LenProperties DEF FilePart, FileFits, RunTest, TypeOK
    <3>2. Len(new) = Len(outcomes[p][f]) + 1
      BY <2>3, Zenon DEF new
    <3> QED BY <3>1, <3>2
  <2>8. \A q \in Patches, g \in Files :
           outcomes'[q][g] = IF q = p /\ g = f THEN new ELSE outcomes[q][g]
    BY <2>5, SMTT(30) DEF TypeOK
  <2>9. \A q \in Patches : \A g \in Files : Len(outcomes'[q][g]) <= tests[g]
    BY <2>7, <2>8, ZenonT(30) DEF TypeOK
  <2> QED BY <1>8, <2>1, <2>6, <2>9 DEF RunTest, TypeOK, inputVars, resultVars
<1>9. ASSUME NEW p \in Patches, Report(p), queue # <<>> PROVE TypeOK'
  <2>1. queue' \in Seq(Patches)
    BY <1>9, HeadTailProperties DEF Report, TypeOK
  <2> DEFINE new == [f \in {g \in Files : g <= Len(tcRsts(p))} |-> tcRsts(p)[f]]
  <2>2. new \in [Files -> Results]
    BY <1>9, TcRstsType DEF Report
  <2>3. report' = [report EXCEPT ![p] = new]
    BY <1>9 DEF Report
  <2> HIDE DEF new
  <2>4. DOMAIN report' = Patches /\ \A q \in Patches :
           report'[q] \in {<<>>} \cup [Files -> Outcome \cup {"NotRelevant"}]
    BY <2>2, <2>3 DEF TypeOK, Results
  <2> QED BY <1>9, <2>1, <2>4 DEF Report, TypeOK, inputVars, tcVars
<1>10. ASSUME NEW p \in Patches, SlitherDone(p) PROVE TypeOK'
  BY <1>10 DEF SlitherDone, TypeOK, inputVars, tcVars
<1>11. ASSUME NEW p \in Patches, NoLocations(p) \/ \E f \in Files : TestThrows(p, f)
       PROVE  TcFails(p) /\ queue # <<>>
  BY <1>11 DEF NoLocations, TestThrows, LockPart, FilePart, FileFits, Holds
<1>12. ASSUME NEW p \in Patches, Report(p) PROVE queue # <<>>
  BY <1>12 DEF Report, LockPart, Holds
<1>13. ASSUME NEW p \in Patches, Detect(p) PROVE TypeOK'
  BY <1>3, <1>4, <1>5, <1>6, <1>7, <1>8, <1>9, <1>11, <1>12, <1>13 DEF Detect
<1> QED BY <1>1, <1>2, <1>10, <1>13 DEF Next

---------------------------------------------------------------------------
(* The lock *)

(* The elements of a queue, and what joining and leaving it do to them. *)
LEMMA QueueElements ==
  ASSUME NEW S, NEW q \in Seq(S)
  PROVE  ToSet(q) = {q[i] : i \in 1 .. Len(q)}
<1>1. DOMAIN q = 1 .. Len(q)
  OBVIOUS
<1> QED BY <1>1, Zenon DEF ToSet

(* Joining the queue. *)
LEMMA QueueJoin ==
  ASSUME NEW S, NEW q \in Seq(S), NEW x \in S, x \notin ToSet(q),
         \A i, j \in 1 .. Len(q) : q[i] = q[j] => i = j
  PROVE  /\ ToSet(Append(q, x)) = ToSet(q) \cup {x}
         /\ \A i, j \in 1 .. Len(Append(q, x)) : Append(q, x)[i] = Append(q, x)[j] => i = j
         /\ Append(q, x) # <<>> /\ (q # <<>> => Head(Append(q, x)) = Head(q))
<1>1. Len(q) \in Nat /\ ToSet(q) = {q[i] : i \in 1 .. Len(q)}
  BY LenProperties, QueueElements
<1> DEFINE r == Append(q, x)
<1>2. /\ r \in Seq(S) /\ Len(r) = Len(q) + 1 /\ r # <<>> /\ r[Len(q) + 1] = x
      /\ \A i \in 1 .. Len(q) : r[i] = q[i]
  BY AppendProperties
<1> HIDE DEF r
<1>3. ToSet(r) = {r[i] : i \in 1 .. Len(r)}
  BY <1>2, QueueElements
<1>4. \A i \in 1 .. Len(r) : i \in 1 .. Len(q) \/ i = Len(q) + 1
  BY <1>1, <1>2
<1>5. \A i \in 1 .. Len(q) + 1 : i \in 1 .. Len(r)
  BY <1>2
<1>6. \A i \in 1 .. Len(q) : i \in 1 .. Len(r)
  BY <1>1, <1>2
<1>7. Len(q) + 1 \in 1 .. Len(r)
  BY <1>1, <1>2
<1>8. \A i \in 1 .. Len(q) : q[i] # x
  BY <1>1
<1>9. ToSet(r) = ToSet(q) \cup {x}
  <2>1. ASSUME NEW y \in ToSet(r) PROVE y \in ToSet(q) \cup {x}
    BY <1>1, <1>2, <1>3, <1>4
  <2>2. ASSUME NEW y \in ToSet(q) \cup {x} PROVE y \in ToSet(r)
    BY <1>1, <1>2, <1>3, <1>6, <1>7
  <2> QED BY <2>1, <2>2
<1>10. ASSUME NEW i \in 1 .. Len(r), NEW j \in 1 .. Len(r), r[i] = r[j] PROVE i = j
  BY <1>2, <1>4, <1>8, <1>10
<1>11. q # <<>> => Head(r) = Head(q)
  <2> SUFFICES ASSUME q # <<>> PROVE Head(r) = Head(q)
    OBVIOUS
  <2>1. 1 \in 1 .. Len(q)
    BY <1>1, EmptySeq
  <2>2. r[1] = q[1]
    BY <1>2, <2>1
  <2> QED BY <1>2, <2>2
<1> QED BY <1>2, <1>9, <1>10, <1>11 DEF r

(* Leaving the queue at its head. *)
LEMMA QueueLeave ==
  ASSUME NEW S, NEW q \in Seq(S), q # <<>>,
         \A i, j \in 1 .. Len(q) : q[i] = q[j] => i = j
  PROVE  /\ ToSet(Tail(q)) = ToSet(q) \ {Head(q)}
         /\ \A i, j \in 1 .. Len(Tail(q)) : Tail(q)[i] = Tail(q)[j] => i = j
<1>1. Len(q) \in Nat /\ Len(q) >= 1 /\ ToSet(q) = {q[i] : i \in 1 .. Len(q)}
  BY LenProperties, EmptySeq, QueueElements
<1> DEFINE r == Tail(q)
<1>2. /\ r \in Seq(S) /\ Len(r) = Len(q) - 1 /\ \A i \in 1 .. Len(q) - 1 : r[i] = q[i + 1]
  BY HeadTailProperties
<1>3. Head(q) = q[1]
  OBVIOUS
<1> HIDE DEF r
<1>4. ToSet(r) = {r[i] : i \in 1 .. Len(r)}
  BY <1>2, QueueElements
<1>5. \A i \in 1 .. Len(r) : i + 1 \in 1 .. Len(q) /\ i + 1 # 1 /\ r[i] = q[i + 1]
  BY <1>1, <1>2
<1>6. \A i \in 1 .. Len(q) : i # 1 => \E j \in 1 .. Len(r) : i = j + 1
  <2> SUFFICES ASSUME NEW i \in 1 .. Len(q), i # 1 PROVE \E j \in 1 .. Len(r) : i = j + 1
    OBVIOUS
  <2>1. i - 1 \in 1 .. Len(r) /\ i = (i - 1) + 1
    BY <1>1, <1>2
  <2> QED BY <2>1
<1>7. 1 \in 1 .. Len(q)
  BY <1>1
<1>8. ToSet(r) = ToSet(q) \ {Head(q)}
  <2>1. ASSUME NEW y \in ToSet(r) PROVE y \in ToSet(q) \ {Head(q)}
    BY <1>1, <1>3, <1>4, <1>5, <1>7
  <2>2. ASSUME NEW y \in ToSet(q) \ {Head(q)} PROVE y \in ToSet(r)
    BY <1>1, <1>3, <1>4, <1>5, <1>6
  <2> QED BY <2>1, <2>2
<1>9. ASSUME NEW i \in 1 .. Len(r), NEW j \in 1 .. Len(r), r[i] = r[j] PROVE i = j
  <2>1. i + 1 = j + 1
    BY <1>5, <1>9
  <2> QED BY <1>1, <1>2, <2>1
<1> QED BY <1>8, <1>9 DEF r

(* The holder leaves the lock to the next one in the queue. *)
LEMMA ReleaseLock ==
  ASSUME TypeOK, LockPart, NEW p \in Patches, Holds(p), queue' = Tail(queue),
         NEW s \in {"done", "failed"}, stage' = [stage EXCEPT ![p] = s]
  PROVE  LockPart'
<1>1. queue # <<>> /\ Head(queue) = p /\ queue \in Seq(Patches)
  BY DEF Holds, TypeOK
<1>2. \A i, j \in 1 .. Len(queue) : queue[i] = queue[j] => i = j
  BY DEF LockPart
<1>3. /\ ToSet(queue') = ToSet(queue) \ {p}
      /\ \A i, j \in 1 .. Len(queue') : queue'[i] = queue'[j] => i = j
  BY <1>1, <1>2, QueueLeave
<1>4. \A q \in Patches : stage'[q] = IF q = p THEN s ELSE stage[q]
  BY DEF TypeOK
<1>5. \A q \in Patches : stage'[q] # "testing"
  BY <1>1, <1>4 DEF LockPart, Holds
<1>6. \A q \in Patches : stage'[q] \in {"waiting", "testing"} <=> q \in ToSet(queue')
  BY <1>3, <1>4 DEF LockPart
<1> QED BY <1>3, <1>5, <1>6 DEF LockPart

(* Every step keeps the lock. *)
LEMMA LockStep ==
  ASSUME TypeOK, LockPart, FilePart, [Next]_vars
  PROVE  LockPart'
<1>1. CASE UNCHANGED <<stage, queue>>
  BY <1>1 DEF LockPart, Holds
<1>2. CASE UNCHANGED vars \/ AssignFitness \/ \E p \in Patches : SlitherDone(p)
  BY <1>1, <1>2 DEF vars, AssignFitness, SlitherDone
<1>3. ASSUME NEW p \in Patches, Build(p) \/ BuildFails(p) PROVE LockPart'
  <2>1. /\ queue' = queue /\ stage[p] \notin {"waiting", "testing"}
        /\ stage'[p] \notin {"waiting", "testing"} /\ \A q \in Patches \ {p} : stage'[q] = stage[q]
    BY <1>3 DEF Build, BuildFails, TypeOK
  <2> QED BY <2>1 DEF LockPart, Holds
<1>4. ASSUME NEW p \in Patches, Built(p) PROVE LockPart'
  <2>1. /\ queue' = Append(queue, p) /\ stage[p] = "building" /\ stage'[p] = "waiting"
        /\ \A q \in Patches \ {p} : stage'[q] = stage[q]
    BY <1>4 DEF Built, TypeOK
  <2>2. queue \in Seq(Patches) /\ p \notin ToSet(queue)
    BY <2>1 DEF LockPart, TypeOK
  <2>3. \A i, j \in 1 .. Len(queue) : queue[i] = queue[j] => i = j
    BY DEF LockPart
  <2>4. /\ ToSet(queue') = ToSet(queue) \cup {p}
        /\ \A i, j \in 1 .. Len(queue') : queue'[i] = queue'[j] => i = j
        /\ queue' # <<>> /\ (queue # <<>> => Head(queue') = Head(queue))
    <3> HIDE DEF ToSet
    <3> QED BY <2>1, <2>2, <2>3, QueueJoin
  <2>5. \A q \in Patches : stage'[q] = "testing" => Holds(q)'
    BY <2>1, <2>4 DEF LockPart, Holds
  <2>6. \A q \in Patches : stage'[q] \in {"waiting", "testing"} <=> q \in ToSet(queue')
    BY <2>1, <2>4 DEF LockPart
  <2> QED BY <2>4, <2>5, <2>6 DEF LockPart
<1>5. ASSUME NEW p \in Patches, StartTests(p) PROVE LockPart'
  <2>1. /\ queue' = queue /\ stage[p] = "waiting" /\ Holds(p)
        /\ stage'[p] = "testing" /\ \A q \in Patches \ {p} : stage'[q] = stage[q]
    BY <1>5 DEF StartTests, TypeOK
  <2> QED BY <2>1 DEF LockPart, Holds
<1>6. ASSUME NEW p \in Patches, NoLocations(p) \/ (\E f \in Files : TestThrows(p, f)) \/ Report(p)
      PROVE  LockPart'
  <2>1. Holds(p)
    BY <1>6 DEF NoLocations, TestThrows, Report, LockPart, FilePart, FileFits
  <2>2. queue' = Tail(queue) /\ \E s \in {"done", "failed"} : stage' = [stage EXCEPT ![p] = s]
    BY <1>6 DEF NoLocations, TestThrows, Report, TcFails
  <2> QED BY <2>1, <2>2, ReleaseLock
<1>7. ASSUME NEW p \in Patches, NEW f \in Files,
             StartFile(p, f) \/ \E rst \in {"pass", "fail"} : RunTest(p, f, rst)
      PROVE  LockPart'
  BY <1>1, <1>7 DEF StartFile, RunTest
<1>8. ASSUME NEW p \in Patches, Detect(p) PROVE LockPart'
  BY <1>3, <1>4, <1>5, <1>6, <1>7, <1>8 DEF Detect
<1> QED BY <1>2, <1>8 DEF Next

---------------------------------------------------------------------------
(* The files *)

(* The files are finitely many, and so are those being run. *)
LEMMA RunningFinite ==
  ASSUME NEW p \in Patches
  PROVE  /\ IsFiniteSet(Files) /\ IsFiniteSet(Running(p)) /\ Cardinality(Running(p)) \in Nat
         /\ \A S \in SUBSET Running(p) :
              Cardinality(S) \in Nat /\ Cardinality(S) <= Cardinality(Running(p))
<1>1. IsFiniteSet(Files)
  BY FS_Interval, DetectionAssumption DEF Files
<1>2. IsFiniteSet(Running(p))
  BY <1>1, FS_Subset DEF Running
<1> QED BY <1>1, <1>2, FS_Subset, FS_CardinalityType

(* A patch whose detection does not move stays as it is. *)
LEMMA PatchRests ==
  ASSUME FilePart, NEW p \in Patches, UNCHANGED inputVars,
         stage'[p] = stage[p], state'[p] = state[p], outcomes'[p] = outcomes[p]
  PROVE  Cardinality(Running(p)') <= Limit /\ \A f \in Files : FileFits(p, f)'
<1>1. Running(p)' = Running(p)
  BY DEF Running
<1>2. Cardinality(Running(p)) <= Limit
  BY DEF FilePart
<1>3. ASSUME NEW f \in Files PROVE FileFits(p, f)'
  <2>1. NotRelevant(p, f)' <=> NotRelevant(p, f)
    BY DEF inputVars, NotRelevant
  <2>2. FileFits(p, f)
    BY DEF FilePart
  <2>3. tests' = tests /\ modified' = modified
    BY DEF inputVars
  <2> HIDE DEF NotRelevant
  <2> QED BY <2>1, <2>2, <2>3 DEF FileFits
<1> QED BY <1>1, <1>2, <1>3

(* A file whose detection goes on, but that is not touched itself. *)
LEMMA FileRests ==
  ASSUME FilePart, NEW p \in Patches, NEW f \in Files, UNCHANGED inputVars,
         stage'[p] = stage[p], state'[p][f] = state[p][f], outcomes'[p][f] = outcomes[p][f]
  PROVE  FileFits(p, f)'
<1>1. NotRelevant(p, f)' <=> NotRelevant(p, f)
  BY DEF inputVars, NotRelevant
<1>2. FileFits(p, f)
  BY DEF FilePart
<1>3. tests' = tests /\ modified' = modified
  BY DEF inputVars
<1> QED BY <1>1, <1>2, <1>3 DEF FileFits

(* A step of the detection before and after tc leaves the files as they are. *)
LEMMA StageMoves ==
  ASSUME TypeOK, FilePart, NEW p \in Patches, UNCHANGED <<inputVars, tcVars>>,
         NEW s \in {"building", "waiting", "testing", "done", "failed"},
         stage' = [stage EXCEPT ![p] = s],
         \/ s \in {"building", "waiting", "failed"} /\ stage[p] \in {"new", "building"}
         \/ s = "testing" /\ stage[p] = "waiting" /\ modified[p] # NoInfo
         \/ /\ s = "done" /\ stage[p] = "testing"
            /\ \A f \in Files : state[p][f] \in {"done", "NotRelevant"}
  PROVE  FilePart'
<1>1. /\ state' = state /\ outcomes' = outcomes /\ tests' = tests /\ modified' = modified
      /\ UNCHANGED inputVars /\ \A q \in Patches : stage'[q] = IF q = p THEN s ELSE stage[q]
  BY DEF TypeOK, tcVars, inputVars
<1>2. ASSUME NEW q \in Patches, q # p
      PROVE  Cardinality(Running(q)') <= Limit /\ \A f \in Files : FileFits(q, f)'
  BY <1>1, <1>2, PatchRests
<1>3. Cardinality(Running(p)') <= Limit
  BY <1>1 DEF FilePart, Running
<1>4. ASSUME NEW f \in Files PROVE FileFits(p, f)'
  <2>1. NotRelevant(p, f)' <=> NotRelevant(p, f)
    BY DEF inputVars, NotRelevant
  <2>2. FileFits(p, f)
    BY DEF FilePart
  <2> QED BY <1>1, <2>1, <2>2 DEF FileFits
<1> QED BY <1>2, <1>3, <1>4 DEF FilePart

(* A failure of tc ends what was being run. *)
LEMMA TcFailsFits ==
  ASSUME TypeOK, FilePart, NEW p \in Patches, TcFails(p)
  PROVE  FilePart'
<1>1. /\ outcomes' = outcomes /\ tests' = tests /\ modified' = modified /\ UNCHANGED inputVars
      /\ \A q \in Patches : stage'[q] = IF q = p THEN "failed" ELSE stage[q]
      /\ \A q \in Patches : q # p => state'[q] = state[q]
      /\ \A f \in Files : state'[p][f] = IF state[p][f] = "running" THEN "killed" ELSE state[p][f]
  BY DEF TcFails, TypeOK, inputVars
<1>2. ASSUME NEW q \in Patches, q # p
      PROVE  Cardinality(Running(q)') <= Limit /\ \A f \in Files : FileFits(q, f)'
  BY <1>1, <1>2, PatchRests
<1>3. Cardinality(Running(p)') <= Limit
  <2>1. Running(p)' = {}
    BY <1>1 DEF Running
  <2> QED BY <2>1, FS_EmptySet, DetectionAssumption
<1>4. ASSUME NEW f \in Files PROVE FileFits(p, f)'
  <2>1. NotRelevant(p, f)' <=> NotRelevant(p, f)
    BY <1>1 DEF inputVars, NotRelevant
  <2>2. FileFits(p, f)
    BY DEF FilePart
  <2> QED BY <1>1, <2>1, <2>2 DEF FileFits
<1> QED BY <1>2, <1>3, <1>4 DEF FilePart

(* A file is taken when a slot is free. *)
LEMMA StartFileFits ==
  ASSUME TypeOK, FilePart, NEW p \in Patches, NEW f \in Files, StartFile(p, f)
  PROVE  FilePart'
<1> DEFINE new == IF NotRelevant(p, f) THEN "NotRelevant" ELSE "running"
<1>1. /\ outcomes' = outcomes /\ stage' = stage /\ tests' = tests /\ modified' = modified
      /\ UNCHANGED inputVars
      /\ stage[p] = "testing" /\ state[p][f] = "queued" /\ Cardinality(Running(p)) < Limit
  BY DEF StartFile, inputVars
<1>2. state' = [state EXCEPT ![p][f] = new]
  BY DEF StartFile
<1>3. new \in {"NotRelevant", "running"} /\ (new = "NotRelevant" <=> NotRelevant(p, f))
  OBVIOUS
<1> HIDE DEF new
<1>4. /\ \A q \in Patches : q # p => state'[q] = state[q]
      /\ \A g \in Files : state'[p][g] = IF g = f THEN new ELSE state[p][g]
  BY <1>2 DEF TypeOK
<1>5. ASSUME NEW q \in Patches, q # p
      PROVE  Cardinality(Running(q)') <= Limit /\ \A g \in Files : FileFits(q, g)'
  BY <1>1, <1>4, <1>5, PatchRests
<1>6. Cardinality(Running(p)') <= Limit
  <2>1. Running(p)' \subseteq Running(p) \cup {f}
    BY <1>4 DEF Running
  <2>2. IsFiniteSet(Running(p)) /\ Cardinality(Running(p)) \in Nat /\ f \notin Running(p)
    BY <1>1, RunningFinite DEF Running
  <2>3. IsFiniteSet(Running(p) \cup {f}) /\ Cardinality(Running(p) \cup {f}) = Cardinality(Running(p)) + 1
    BY <2>2, FS_AddElement
  <2>4. Cardinality(Running(p)') <= Cardinality(Running(p) \cup {f}) /\ Cardinality(Running(p)') \in Nat
    BY <2>1, <2>3, FS_Subset, FS_CardinalityType
  <2> QED BY <1>1, <2>2, <2>3, <2>4, DetectionAssumption
<1>7. ASSUME NEW g \in Files PROVE FileFits(p, g)'
  <2>1. CASE g # f
    BY <1>1, <1>4, <2>1, FileRests
  <2>2. CASE g = f
    <3>1. NotRelevant(p, f)' <=> NotRelevant(p, f)
      BY <1>1 DEF inputVars, NotRelevant
    <3>2. outcomes[p][f] = <<>> /\ modified[p] # NoInfo
      BY <1>1 DEF FilePart, FileFits
    <3>3. Len(outcomes[p][f]) < tests[f]
      BY <3>2 DEF TypeOK
    <3>4. state'[p][f] = new
      BY <1>4
    <3> QED BY <1>1, <1>3, <2>2, <3>1, <3>2, <3>3, <3>4 DEF FileFits
  <2> QED BY <2>1, <2>2
<1> QED BY <1>5, <1>6, <1>7 DEF FilePart

(* A test is run; the last one ends its file. *)
LEMMA RunTestFits ==
  ASSUME TypeOK, FilePart, NEW p \in Patches, NEW f \in Files,
         NEW rst \in {"pass", "fail"}, RunTest(p, f, rst)
  PROVE  FilePart'
<1> DEFINE new == IF Len(outcomes[p][f]) + 1 = tests[f] THEN "done" ELSE "running"
           longer == Append(outcomes[p][f], rst)
<1>1. /\ stage' = stage /\ tests' = tests /\ modified' = modified /\ UNCHANGED inputVars
      /\ state[p][f] = "running"
  BY DEF RunTest, inputVars
<1>2. stage[p] = "testing" /\ Len(outcomes[p][f]) < tests[f] /\ modified[p] # NoInfo
      /\ ~NotRelevant(p, f)
  BY <1>1 DEF FilePart, FileFits
<1>3. state' = [state EXCEPT ![p][f] = new] /\ outcomes' = [outcomes EXCEPT ![p][f] = longer]
  BY <1>1 DEF RunTest
<1>4. Len(longer) = Len(outcomes[p][f]) + 1 /\ Len(outcomes[p][f]) \in Nat /\ tests[f] \in Nat
  <2>1. outcomes[p][f] \in Seq(Outcome) /\ rst \in Outcome
    BY DEF TypeOK, Outcome
  <2> QED BY <2>1, AppendProperties, LenProperties DEF TypeOK
<1>5. new \in {"done", "running"} /\ (new = "done" => Len(longer) = tests[f])
      /\ (new = "running" => Len(longer) < tests[f])
  <2> HIDE DEF longer
  <2> QED BY <1>2, <1>4
<1> HIDE DEF new, longer
<1>6. /\ \A q \in Patches : q # p => state'[q] = state[q] /\ outcomes'[q] = outcomes[q]
      /\ \A g \in Files : g # f => state'[p][g] = state[p][g] /\ outcomes'[p][g] = outcomes[p][g]
      /\ state'[p][f] = new /\ outcomes'[p][f] = longer
  BY <1>3 DEF TypeOK
<1>7. ASSUME NEW q \in Patches, q # p
      PROVE  Cardinality(Running(q)') <= Limit /\ \A g \in Files : FileFits(q, g)'
  BY <1>1, <1>6, <1>7, PatchRests
<1>8. Cardinality(Running(p)') <= Limit
  <2>1. Running(p)' \in SUBSET Running(p)
    BY <1>1, <1>6 DEF Running
  <2> QED BY <2>1, RunningFinite, DetectionAssumption DEF FilePart
<1>9. ASSUME NEW g \in Files PROVE FileFits(p, g)'
  <2>1. CASE g # f
    BY <1>1, <1>6, <2>1, FileRests
  <2>2. CASE g = f
    <3>1. NotRelevant(p, f)' <=> NotRelevant(p, f)
      BY <1>1 DEF inputVars, NotRelevant
    <3> QED BY <1>1, <1>2, <1>5, <1>6, <2>2, <3>1 DEF FileFits
  <2> QED BY <2>1, <2>2
<1> QED BY <1>7, <1>8, <1>9 DEF FilePart

(* Every step keeps the files in order. *)
LEMMA FileStep ==
  ASSUME TypeOK, FilePart, [Next]_vars
  PROVE  FilePart'
<1>1. CASE UNCHANGED <<inputVars, stage, tcVars>>
  <2>1. ASSUME NEW p \in Patches
        PROVE  Cardinality(Running(p)') <= Limit /\ \A f \in Files : FileFits(p, f)'
    BY <1>1, PatchRests DEF tcVars
  <2> QED BY <2>1 DEF FilePart
<1>2. CASE UNCHANGED vars \/ AssignFitness \/ \E p \in Patches : SlitherDone(p)
  BY <1>1, <1>2 DEF vars, AssignFitness, SlitherDone
<1>3. ASSUME NEW p \in Patches, Build(p) \/ Built(p) \/ BuildFails(p) \/ StartTests(p) \/ Report(p)
      PROVE  FilePart'
  BY <1>3, StageMoves DEF Build, Built, BuildFails, StartTests, Report
<1>4. ASSUME NEW p \in Patches, NoLocations(p) \/ \E f \in Files : TestThrows(p, f)
      PROVE  FilePart'
  BY <1>4, TcFailsFits DEF NoLocations, TestThrows
<1>5. ASSUME NEW p \in Patches, Detect(p) PROVE FilePart'
  BY <1>3, <1>4, <1>5, StartFileFits, RunTestFits DEF Detect
<1> QED BY <1>2, <1>5 DEF Next

---------------------------------------------------------------------------
(* The results *)

(* A patch that is through keeps its results. *)
LEMMA ResultRests ==
  ASSUME ResultPart, NEW p \in Patches,
         stage'[p] = stage[p], state'[p] = state[p], outcomes'[p] = outcomes[p],
         report'[p] = report[p], findings'[p] = findings[p], fitness'[p] = fitness[p]
  PROVE  ResultFits(p)'
<1>1. tcRsts(p)' = tcRsts(p)
  BY DEF tcRsts
<1>2. Score(p)' = Score(p)
  BY DEF Score, FailedTestCases
<1>3. ResultFits(p)
  BY DEF ResultPart
<1> HIDE DEF tcRsts, Score
<1> QED BY <1>1, <1>2, <1>3, Zenon DEF ResultFits

(* A patch that was not through and is not through now has none. *)
LEMMA ResultNotYet ==
  ASSUME ResultPart, NEW p \in Patches,
         stage[p] # "done" \/ findings[p] = NoInfo, stage'[p] # "done", fitness'[p] = fitness[p]
  PROVE  ResultFits(p)'
BY DEF ResultPart, ResultFits

(* The result of a patch that is being reported. *)
LEMMA ReportFits ==
  ASSUME TypeOK, ResultPart, NEW p \in Patches, Report(p)
  PROVE  ResultFits(p)'
<1>1. tcRsts(p)' = tcRsts(p)
  BY DEF Report, tcVars, tcRsts
<1>2. report'[p] = [f \in {g \in Files : g <= Len(tcRsts(p))} |-> tcRsts(p)[f]]
  BY DEF Report, TypeOK
<1>3. fitness' = fitness /\ fitness[p] = NoInfo
  BY DEF Report, ResultPart, ResultFits
<1> HIDE DEF tcRsts
<1> QED BY <1>1, <1>2, <1>3, Zenon DEF ResultFits

(* Every step keeps the results. *)
LEMMA ResultStep ==
  ASSUME TypeOK, FilePart, ResultPart, [Next]_vars
  PROVE  ResultPart'
<1>1. CASE UNCHANGED vars
  BY <1>1, ResultRests DEF ResultPart, vars, tcVars, resultVars
<1>2. CASE AssignFitness
  <2> SUFFICES ASSUME NEW p \in Patches PROVE ResultFits(p)'
    BY DEF ResultPart
  <2>1. tcRsts(p)' = tcRsts(p) /\ Score(p)' = Score(p)
    BY <1>2 DEF AssignFitness, tcVars, tcRsts, Score, FailedTestCases
  <2>2. /\ fitness'[p] = Score(p) /\ stage'[p] = "done" /\ stage[p] = "done"
        /\ findings'[p] # NoInfo /\ report' = report
    BY <1>2 DEF AssignFitness
  <2>3. ResultFits(p)
    BY DEF ResultPart
  <2> HIDE DEF tcRsts, Score
  <2> QED BY <2>1, <2>2, <2>3, Zenon DEF ResultFits
<1>3. ASSUME NEW p \in Patches, SlitherDone(p) PROVE ResultPart'
  <2> SUFFICES ASSUME NEW q \in Patches PROVE ResultFits(q)'
    BY DEF ResultPart
  <2>1. CASE q # p
    <3>1. findings'[q] = findings[q]
      BY <1>3, <2>1 DEF SlitherDone, TypeOK
    <3> QED BY <1>3, <3>1, ResultRests DEF SlitherDone, tcVars
  <2>2. CASE q = p
    <3>1. fitness'[p] = NoInfo /\ UNCHANGED <<stage, state, outcomes, report>>
      BY <1>3 DEF SlitherDone, ResultPart, ResultFits, tcVars
    <3>2. tcRsts(p)' = tcRsts(p)
      BY <3>1 DEF tcRsts
    <3>3. ResultFits(p)
      BY DEF ResultPart
    <3> HIDE DEF tcRsts
    <3> QED BY <2>2, <3>1, <3>2, <3>3, Zenon DEF ResultFits
  <2> QED BY <2>1, <2>2
<1>4. ASSUME NEW p \in Patches, Detect(p) PROVE ResultPart'
  <2> SUFFICES ASSUME NEW q \in Patches PROVE ResultFits(q)'
    BY DEF ResultPart
  <2>1. findings' = findings /\ fitness' = fitness
    BY <1>4 DEF Detect, Build, Built, BuildFails, StartTests, NoLocations, Report, StartFile,
                TestThrows, TcFails, RunTest, resultVars
  <2>2. CASE q # p
    <3>1. stage'[q] = stage[q]
      BY <1>4, <2>2 DEF Detect, Build, Built, BuildFails, StartTests, NoLocations, Report,
                        StartFile, TestThrows, TcFails, RunTest, TypeOK
    <3>2. report'[q] = report[q]
      BY <1>4, <2>2 DEF Detect, Build, Built, BuildFails, StartTests, NoLocations, Report,
                        StartFile, TestThrows, TcFails, RunTest, TypeOK, resultVars
    <3>3. state'[q] = state[q] /\ outcomes'[q] = outcomes[q]
      BY <1>4, <2>2 DEF Detect, Build, Built, BuildFails, StartTests, NoLocations, Report,
                        StartFile, TestThrows, TcFails, RunTest, TypeOK, tcVars
    <3> QED BY <2>1, <3>1, <3>2, <3>3, ResultRests
  <2>3. CASE q = p /\ Report(p)
    BY <2>3, ReportFits
  <2>4. CASE q = p /\ ~Report(p)
    <3>1. stage[p] # "done" /\ stage'[p] # "done"
      BY <1>4, <2>4 DEF Detect, Build, Built, BuildFails, StartTests, NoLocations,
                        StartFile, TestThrows, TcFails, RunTest, TypeOK, FilePart, FileFits
    <3> QED BY <2>1, <2>4, <3>1, ResultNotYet
  <2> QED BY <2>2, <2>3, <2>4
<1> QED BY <1>1, <1>2, <1>3, <1>4 DEF Next

---------------------------------------------------------------------------
(* The inductive invariant *)

(* Before the first step. *)
LEMMA InitInv ==
  ASSUME Init
  PROVE  TypeOK /\ DetectInv
<1>1. TypeOK
  BY EmptySeq DEF Init, TypeOK, Outcome
<1>2. LockPart
  BY DEF Init, LockPart, ToSet
<1>3. FilePart
  <2> SUFFICES ASSUME NEW p \in Patches
               PROVE  Cardinality(Running(p)) <= Limit /\ \A f \in Files : FileFits(p, f)
    BY DEF FilePart
  <2>1. Running(p) = {}
    BY DEF Init, Running
  <2>2. Cardinality(Running(p)) <= Limit
    BY <2>1, FS_EmptySet, DetectionAssumption
  <2>3. \A f \in Files : FileFits(p, f)
    BY DEF Init, FileFits
  <2> QED BY <2>2, <2>3
<1>4. ResultPart
  BY DEF Init, ResultPart, ResultFits
<1> QED BY <1>1, <1>2, <1>3, <1>4 DEF DetectInv

(* The lock, the files and the results stay in step, whatever the order in   *)
(* which compilers, tests and Slither end: who waits for the lock is queued  *)
(* once, only the holder has files under test, and what was reported is what *)
(* tc returned (ETC.detect, exec2.ts, CR.evaluatePopulation).                *)
THEOREM DetectCorrect == Spec => [](TypeOK /\ DetectInv)
<1>1. Init => TypeOK /\ DetectInv
  BY InitInv
<1>2. TypeOK /\ DetectInv /\ [Next]_vars => (TypeOK /\ DetectInv)'
  BY TypeStep, LockStep, FileStep, ResultStep DEF DetectInv
<1> QED BY <1>1, <1>2, PTL DEF Spec

(* The types of the variables, the results paired with the files among them. *)
THEOREM TypeCorrect == Spec => []TypeOK
BY DetectCorrect, PTL

---------------------------------------------------------------------------
(* What follows *)

(* The load of the machine: over all patches of a generation no more than     *)
(* Limit files are under test, since only the holder of the lock has any.     *)
THEOREM LoadCorrect == Spec => []LoadBounded
<1>1. TypeOK /\ DetectInv => LoadBounded
  <2> SUFFICES ASSUME TypeOK, LockPart, FilePart PROVE LoadBounded
    BY DEF DetectInv
  <2> DEFINE Pairs == {pf \in Patches \X Files : state[pf[1]][pf[2]] = "running"}
  <2>1. CASE Pairs = {}
    <3>1. Cardinality(Pairs) = 0
      BY <2>1, FS_EmptySet, Zenon
    <3>2. 0 <= Limit
      BY DetectionAssumption
    <3> QED BY <3>1, <3>2, Zenon DEF LoadBounded
  <2>2. CASE Pairs # {}
    <3>1. PICK pf \in Pairs : TRUE
      BY <2>2
    <3> DEFINE p == pf[1]
    <3>2. p \in Patches /\ stage[p] = "testing"
      BY <3>1 DEF FilePart, FileFits
    <3>3. \A qg \in Pairs : qg[1] = p /\ qg[2] \in Running(p) /\ qg = <<qg[1], qg[2]>>
      <4> TAKE qg \in Pairs
      <4>1. qg[1] \in Patches /\ qg[2] \in Files /\ state[qg[1]][qg[2]] = "running"
            /\ qg = <<qg[1], qg[2]>>
        OBVIOUS
      <4>2. stage[qg[1]] = "testing"
        BY <4>1 DEF FilePart, FileFits
      <4>3. qg[1] = p
        BY <3>2, <4>1, <4>2 DEF LockPart, Holds
      <4> QED BY <4>1, <4>3 DEF Running
    <3> HIDE DEF p
    <3> DEFINE h == [g \in Running(p) |-> <<p, g>>]
               Image == {h[g] : g \in Running(p)}
    <3>4. Pairs \subseteq Image
      <4> SUFFICES ASSUME NEW qg \in Pairs PROVE qg \in Image
        OBVIOUS
      <4>1. qg[2] \in Running(p) /\ h[qg[2]] = qg
        BY <3>3
      <4> QED BY <4>1
    <3>5. IsFiniteSet(Running(p)) /\ Cardinality(Running(p)) \in Nat
      BY <3>2, RunningFinite
    <3>6. h \in Surjection(Running(p), Image)
      BY Zenon DEF Surjection
    <3> HIDE DEF h
    <3> HIDE DEF Image
    <3>7. IsFiniteSet(Image) /\ Cardinality(Image) <= Cardinality(Running(p))
      BY <3>5, <3>6, FS_Surjection
    <3> HIDE DEF Pairs
    <3>8. Cardinality(Pairs) <= Cardinality(Image) /\ Cardinality(Pairs) \in Nat /\ Cardinality(Image) \in Nat
      BY <3>4, <3>7, FS_Subset, FS_CardinalityType
    <3>9. Cardinality(Running(p)) <= Limit
      BY <3>2 DEF FilePart
    <3>10. Cardinality(Pairs) <= Limit
      BY <3>5, <3>7, <3>8, <3>9, DetectionAssumption
    <3> QED BY <3>10 DEF LoadBounded, Pairs
  <2> QED BY <2>1, <2>2
<1> QED BY <1>1, DetectCorrect, PTL

(* locationIntersect tells whether two ranges share a position. *)
LEMMA IntersectExact ==
  ASSUME NEW a \in CodeRange, NEW b \in CodeRange
  PROVE  locationIntersect(a, b) <=> (a.start .. a.end) \cap (b.start .. b.end) # {}
<1>1. /\ a.start \in Nat /\ a.end \in Nat /\ a.start <= a.end
      /\ b.start \in Nat /\ b.end \in Nat /\ b.start <= b.end
  BY DEF CodeRange
<1> DEFINE s == a.start
           e == a.end
           u == b.start
           v == b.end
<1> HIDE DEF s, e, u, v
<1>2. s \in Nat /\ e \in Nat /\ s <= e /\ u \in Nat /\ v \in Nat /\ u <= v
  BY <1>1 DEF s, e, u, v
<1>3. ASSUME (s >= u /\ s <= v) \/ (u >= s /\ u <= e)
      PROVE  (s .. e) \cap (u .. v) # {}
  BY <1>2, <1>3
<1>4. ASSUME NEW x \in (s .. e) \cap (u .. v)
      PROVE  (s >= u /\ s <= v) \/ (u >= s /\ u <= e)
  BY <1>2, <1>4
<1>5. ((s >= u /\ s <= v) \/ (u >= s /\ u <= e)) <=> (s .. e) \cap (u .. v) # {}
  BY <1>3, <1>4
<1>6. locationIntersect(a, b) <=> ((s >= u /\ s <= v) \/ (u >= s /\ u <= e))
  BY DEF locationIntersect, s, e, u, v
<1>7. (s .. e) \cap (u .. v) = (a.start .. a.end) \cap (b.start .. b.end)
  BY Zenon DEF s, e, u, v
<1> QED BY <1>5, <1>6, <1>7, Zenon

(* A test file is left out exactly if it is known to cover no modified        *)
(* position, for any ranges (locationIntersect and notRelevant of exec.ts).   *)
THEOREM FilterCorrect == Spec => []FilterExact
<1>1. TypeOK /\ DetectInv => FilterExact
  <2> SUFFICES ASSUME TypeOK, FilePart, NEW p \in Patches, NEW f \in Files, state[p][f] # "queued"
               PROVE  state[p][f] = "NotRelevant"
                        <=> covered[f] # NoInfo /\ Positions(covered[f]) \cap Positions(modified[p]) = {}
    BY DEF FilterExact, DetectInv
  <2>1. modified[p] # NoInfo /\ (state[p][f] = "NotRelevant" <=> NotRelevant(p, f))
    BY DEF FilePart, FileFits
  <2> SUFFICES ASSUME covered[f] # NoInfo
               PROVE  (\A x \in covered[f] : ~\E y \in modified[p] : locationIntersect(x, y))
                        <=> Positions(covered[f]) \cap Positions(modified[p]) = {}
    BY <2>1 DEF NotRelevant
  <2>2. covered[f] \subseteq CodeRange /\ modified[p] \subseteq CodeRange
    BY <2>1, DetectionAssumption DEF TypeOK
  <2>3. ASSUME NEW x \in covered[f], NEW y \in modified[p], locationIntersect(x, y)
        PROVE  Positions(covered[f]) \cap Positions(modified[p]) # {}
    <3>1. PICK i \in (x.start .. x.end) \cap (y.start .. y.end) : TRUE
      BY <2>2, <2>3, IntersectExact
    <3> QED BY <3>1 DEF Positions
  <2>4. ASSUME NEW i \in Positions(covered[f]) \cap Positions(modified[p])
        PROVE  \E x \in covered[f] : \E y \in modified[p] : locationIntersect(x, y)
    <3>1. PICK x \in covered[f] : i \in x.start .. x.end
      BY DEF Positions
    <3>2. PICK y \in modified[p] : i \in y.start .. y.end
      BY DEF Positions
    <3>3. locationIntersect(x, y)
      BY <2>2, <3>1, <3>2, IntersectExact
    <3> QED BY <3>3
  <2> QED BY <2>3, <2>4
<1> QED BY <1>1, DetectCorrect, PTL

(* With one test per file, the failures reported are those of the files and   *)
(* the fitness counts them, in whatever order the files ended and whichever   *)
(* were left out (runTestCases and testcase2str of ETC.py, exec.ts).          *)
THEOREM PairedCorrect == Spec => []OutcomesPaired
<1>1. TypeOK /\ DetectInv => OutcomesPaired
  <2> SUFFICES ASSUME TypeOK, FilePart, ResultPart, \A f \in Files : tests[f] = 1,
                      NEW p \in Patches
               PROVE  /\ stage[p] = "done" => FailedTestCases(p) = Failing(p)
                      /\ fitness[p] # NoInfo =>
                           fitness[p] = <<findings[p], Cardinality(Failing(p))>>
    BY DEF OutcomesPaired, DetectInv
  <2>1. ASSUME stage[p] = "done" PROVE FailedTestCases(p) = Failing(p)
    <3>1. \A f \in Files : state[p][f] \in {"done", "NotRelevant"}
      BY <2>1 DEF FilePart, FileFits
    <3>2. /\ {g \in Files : g <= Len(tcRsts(p))} = Files
          /\ \A f \in Files : tcRsts(p)[f] = IF state[p][f] = "NotRelevant" THEN "NotRelevant"
                                                                           ELSE outcomes[p][f][1]
      BY <3>1, TcRstsSingles
    <3>3. report[p] = [f \in {g \in Files : g <= Len(tcRsts(p))} |-> tcRsts(p)[f]]
      BY <2>1, Zenon DEF ResultPart, ResultFits
    <3>4. DOMAIN report[p] = Files /\ \A f \in Files : report[p][f] = tcRsts(p)[f]
      BY <3>2, <3>3
    <3>5. ASSUME NEW f \in Files PROVE report[p][f] = "fail" <=> "fail" \in ToSet(outcomes[p][f])
      <4>1. outcomes[p][f] \in Seq(Outcome)
        BY DEF TypeOK
      <4>2. ToSet(outcomes[p][f]) = {outcomes[p][f][i] : i \in 1 .. Len(outcomes[p][f])}
        BY <4>1, QueueElements
      <4>3. CASE state[p][f] = "NotRelevant"
        <5>1. outcomes[p][f] = <<>>
          BY <4>3 DEF FilePart, FileFits
        <5>2. ToSet(outcomes[p][f]) = {}
          BY <4>2, <5>1
        <5>3. report[p][f] = "NotRelevant"
          BY <3>2, <3>4, <4>3
        <5> QED BY <5>2, <5>3
      <4>4. CASE state[p][f] # "NotRelevant"
        <5>0. state[p][f] = "done"
          BY <3>1, <4>4
        <5>1. Len(outcomes[p][f]) = 1
          <6>1. FileFits(p, f)
            BY DEF FilePart
          <6>2. Len(outcomes[p][f]) = tests[f]
            BY <5>0, <6>1, Zenon DEF FileFits
          <6> QED BY <6>2, Zenon
        <5>2. ToSet(outcomes[p][f]) = {outcomes[p][f][1]}
          BY <4>2, <5>1
        <5>3. report[p][f] = outcomes[p][f][1]
          BY <3>2, <3>4, <4>4
        <5> QED BY <5>2, <5>3
      <4> QED BY <4>3, <4>4
    <3> QED BY <3>4, <3>5 DEF FailedTestCases, Failing
  <2>2. ASSUME fitness[p] # NoInfo PROVE fitness[p] = <<findings[p], Cardinality(Failing(p))>>
    <3>1. stage[p] = "done" /\ fitness[p] = Score(p)
      BY <2>2, Zenon DEF ResultPart, ResultFits
    <3> QED BY <2>1, <3>1, Zenon DEF Score
  <2> QED BY <2>1, <2>2
<1> QED BY <1>1, DetectCorrect, PTL

============================================================================
