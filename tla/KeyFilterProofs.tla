--------------------------- MODULE KeyFilterProofs ---------------------------
(* keyfilter gives the right answer for addresses, searches and arrays of any  *)
(* size.                                                                       *)
(*                                                                             *)
(* IInv is inductive.  It adds to the loop invariant what main's loop knows    *)
(* before print_result throws duplicates away: one entry per matching line,    *)
(* and the address itself while there is only one.                             *)
EXTENDS KeyFilter, SequenceTheorems, FiniteSetTheorems, TLAPS

StartsEmpty == pc = "start" => read = <<>> /\ n = 0

CountsMatches ==
    /\ pc = "reading" => /\ n = Cardinality(Matching)
                         /\ n = 1 => \A k \in Matching : found_address = to_upper(read[k])
    /\ pc \in {"remove_duplicates", "sort_chars"} => Cardinality(Matching) > 1

IInv == LoopInvariant /\ StartsEmpty /\ CountsMatches /\ AnswerIsRight

-----------------------------------------------------------------------------
(* Strings *)

LEMMA FunctionIsSeq ==
    ASSUME NEW S, NEW m \in Nat, NEW f \in [1 .. m -> S]
    PROVE  f \in Seq(S) /\ Len(f) = m
<1>1. f \in Seq(S)
    BY SeqDef
<1>2. DOMAIN f = 1 .. Len(f) /\ DOMAIN f = 1 .. m /\ Len(f) \in Nat
    BY <1>1, LenProperties
<1> QED
    BY <1>1, <1>2

LEMMA UpperString ==
    ASSUME NEW str \in Seq(Chars)
    PROVE  to_upper(str) \in Seq(Chars) /\ Len(to_upper(str)) = Len(str)
<1>1. DOMAIN str = 1 .. Len(str) /\ Len(str) \in Nat /\ \A k \in 1 .. Len(str) : str[k] \in Chars
    OBVIOUS
<1>2. to_upper(str) \in [1 .. Len(str) -> Chars]
    BY <1>1, KeyFilterAssumption DEF to_upper
<1> QED
    BY <1>1, <1>2, FunctionIsSeq

LEMMA PrefixIsSubstring ==
    ASSUME NEW str1 \in Seq(Chars), NEW str2 \in Seq(Chars)
    PROVE  IsPrefix(str1, str2) <=> is_substring(str1, str2)
BY DEF IsPrefix, is_substring

LEMMA CharAtType ==
    ASSUME NEW str \in Seq(Chars), NEW index \in Nat
    PROVE  CharAt(str, index) \in Chars \cup {Nul}
BY DEF CharAt, Nul

LEMMA ArgumentType == TypeOK => Argument \in Seq(Chars)
<1> SUFFICES ASSUME TypeOK PROVE Argument \in Seq(Chars)
    OBVIOUS
<1>1. argv \in Seq(Seq(Chars))
    BY KeyFilterAssumption, Zenon DEF TypeOK
<1>2. CASE argv = <<>>
    BY <1>2, EmptySeq, Zenon DEF Argument
<1>3. CASE argv # <<>>
    <2>1. Len(argv) \in Nat \ {0}
        BY <1>1, <1>3, EmptySeq
    <2>2. argv[1] \in Seq(Chars)
        BY <1>1, <2>1, ElementOfSeq
    <2> QED
        BY <1>3, <2>2, Zenon DEF Argument
<1> QED
    BY <1>2, <1>3

-----------------------------------------------------------------------------
(* The lines that match *)

Entries == Chars \cup {Nul}

LEMMA TypeFacts ==
    ASSUME TypeOK
    PROVE  /\ n \in 0 .. Len(allowed_chars) /\ allowed_chars \in Seq(Entries) /\ read \in Seq(Lines)
           /\ search \in Seq(Chars) /\ found_address \in Seq(Chars)
           /\ i \in 1 .. n + 1 /\ j \in i + 1 .. n + 2
           /\ Len(allowed_chars) \in Nat /\ Len(read) \in Nat /\ Len(search) \in Nat
<1>1. /\ n \in 0 .. Len(allowed_chars) /\ allowed_chars \in Seq(Entries) /\ read \in Seq(Lines)
      /\ search \in Seq(Chars) /\ found_address \in Seq(Chars)
      /\ i \in 1 .. n + 1 /\ j \in i + 1 .. n + 2
    BY Zenon DEF TypeOK, Entries
<1>2. Len(allowed_chars) \in Nat /\ Len(read) \in Nat /\ Len(search) \in Nat
    BY <1>1, LenProperties
<1> QED
    BY <1>1, <1>2

LEMMA MatchingFinite ==
    ASSUME TypeOK
    PROVE  /\ Matching \subseteq 1 .. Len(read) /\ Len(read) \in Nat
           /\ IsFiniteSet(Matching) /\ Cardinality(Matching) \in Nat
<1>1. read \in Seq(Lines)
    BY Zenon DEF TypeOK
<1>2. Matching \subseteq 1 .. Len(read) /\ Len(read) \in Nat
    BY <1>1 DEF Matching
<1>3. IsFiniteSet(1 .. Len(read))
    BY <1>2, FS_Interval
<1>4. IsFiniteSet(Matching)
    BY <1>2, <1>3, FS_Subset
<1> QED
    BY <1>2, <1>4, FS_CardinalityType

LEMMA SameLines ==
    ASSUME UNCHANGED <<read, search>>
    PROVE  Matching' = Matching /\ NextKeys' = NextKeys
BY DEF Matching, NextKeys

(* One more line is one more match, and one more key, or none. *)
LEMMA OneMoreLine ==
    ASSUME TypeOK, NEW line \in Lines, read' = Append(read, line), UNCHANGED search
    PROVE  IF is_substring(search, to_upper(line))
           THEN /\ Matching' = Matching \cup {Len(read) + 1}
                /\ NextKeys' = NextKeys \cup {CharAt(to_upper(line), Len(search))}
                /\ read'[Len(read) + 1] = line
           ELSE /\ Matching' = Matching /\ NextKeys' = NextKeys
                /\ \A k \in Matching : read'[k] = read[k]
<1>1. read \in Seq(Lines) /\ search \in Seq(Chars) /\ line \in Seq(Chars)
    BY KeyFilterAssumption, Zenon DEF TypeOK
<1>2. /\ read' \in Seq(Lines) /\ Len(read') = Len(read) + 1
      /\ \A k \in 1 .. Len(read) : read'[k] = read[k]
      /\ read'[Len(read) + 1] = line
    BY <1>1, AppendProperties
<1>3. /\ Len(read) \in Nat /\ DOMAIN read = 1 .. Len(read)
      /\ DOMAIN read' = 1 .. (Len(read) + 1)
    BY <1>1, <1>2
<1>4. IsPrefix(search, to_upper(line)) <=> is_substring(search, to_upper(line))
    BY <1>1, UpperString, PrefixIsSubstring
<1> DEFINE M(k) == IsPrefix(search, to_upper(read[k]))
           Mp(k) == IsPrefix(search, to_upper(read'[k]))
           C(k) == CharAt(to_upper(read[k]), Len(search))
           Cp(k) == CharAt(to_upper(read'[k]), Len(search))
<1>5. /\ \A k \in 1 .. Len(read) : (M(k) <=> Mp(k)) /\ C(k) = Cp(k)
      /\ Mp(Len(read) + 1) <=> is_substring(search, to_upper(line))
      /\ Cp(Len(read) + 1) = CharAt(to_upper(line), Len(search))
    BY <1>2, <1>4
<1>6. /\ Matching = {k \in DOMAIN read : M(k)} /\ Matching' = {k \in DOMAIN read' : Mp(k)}
      /\ NextKeys = {C(k) : k \in Matching} /\ NextKeys' = {Cp(k) : k \in Matching'}
    BY DEF Matching, NextKeys
<1> HIDE DEF M, Mp, C, Cp
<1>7. CASE is_substring(search, to_upper(line))
    <2>1. Matching' = Matching \cup {Len(read) + 1}
        BY <1>3, <1>5, <1>6, <1>7
    <2>2. Matching \subseteq 1 .. Len(read)
        BY <1>3, <1>6
    <2>3. NextKeys' = NextKeys \cup {CharAt(to_upper(line), Len(search))}
        BY <1>5, <1>6, <2>1, <2>2
    <2> QED
        BY <1>2, <1>7, <2>1, <2>3
<1>8. CASE ~is_substring(search, to_upper(line))
    <2>1. Matching' = Matching
        BY <1>3, <1>5, <1>6, <1>8
    <2>2. Matching \subseteq 1 .. Len(read)
        BY <1>3, <1>6
    <2>3. NextKeys' = NextKeys
        BY <1>5, <1>6, <2>1, <2>2
    <2> QED
        BY <1>2, <1>8, <2>1, <2>2, <2>3
<1> QED
    BY <1>7, <1>8

-----------------------------------------------------------------------------
(* Init and the steps up to print_result *)

LEMMA InitIInv == Init => IInv
<1> SUFFICES ASSUME Init PROVE IInv
    OBVIOUS
<1>1. /\ pc = "start" /\ argv \in Arguments /\ search = <<>> /\ read = <<>>
      /\ allowed_chars = <<>> /\ n = 0 /\ found_address = <<>> /\ i = 1 /\ j = 2
      /\ out = Nothing
    BY Zenon DEF Init, n
<1>2. /\ search \in Seq(Chars) /\ read \in Seq(Lines) /\ allowed_chars \in Seq(Entries)
      /\ found_address \in Seq(Chars) /\ Len(read) = 0 /\ Len(allowed_chars) = 0
    BY <1>1, EmptySeq
<1>3. out.kind = "nothing" /\ out.text \in Seq(Entries)
    BY <1>1, EmptySeq DEF Nothing
<1>4. TypeOK
    BY <1>1, <1>2, <1>3, KeyFilterAssumption DEF TypeOK, Entries
<1> QED
    BY <1>1, <1>4 DEF IInv, LoopInvariant, KeepsEveryKey, Settled, StartsEmpty, CountsMatches, AnswerIsRight

LEMMA StopStep ==
    ASSUME IInv, NEW state \in {"ERROR_TOO_LONG_SEARCH", "ERROR_TOO_LONG_LINE", "undefined"},
           Stop(state)
    PROVE  IInv'
<1>1. pc' = state /\ UNCHANGED <<argv, search, read, allowed_chars, n, found_address, i, j, out>>
    BY DEF Stop, result, n
<1>2. TypeOK'
    BY <1>1 DEF IInv, LoopInvariant, TypeOK
<1> QED
    BY <1>1, <1>2 DEF IInv, LoopInvariant, KeepsEveryKey, Settled, StartsEmpty, CountsMatches, AnswerIsRight

LEMMA CopyStep == ASSUME IInv, CopySearch PROVE IInv'
<1>1. /\ pc = "start" /\ pc' = "reading" /\ search' = to_upper(Argument)
      /\ UNCHANGED <<argv, read, allowed_chars, n, found_address, i, j, out>>
    BY DEF CopySearch, result, n
<1>2. TypeOK /\ read = <<>> /\ n = 0
    BY <1>1 DEF IInv, LoopInvariant, StartsEmpty
<1>3. search' \in Seq(Chars)
    BY <1>1, <1>2, ArgumentType, UpperString
<1>4. TypeOK'
    BY <1>1, <1>2, <1>3 DEF TypeOK
<1>5. Matching' = {} /\ NextKeys' = {} /\ Kept' = {}
    BY <1>1, <1>2 DEF Matching, NextKeys, Kept
<1>6. CountsMatches'
    BY <1>1, <1>2, <1>5, FS_EmptySet DEF CountsMatches
<1> QED
    BY <1>1, <1>4, <1>5, <1>6 DEF IInv, LoopInvariant, KeepsEveryKey, Settled, StartsEmpty, AnswerIsRight

LEMMA ReadStep == ASSUME IInv, ReadLine PROVE IInv'
<1>1. PICK line \in Lines : read' = Append(read, line) /\ Record(to_upper(line))
    BY DEF ReadLine
<1>2. /\ pc = "reading" /\ pc' = "reading" /\ Len(read) < MaxLines
      /\ UNCHANGED <<argv, search, i, j, out>>
    BY DEF ReadLine
<1>3. /\ TypeOK /\ Kept = NextKeys /\ n = Cardinality(Matching)
      /\ n = 1 => \A k \in Matching : found_address = to_upper(read[k])
    BY <1>2 DEF IInv, LoopInvariant, KeepsEveryKey, CountsMatches
<1>4. /\ n \in 0 .. Len(allowed_chars) /\ allowed_chars \in Seq(Entries) /\ read \in Seq(Lines)
      /\ search \in Seq(Chars) /\ found_address \in Seq(Chars)
      /\ i \in 1 .. n + 1 /\ j \in i + 1 .. n + 2
      /\ Len(allowed_chars) \in Nat /\ Len(read) \in Nat /\ Len(search) \in Nat
    BY <1>3, TypeFacts
<1>5. read' \in Seq(Lines) /\ Len(read') <= MaxLines
    BY <1>1, <1>2, <1>4, AppendProperties, KeyFilterAssumption
<1>6. line \in Seq(Chars) /\ to_upper(line) \in Seq(Chars)
    BY KeyFilterAssumption, UpperString
<1>7. CASE is_substring(search, to_upper(line))
    <2> DEFINE c == CharAt(to_upper(line), Len(search))
    <2>1. c \in Entries
        BY <1>4, <1>6, CharAtType DEF Entries
    <2>2. /\ allowed_chars' = [k \in 1 .. n + 1 |-> IF k <= n THEN allowed_chars[k] ELSE c]
          /\ n' = n + 1 /\ found_address' = to_upper(line)
        BY <1>1, <1>7 DEF Record, n
    <2> HIDE DEF c
    <2>3. allowed_chars' \in [1 .. n + 1 -> Entries] /\ n + 1 \in Nat
        BY <1>4, <2>1, <2>2
    <2>4. allowed_chars' \in Seq(Entries) /\ Len(allowed_chars') = n + 1
        BY <2>3, FunctionIsSeq
    <2>5. TypeOK'
        <3>1. i' \in 1 .. n' + 1 /\ j' \in i' + 1 .. n' + 2 /\ n' \in 0 .. Len(allowed_chars')
            BY <1>2, <1>4, <2>2, <2>4
        <3> QED
            BY <1>2, <1>3, <1>5, <1>6, <2>2, <2>4, <3>1, Zenon DEF TypeOK, Entries
    <2>6. Kept' = Kept \cup {c}
        BY <1>4, <2>2 DEF Kept
    <2>7. /\ Matching' = Matching \cup {Len(read) + 1} /\ NextKeys' = NextKeys \cup {c}
          /\ read'[Len(read) + 1] = line
        BY <1>1, <1>2, <1>3, <1>7, OneMoreLine DEF c
    <2>8. Cardinality(Matching') = n + 1
        <3>1. IsFiniteSet(Matching) /\ Len(read) + 1 \notin Matching
            BY <1>3, <1>4, MatchingFinite
        <3> QED
            BY <1>3, <2>7, <3>1, FS_AddElement
    <2>9. n' = 1 => \A k \in Matching' : found_address' = to_upper(read'[k])
        <3> SUFFICES ASSUME n' = 1 PROVE \A k \in Matching' : found_address' = to_upper(read'[k])
            OBVIOUS
        <3>1. Cardinality(Matching) = 0
            BY <1>3, <1>4, <2>2
        <3>2. Matching = {}
            BY <1>3, <3>1, MatchingFinite, FS_EmptySet
        <3> QED
            BY <2>2, <2>7, <3>2
    <2> QED
        BY <1>2, <1>3, <2>2, <2>5, <2>6, <2>7, <2>8, <2>9
        DEF IInv, LoopInvariant, KeepsEveryKey, Settled, StartsEmpty, CountsMatches, AnswerIsRight
<1>8. CASE ~is_substring(search, to_upper(line))
    <2>1. UNCHANGED <<allowed_chars, n, found_address>>
        BY <1>1, <1>8 DEF Record, result, n
    <2>2. TypeOK'
        BY <1>2, <1>3, <1>4, <1>5, <2>1 DEF TypeOK
    <2>3. Kept' = Kept
        BY <2>1 DEF Kept
    <2>4. /\ Matching' = Matching /\ NextKeys' = NextKeys
          /\ \A k \in Matching : read'[k] = read[k]
        BY <1>1, <1>2, <1>3, <1>8, OneMoreLine
    <2> QED
        BY <1>2, <1>3, <2>1, <2>2, <2>3, <2>4
        DEF IInv, LoopInvariant, KeepsEveryKey, Settled, StartsEmpty, CountsMatches, AnswerIsRight
<1> QED
    BY <1>7, <1>8

-----------------------------------------------------------------------------
(* print_result *)

LEMMA PrintOneStep == ASSUME IInv, PrintOne PROVE IInv'
<1>1. /\ pc = "reading" /\ n <= 1 /\ pc' = "done"
      /\ IF n = 0 THEN Says("Not found", <<>>) ELSE Says("Found", found_address)
      /\ UNCHANGED <<argv, search, read, allowed_chars, n, found_address, i, j>>
    BY DEF PrintOne, result, n
<1>2. /\ TypeOK /\ n = Cardinality(Matching)
      /\ n = 1 => \A k \in Matching : found_address = to_upper(read[k])
    BY <1>1 DEF IInv, LoopInvariant, CountsMatches
<1>3. /\ n \in Nat /\ found_address \in Seq(Entries) /\ <<>> \in Seq(Entries)
    BY <1>2, TypeFacts, EmptySeq, SeqMonotonic DEF Entries
<1>4. Matching' = Matching /\ NextKeys' = NextKeys
    BY <1>1, SameLines
<1>5. Matching = {} <=> n = 0
    BY <1>2, MatchingFinite, FS_EmptySet
<1>6. CASE n = 0
    <2>1. out' = [kind |-> "Not found", text |-> <<>>]
        BY <1>1, <1>6 DEF Says
    <2>2. out'.kind = "Not found" /\ out'.text \in Seq(Entries)
        BY <1>3, <2>1
    <2>3. TypeOK'
        BY <1>1, <1>2, <2>2, Zenon DEF TypeOK, Entries
    <2>4. AnswerIsRight'
        <3>1. Matching' = {} /\ Cardinality(Matching') = 0
            BY <1>2, <1>4, <1>5, <1>6
        <3>2. Cardinality(Matching') # 1
            BY <3>1
        <3>3. out'.kind # "Found" /\ out'.kind # "Enable"
            BY <2>2, Zenon
        <3> QED
            BY <2>2, <3>1, <3>2, <3>3, Zenon DEF AnswerIsRight
    <2> QED
        BY <1>1, <2>3, <2>4 DEF IInv, LoopInvariant, KeepsEveryKey, Settled, StartsEmpty, CountsMatches
<1>7. CASE n = 1
    <2>1. out' = [kind |-> "Found", text |-> found_address]
        BY <1>1, <1>7 DEF Says
    <2>2. out'.kind = "Found" /\ out'.text = found_address /\ out'.text \in Seq(Entries)
        BY <1>3, <2>1
    <2>3. TypeOK'
        BY <1>1, <1>2, <2>2, Zenon DEF TypeOK, Entries
    <2>4. AnswerIsRight'
        <3>1. Matching' # {} /\ Cardinality(Matching') = 1
            BY <1>2, <1>4, <1>5, <1>7
        <3>2. \A k \in Matching' : out'.text = to_upper(read'[k])
            BY <1>1, <1>2, <1>4, <1>7, <2>2
        <3> QED
            BY <2>2, <3>1, <3>2 DEF AnswerIsRight
    <2> QED
        BY <1>1, <2>3, <2>4 DEF IInv, LoopInvariant, KeepsEveryKey, Settled, StartsEmpty, CountsMatches
<1>8. n <= 1
    BY Zenon DEF PrintOne
<1> QED
    BY <1>3, <1>6, <1>7, <1>8

LEMMA PrintManyStep == ASSUME IInv, PrintMany PROVE IInv'
<1>1. /\ pc = "reading" /\ n > 1 /\ pc' = "remove_duplicates" /\ i' = 1 /\ j' = 2
      /\ UNCHANGED <<argv, search, read, allowed_chars, n, found_address, out>>
    BY DEF PrintMany, result, n
<1>2. TypeOK /\ n = Cardinality(Matching) /\ Kept = NextKeys
    BY <1>1 DEF IInv, LoopInvariant, CountsMatches, KeepsEveryKey
<1>3. n \in Nat /\ i' \in 1 .. n' + 1 /\ j' \in i' + 1 .. n' + 2
    BY <1>1, <1>2, TypeFacts
<1>4. TypeOK'
    BY <1>1, <1>2, <1>3, Zenon DEF TypeOK
<1>5. Matching' = Matching /\ NextKeys' = NextKeys /\ Kept' = Kept
    BY <1>1, SameLines DEF Kept
<1>6. Settled'
    BY <1>1, <1>3 DEF Settled, Earlier
<1>7. CountsMatches'
    BY <1>1, <1>2, <1>5 DEF CountsMatches
<1>8. KeepsEveryKey'
    BY <1>2, <1>5 DEF KeepsEveryKey
<1> QED
    BY <1>1, <1>4, <1>6, <1>7, <1>8 DEF IInv, LoopInvariant, StartsEmpty, AnswerIsRight

(* The entry in the place of a duplicate comes from the end, where it has been *)
(* compared with every row before i; the value it replaces is still in row i.  *)
LEMMA RemoveStep == ASSUME IInv, remove_duplicates PROVE IInv'
<1>1. /\ pc = "remove_duplicates" /\ i <= n /\ UNCHANGED <<pc, argv, search, read, out>>
      /\ TypeOK /\ Settled /\ Kept = NextKeys /\ Cardinality(Matching) > 1
    BY DEF remove_duplicates, IInv, LoopInvariant, KeepsEveryKey, CountsMatches
<1>2. Matching' = Matching /\ NextKeys' = NextKeys
    BY <1>1, SameLines
<1>3. /\ n \in 0 .. Len(allowed_chars) /\ allowed_chars \in Seq(Entries)
      /\ i \in 1 .. n + 1 /\ j \in i + 1 .. n + 2 /\ Len(allowed_chars) \in Nat
    BY <1>1, TypeFacts
<1>4. ASSUME TypeOK', Settled', Kept' = Kept PROVE IInv'
    BY <1>1, <1>2, <1>4
    DEF IInv, LoopInvariant, KeepsEveryKey, StartsEmpty, CountsMatches, AnswerIsRight
<1>5. CASE j > n
    <2>1. i' = i + 1 /\ j' = i + 2 /\ UNCHANGED <<allowed_chars, n, found_address>>
        BY <1>5 DEF remove_duplicates, NextRow, result, n
    <2>2. i' \in 1 .. n' + 1 /\ j' \in i' + 1 .. n' + 2
        BY <1>1, <1>3, <2>1
    <2>3. TypeOK'
        BY <1>1, <2>1, <2>2, Zenon DEF TypeOK
    <2>4. Settled'
        BY <1>1, <1>3, <1>5, <2>1 DEF Settled, Earlier
    <2>5. Kept' = Kept
        BY <2>1 DEF Kept
    <2> QED
        BY <1>4, <2>3, <2>4, <2>5
<1>6. CASE j <= n /\ allowed_chars[i] = allowed_chars[j]
    <2>1. /\ allowed_chars' = [allowed_chars EXCEPT ![j] = allowed_chars[n]]
          /\ n' = n - 1 /\ j' = j /\ UNCHANGED <<found_address, i>>
        BY <1>3, <1>6 DEF remove_duplicates, RemoveDuplicate, Overwrite, n
    <2>2. j \in 1 .. Len(allowed_chars) /\ n \in 1 .. Len(allowed_chars) /\ i < j
        BY <1>3, <1>6
    <2>3. /\ allowed_chars' \in Seq(Entries) /\ Len(allowed_chars') = Len(allowed_chars)
          /\ \A k \in 1 .. Len(allowed_chars) :
                allowed_chars'[k] = IF k = j THEN allowed_chars[n] ELSE allowed_chars[k]
        <3>1. allowed_chars[n] \in Entries
            BY <1>3, <2>2, ElementOfSeq
        <3> QED
            BY <1>3, <2>1, <2>2, <3>1, ExceptSeq
    <2>4. i' \in 1 .. n' + 1 /\ j' \in i' + 1 .. n' + 2 /\ n' \in 0 .. Len(allowed_chars')
        BY <1>1, <1>3, <1>6, <2>1, <2>3
    <2>5. TypeOK'
        BY <1>1, <2>1, <2>3, <2>4, Zenon DEF TypeOK, Entries
    <2>6. Settled'
        <3> SUFFICES ASSUME NEW k \in 1 .. n - 1, NEW l \in k + 1 .. n - 1,
                            k < i \/ (k = i /\ l < j)
                     PROVE  allowed_chars'[k] # allowed_chars'[l]
            BY <1>1, <2>1 DEF Settled, Earlier
        <3>1. \A p \in 1 .. n : \A q \in p + 1 .. n :
                  p < i \/ (p = i /\ q < j) => allowed_chars[p] # allowed_chars[q]
            BY <1>1 DEF Settled, Earlier
        <3>2. k # j /\ k \in 1 .. n /\ k \in 1 .. Len(allowed_chars) /\ l \in 1 .. Len(allowed_chars)
            BY <1>3, <2>2
        <3>3. CASE l = j
            <4>1. k < i /\ n \in k + 1 .. n
                BY <1>3, <2>2, <3>3
            <4> QED
                BY <2>3, <3>1, <3>2, <3>3, <4>1
        <3>4. CASE l # j
            <4>1. l \in k + 1 .. n
                BY <1>3
            <4> QED
                BY <2>3, <3>1, <3>2, <3>4, <4>1
        <3> QED
            BY <3>3, <3>4
    <2>7. Kept' = Kept
        <3>1. \A k \in 1 .. n - 1 : allowed_chars'[k] \in Kept
            BY <1>3, <2>2, <2>3 DEF Kept
        <3>2. ASSUME NEW k \in 1 .. n PROVE \E l \in 1 .. n - 1 : allowed_chars'[l] = allowed_chars[k]
            <4>1. CASE k = n /\ j # n
                <5>1. j \in 1 .. n - 1 /\ allowed_chars'[j] = allowed_chars[k]
                    BY <1>3, <1>6, <2>2, <2>3, <4>1
                <5> QED
                    BY <5>1
            <4>2. CASE k = j
                <5>1. i \in 1 .. n - 1 /\ allowed_chars'[i] = allowed_chars[k]
                    BY <1>3, <1>6, <2>2, <2>3, <4>2
                <5> QED
                    BY <5>1
            <4>3. CASE k # j /\ k # n
                <5>1. k \in 1 .. n - 1 /\ allowed_chars'[k] = allowed_chars[k]
                    BY <1>3, <2>3, <4>3
                <5> QED
                    BY <5>1
            <4> QED
                BY <4>1, <4>2, <4>3
        <3> QED
            BY <2>1, <3>1, <3>2 DEF Kept
    <2> QED
        BY <1>4, <2>5, <2>6, <2>7
<1>7. CASE j <= n /\ allowed_chars[i] # allowed_chars[j]
    <2>1. j' = j + 1 /\ UNCHANGED <<i, allowed_chars, n, found_address>>
        BY <1>3, <1>7 DEF remove_duplicates, result, n
    <2>2. i' \in 1 .. n' + 1 /\ j' \in i' + 1 .. n' + 2
        BY <1>3, <1>7, <2>1
    <2>3. TypeOK'
        BY <1>1, <2>1, <2>2, Zenon DEF TypeOK
    <2>4. Settled'
        BY <1>1, <1>3, <1>7, <2>1 DEF Settled, Earlier
    <2>5. Kept' = Kept
        BY <2>1 DEF Kept
    <2> QED
        BY <1>4, <2>3, <2>4, <2>5
<1> QED
    BY <1>3, <1>5, <1>6, <1>7

LEMMA StartSortStep == ASSUME IInv, StartSort PROVE IInv'
<1>1. /\ pc = "remove_duplicates" /\ i > n /\ pc' = "sort_chars" /\ i' = 1 /\ j' = 2
      /\ UNCHANGED <<argv, search, read, allowed_chars, n, found_address, out>>
      /\ TypeOK /\ Settled /\ Kept = NextKeys /\ Cardinality(Matching) > 1
    BY DEF StartSort, result, n, IInv, LoopInvariant, KeepsEveryKey, CountsMatches
<1>2. n \in Nat /\ i \in Nat /\ i' \in 1 .. n' + 1 /\ j' \in i' + 1 .. n' + 2
    BY <1>1, TypeFacts
<1>3. TypeOK'
    BY <1>1, <1>2, Zenon DEF TypeOK
<1>4. Matching' = Matching /\ NextKeys' = NextKeys /\ Kept' = Kept
    BY <1>1, SameLines DEF Kept
<1>5. Settled'
    BY <1>1, <1>2 DEF Settled, Earlier
<1> QED
    BY <1>1, <1>3, <1>4, <1>5
    DEF IInv, LoopInvariant, KeepsEveryKey, StartsEmpty, CountsMatches, AnswerIsRight

(* Row i takes the smaller of two entries that both come after every row       *)
(* before i.                                                                   *)
LEMMA SortStep == ASSUME IInv, sort_chars PROVE IInv'
<1>1. /\ pc = "sort_chars" /\ i < n /\ UNCHANGED <<pc, argv, search, read, out>>
      /\ TypeOK /\ Settled /\ Kept = NextKeys /\ Cardinality(Matching) > 1
    BY DEF sort_chars, IInv, LoopInvariant, KeepsEveryKey, CountsMatches
<1>2. Matching' = Matching /\ NextKeys' = NextKeys
    BY <1>1, SameLines
<1>3. /\ n \in 0 .. Len(allowed_chars) /\ allowed_chars \in Seq(Entries)
      /\ i \in 1 .. n + 1 /\ j \in i + 1 .. n + 2 /\ Len(allowed_chars) \in Nat
    BY <1>1, TypeFacts
<1>4. ASSUME TypeOK', Settled', Kept' = Kept PROVE IInv'
    BY <1>1, <1>2, <1>4
    DEF IInv, LoopInvariant, KeepsEveryKey, StartsEmpty, CountsMatches, AnswerIsRight
<1>5. \A k \in 1 .. n : \A l \in k + 1 .. n :
          /\ allowed_chars[k] # allowed_chars[l]
          /\ k < i \/ (k = i /\ l < j) => allowed_chars[k] < allowed_chars[l]
    BY <1>1 DEF Settled, Earlier
<1>6. CASE j > n
    <2>1. i' = i + 1 /\ j' = i + 2 /\ UNCHANGED <<allowed_chars, n, found_address>>
        BY <1>6 DEF sort_chars, NextRow, result, n
    <2>2. i' \in 1 .. n' + 1 /\ j' \in i' + 1 .. n' + 2
        BY <1>1, <1>3, <2>1
    <2>3. TypeOK'
        BY <1>1, <2>1, <2>2, Zenon DEF TypeOK
    <2>4. Settled'
        BY <1>1, <1>3, <1>5, <1>6, <2>1 DEF Settled, Earlier
    <2>5. Kept' = Kept
        BY <2>1 DEF Kept
    <2> QED
        BY <1>4, <2>3, <2>4, <2>5
<1>7. CASE j <= n
    <2> DEFINE a == allowed_chars
               swap == a[i] > a[j]
    <2>1. /\ a' = IF swap THEN [a EXCEPT ![i] = a[j], ![j] = a[i]] ELSE a
          /\ j' = j + 1 /\ UNCHANGED <<i, n, found_address>>
        BY <1>3, <1>7 DEF sort_chars, n
    <2>2. /\ i \in 1 .. Len(a) /\ j \in 1 .. Len(a) /\ i \in 1 .. n /\ j \in i + 1 .. n
          /\ \A k \in 1 .. Len(a) : a[k] \in Entries /\ a[k] \in Nat
        <3>1. \A k \in 1 .. Len(a) : a[k] \in Entries
            BY <1>3, ElementOfSeq
        <3>2. Entries \subseteq Nat
            BY KeyFilterAssumption DEF Entries, Nul
        <3>3. i \in 1 .. Len(a) /\ j \in 1 .. Len(a) /\ i \in 1 .. n /\ j \in i + 1 .. n
            BY <1>1, <1>3, <1>7
        <3> QED
            BY <3>1, <3>2, <3>3, Zenon
    <2>3. /\ a' \in Seq(Entries) /\ Len(a') = Len(a)
          /\ \A k \in 1 .. Len(a) : a'[k] = IF swap /\ k = i THEN a[j]
                                            ELSE IF swap /\ k = j THEN a[i] ELSE a[k]
        <3>1. CASE swap
            <4> DEFINE b == [a EXCEPT ![i] = a[j]]
            <4>1. a' = [b EXCEPT ![j] = a[i]]
                BY <2>1, <3>1
            <4>2. /\ b \in Seq(Entries) /\ Len(b) = Len(a)
                  /\ \A k \in 1 .. Len(a) : b[k] = IF k = i THEN a[j] ELSE a[k]
                BY <1>3, <2>2, ExceptSeq
            <4> HIDE DEF b
            <4>3. /\ a' \in Seq(Entries) /\ Len(a') = Len(b)
                  /\ \A k \in 1 .. Len(b) : a'[k] = IF k = j THEN a[i] ELSE b[k]
                BY <2>2, <4>1, <4>2, ExceptSeq
            <4> QED
                BY <1>3, <2>2, <3>1, <4>2, <4>3
        <3>2. CASE ~swap
            BY <1>3, <2>1, <3>2
        <3> QED
            BY <3>1, <3>2
    <2> HIDE DEF swap
    <2>4. i' \in 1 .. n' + 1 /\ j' \in i' + 1 .. n' + 2 /\ n' \in 0 .. Len(a')
        BY <1>1, <1>3, <1>7, <2>1, <2>3
    <2>5. TypeOK'
        BY <1>1, <2>1, <2>3, <2>4, Zenon DEF TypeOK, Entries
    <2>6. Settled'
        <3> SUFFICES ASSUME NEW k \in 1 .. n, NEW l \in k + 1 .. n
                     PROVE  /\ a'[k] # a'[l]
                            /\ k < i \/ (k = i /\ l < j + 1) => a'[k] < a'[l]
            BY <1>1, <2>1 DEF Settled, Earlier
        <3>1. k \in 1 .. Len(a) /\ l \in 1 .. Len(a) /\ l \in 1 .. n /\ j \in 1 .. n /\ i \in 1 .. n
            BY <1>3, <2>2
        <3>2. \A p, q \in 1 .. n : p # q => a[p] # a[q]
            <4> SUFFICES ASSUME NEW p \in 1 .. n, NEW q \in 1 .. n, p # q PROVE a[p] # a[q]
                OBVIOUS
            <4>1. q \in p + 1 .. n \/ p \in q + 1 .. n
                BY <1>3
            <4> QED
                BY <1>5, <4>1
        <3>3. a'[k] # a'[l]
            BY <1>3, <2>2, <2>3, <3>1, <3>2
        <3>4. CASE k < i
            <4>1. a'[k] = a[k] /\ i \in k + 1 .. n /\ j \in k + 1 .. n
                BY <1>3, <2>2, <2>3, <3>1, <3>4
            <4> QED
                BY <1>5, <2>3, <3>1, <3>3, <3>4, <4>1
        <3>5. CASE k = i /\ l < j
            <4>1. a[i] < a[l] /\ a'[l] = a[l]
                BY <1>3, <1>5, <2>2, <2>3, <3>1, <3>5
            <4> QED
                BY <2>2, <2>3, <3>1, <3>3, <3>5, <4>1 DEF swap
        <3>6. CASE k = i /\ l = j
            <4>1. a[i] # a[j] /\ a[i] \in Nat /\ a[j] \in Nat
                BY <1>3, <1>5, <2>2
            <4> QED
                BY <2>2, <2>3, <3>1, <3>3, <3>6, <4>1 DEF swap
        <3>7. l < j + 1 => l < j \/ l = j
            BY <1>3, <3>1
        <3> QED
            BY <3>3, <3>4, <3>5, <3>6, <3>7
    <2>7. Kept' = Kept
        <3>1. \A k \in 1 .. n : \E l \in 1 .. n : a'[k] = a[l]
            BY <1>3, <2>2, <2>3
        <3>2. \A k \in 1 .. n : \E l \in 1 .. n : a[k] = a'[l]
            BY <1>3, <2>2, <2>3
        <3>3. Kept = {a[k] : k \in 1 .. n} /\ Kept' = {a'[k] : k \in 1 .. n} /\ n' = n
            BY <2>1 DEF Kept
        <3> QED
            BY <3>1, <3>2, <3>3
    <2> QED
        BY <1>4, <2>5, <2>6, <2>7
<1> QED
    BY <1>3, <1>6, <1>7

LEMMA PrintSortedStep == ASSUME IInv, PrintSorted PROVE IInv'
<1>1. /\ pc = "sort_chars" /\ i >= n /\ pc' = "done"
      /\ out' = [kind |-> "Enable", text |-> SubSeq(allowed_chars, 1, n)]
      /\ UNCHANGED <<argv, search, read, allowed_chars, n, found_address, i, j>>
    BY DEF PrintSorted, Says, result, n
<1>2. TypeOK /\ Settled /\ Kept = NextKeys /\ Cardinality(Matching) > 1
    BY <1>1 DEF IInv, LoopInvariant, KeepsEveryKey, CountsMatches
<1>3. /\ n \in 0 .. Len(allowed_chars) /\ allowed_chars \in Seq(Entries)
      /\ i \in 1 .. n + 1 /\ Len(allowed_chars) \in Nat
    BY <1>2, TypeFacts
<1> DEFINE text == SubSeq(allowed_chars, 1, n)
<1>4. /\ text \in Seq(Entries) /\ Len(text) = n
      /\ \A k \in 1 .. n : text[k] = allowed_chars[k]
    BY <1>3
<1>5. out'.kind = "Enable" /\ out'.text = text
    BY <1>1
<1> HIDE DEF text
<1>6. DOMAIN text = 1 .. n
    BY <1>4
<1>7. TypeOK'
    BY <1>1, <1>2, <1>4, <1>5, Zenon DEF TypeOK, Entries
<1>8. Matching' = Matching /\ NextKeys' = NextKeys
    BY <1>1, SameLines
<1>9. AnswerIsRight'
    <2>1. ToSet(text) = NextKeys'
        BY <1>2, <1>4, <1>6, <1>8 DEF ToSet, Kept
    <2>2. \A k, l \in 1 .. n : k < l => text[k] < text[l]
        <3> SUFFICES ASSUME NEW k \in 1 .. n, NEW l \in 1 .. n, k < l PROVE text[k] < text[l]
            OBVIOUS
        <3>1. l \in k + 1 .. n /\ k < i
            BY <1>1, <1>3
        <3>2. allowed_chars[k] < allowed_chars[l]
            BY <1>1, <1>2, <3>1 DEF Settled, Earlier
        <3> QED
            BY <1>4, <3>2
    <2>3. Matching' # {} /\ Cardinality(Matching') # 1
        BY <1>2, <1>8, FS_EmptySet
    <2>4. out'.kind # "Not found" /\ out'.kind # "Found"
        BY <1>5, Zenon
    <2> QED
        BY <1>5, <1>6, <2>1, <2>2, <2>3, <2>4, Zenon DEF AnswerIsRight
<1> QED
    BY <1>1, <1>7, <1>9 DEF IInv, LoopInvariant, KeepsEveryKey, Settled, StartsEmpty, CountsMatches

LEMMA NextIInv == IInv /\ [Next]_vars => IInv'
<1> SUFFICES ASSUME IInv, [Next]_vars PROVE IInv'
    OBVIOUS
<1>1. CASE TooLongSearch
    BY <1>1, StopStep DEF TooLongSearch
<1>2. CASE RefuseLine
    BY <1>2, StopStep DEF RefuseLine
<1>3. CASE WriteBehindArray
    BY <1>3, StopStep DEF WriteBehindArray
<1>4. CASE UNCHANGED vars
    BY <1>4, Zenon DEF vars, IInv, LoopInvariant, TypeOK, KeepsEveryKey, Settled, Earlier, Kept, n,
       StartsEmpty, CountsMatches, AnswerIsRight, Matching, NextKeys
<1> QED
    BY <1>1, <1>2, <1>3, <1>4, CopyStep, ReadStep, PrintOneStep, PrintManyStep, RemoveStep,
       StartSortStep, SortStep, PrintSortedStep, Zenon DEF Next

-----------------------------------------------------------------------------
(* IInv holds throughout a run of keyfilter. *)
THEOREM Invariance == Spec => []IInv
BY InitIInv, NextIInv, PTL DEF Spec

(* The loops of remove_duplicates and sort_chars lose no key, whatever the     *)
(* number and order of the duplicates, and what they settled stays so.         *)
THEOREM LoopTheorem == Spec => []LoopInvariant
<1>1. IInv => LoopInvariant
    BY Zenon DEF IInv
<1> QED
    BY <1>1, Invariance, PTL

(* What print_result prints is what the lines and the search define.           *)
THEOREM AnswerTheorem == Spec => []AnswerIsRight
<1>1. IInv => AnswerIsRight
    BY Zenon DEF IInv
<1> QED
    BY <1>1, Invariance, PTL
=============================================================================
