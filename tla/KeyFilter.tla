------------------------------ MODULE KeyFilter ------------------------------
(* keyfilter of src/izp/projekt_1: which keys may follow what was typed, given *)
(* the addresses on stdin.                                                     *)
(*                                                                             *)
(* One behaviour is one run.  A line of stdin is one step, and so is one turn  *)
(* of a loop over allowed_chars.  A character is its code; positions in arrays *)
(* count from 1.  A write behind the end of an array has no defined effect:    *)
(* the run may go on as if there were room, or become "undefined", after which *)
(* it is not followed.                                                         *)
EXTENDS Integers, FiniteSets, SequencesExt

CONSTANTS Chars,               \* the characters that are not '\0', '\n' or EOF
          toupper,             \* of the C library
          MAX_ADRESS_LENGTH,   \* 101
          ALLOWED_SIZE,        \* 26, the length of allowed_chars
          Arguments,           \* argv without the program's name
          Lines,               \* what a line of stdin may be
          MaxLines             \* bound: the lines of one stdin

ASSUME KeyFilterAssumption ==
    /\ Chars \subseteq Nat \ {0}
    /\ toupper \in [Chars -> Chars]
    /\ \A c \in Chars : toupper[toupper[c]] = toupper[c]
    /\ {MAX_ADRESS_LENGTH, ALLOWED_SIZE} \subseteq Nat \ {0}
    /\ Arguments \subseteq Seq(Seq(Chars))
    /\ Lines \subseteq Seq(Chars)
    /\ MaxLines \in Nat

VARIABLES pc,
          argv, search,
          read,             \* history: the lines of stdin so far
          allowed_chars, number_of_allowed_chars,
          found_address,
          i, j,             \* of remove_duplicates and sort_chars
          out               \* what is printed

vars == <<pc, argv, search, read, allowed_chars, number_of_allowed_chars,
          found_address, i, j, out>>
result == <<allowed_chars, number_of_allowed_chars, found_address>>

n == number_of_allowed_chars
Nul == 0
Nothing == [kind |-> "nothing", text |-> <<>>]

-----------------------------------------------------------------------------
to_upper(str) == [k \in 1 .. Len(str) |-> toupper[str[k]]]

(* Is str1 a prefix of str2? *)
is_substring(str1, str2) ==
    /\ Len(str1) <= Len(str2)
    /\ \A k \in 1 .. Len(str1) : str1[k] = str2[k]

(* The character of a C string at an index from 0: its end is '\0'. *)
CharAt(str, index) == IF index < Len(str) THEN str[index + 1] ELSE Nul

(* A string and its '\0' need one more byte than the string has characters. *)
Overruns(str) == Len(str) >= MAX_ADRESS_LENGTH

-----------------------------------------------------------------------------
Stop(state) == pc' = state /\ UNCHANGED <<argv, search, read, result, i, j, out>>

(* main up to the first getchar. *)
Argument == IF argv = <<>> THEN <<>> ELSE argv[1]

TooLongSearch == /\ pc = "start"
                 /\ Len(Argument) > MAX_ADRESS_LENGTH
                 /\ Stop("ERROR_TOO_LONG_SEARCH")

CopySearch == /\ pc = "start"
              /\ Len(Argument) <= MAX_ADRESS_LENGTH
              /\ pc' = "reading"
              /\ search' = to_upper(Argument)
              /\ UNCHANGED <<argv, read, result, i, j, out>>

(* load_line stores one character more than MAX_ADRESS_LENGTH before it asks. *)
LineTooLong(line) == Len(line) > MAX_ADRESS_LENGTH + 1

RefuseLine == /\ pc = "reading" /\ Len(read) < MaxLines
              /\ \E line \in Lines : LineTooLong(line)
              /\ Stop("ERROR_TOO_LONG_LINE")

(* One turn of main's loop. *)
Record(address) ==
    IF is_substring(search, address)
    THEN /\ allowed_chars' =
                [k \in 1 .. n + 1 |-> IF k <= n THEN allowed_chars[k]
                                      ELSE CharAt(address, Len(search))]
         /\ number_of_allowed_chars' = n + 1
         /\ found_address' = address
    ELSE UNCHANGED result

ReadLine == /\ pc = "reading" /\ Len(read) < MaxLines
            /\ \E line \in Lines : /\ ~LineTooLong(line)
                                   /\ read' = Append(read, line)
                                   /\ Record(to_upper(line))
            /\ UNCHANGED <<pc, argv, search, i, j, out>>

(* Writes behind the arrays: strcpy into search, load_line into temp_address, *)
(* and one allowed character per matching line.                               *)
SearchOverrun == pc = "start" /\ Len(Argument) = MAX_ADRESS_LENGTH
LineOverrun == /\ pc = "reading" /\ Len(read) < MaxLines
               /\ \E line \in Lines :
                      \/ Overruns(line)
                      \/ n >= ALLOWED_SIZE /\ is_substring(search, to_upper(line))

WriteBehindArray == (SearchOverrun \/ LineOverrun) /\ Stop("undefined")

-----------------------------------------------------------------------------
(* print_result. *)
Says(kind, text) == out' = [kind |-> kind, text |-> text]

PrintOne == /\ pc = "reading" /\ n <= 1
            /\ pc' = "done"
            /\ IF n = 0 THEN Says("Not found", <<>>)
                        ELSE Says("Found", found_address)
            /\ UNCHANGED <<argv, search, read, result, i, j>>

PrintMany == /\ pc = "reading" /\ n > 1
             /\ pc' = "remove_duplicates"
             /\ i' = 1 /\ j' = 2
             /\ UNCHANGED <<argv, search, read, result, out>>

NextRow == /\ i' = i + 1
           /\ j' = i + 2

(* A duplicate is overwritten by the last character, which is then looked at. *)
Overwrite(entry, count, next) ==
    /\ allowed_chars' = [allowed_chars EXCEPT ![j] = entry]
    /\ number_of_allowed_chars' = count
    /\ j' = next
    /\ UNCHANGED <<found_address, i>>

(* Mutants: the last character is dropped with the duplicate, or the count is *)
(* not lowered.                                                               *)
RemoveLosing == Overwrite(allowed_chars[j], n - 1, j)
RemoveEndless == Overwrite(allowed_chars[n], n, j)

RemoveDuplicate == Overwrite(allowed_chars[n], n - 1, j)

remove_duplicates ==
    /\ pc = "remove_duplicates" /\ i <= n
    /\ IF j > n
       THEN NextRow /\ UNCHANGED result
       ELSE IF allowed_chars[i] = allowed_chars[j]
       THEN RemoveDuplicate
       ELSE j' = j + 1 /\ UNCHANGED <<i, result>>
    /\ UNCHANGED <<pc, argv, search, read, out>>

StartSort == /\ pc = "remove_duplicates" /\ i > n
             /\ pc' = "sort_chars"
             /\ i' = 1 /\ j' = 2
             /\ UNCHANGED <<argv, search, read, result, out>>

sort_chars ==
    /\ pc = "sort_chars" /\ i < n
    /\ IF j > n
       THEN NextRow /\ UNCHANGED result
       ELSE /\ allowed_chars' =
                   IF allowed_chars[i] > allowed_chars[j]
                   THEN [allowed_chars EXCEPT ![i] = allowed_chars[j],
                                              ![j] = allowed_chars[i]]
                   ELSE allowed_chars
            /\ j' = j + 1
            /\ UNCHANGED <<i, number_of_allowed_chars, found_address>>
    /\ UNCHANGED <<pc, argv, search, read, out>>

(* Mutant: the number that remove_duplicates returns is not used. *)
PrintAll == /\ pc = "sort_chars" /\ i >= n
            /\ pc' = "done"
            /\ Says("Enable", allowed_chars)
            /\ UNCHANGED <<argv, search, read, result, i, j>>

PrintSorted == /\ pc = "sort_chars" /\ i >= n
               /\ pc' = "done"
               /\ Says("Enable", SubSeq(allowed_chars, 1, n))
               /\ UNCHANGED <<argv, search, read, result, i, j>>

-----------------------------------------------------------------------------
Init == /\ pc = "start"
        /\ argv \in Arguments /\ search = <<>>
        /\ read = <<>>
        /\ allowed_chars = <<>> /\ number_of_allowed_chars = 0
        /\ found_address = <<>>
        /\ i = 1 /\ j = 2
        /\ out = Nothing

Next == \/ TooLongSearch \/ CopySearch
        \/ RefuseLine \/ ReadLine \/ WriteBehindArray
        \/ PrintOne \/ PrintMany
        \/ remove_duplicates \/ StartSort \/ sort_chars \/ PrintSorted

Spec == Init /\ [][Next]_vars

(* The program runs, and stdin has an end. *)
FairSpec == Spec /\ WF_vars(Next)

-----------------------------------------------------------------------------
(* What the answer should be, from the lines alone. *)
Matching == {k \in DOMAIN read : IsPrefix(search, to_upper(read[k]))}
NextKeys == {CharAt(to_upper(read[k]), Len(search)) : k \in Matching}

Kept == {allowed_chars[k] : k \in 1 .. n}

TypeOK ==
    /\ pc \in {"start", "reading", "remove_duplicates", "sort_chars", "done",
               "ERROR_TOO_LONG_SEARCH", "ERROR_TOO_LONG_LINE", "undefined"}
    /\ argv \in Arguments /\ search \in Seq(Chars)
    /\ read \in Seq(Lines) /\ Len(read) <= MaxLines
    /\ allowed_chars \in Seq(Chars \cup {Nul}) /\ n \in 0 .. Len(allowed_chars)
    /\ found_address \in Seq(Chars)
    /\ i \in 1 .. n + 1 /\ j \in i + 1 .. n + 2
    /\ out.kind \in {"nothing", "Not found", "Found", "Enable"}
    /\ out.text \in Seq(Chars \cup {Nul})

(* No key is lost: in the middle of either loop, where a character may be     *)
(* overwritten or be on its way to another place, the first                   *)
(* number_of_allowed_chars entries hold all keys that may follow, and no other.*)
KeepsEveryKey == pc \in {"reading", "remove_duplicates", "sort_chars"} =>
                     Kept = NextKeys

(* How far remove_duplicates and sort_chars have come: rows before i are      *)
(* settled, and row i is settled against the entries before j.                *)
Earlier(k, l) == k < i \/ (k = i /\ l < j)

Settled ==
    \A k \in 1 .. n : \A l \in k + 1 .. n :
        /\ pc = "sort_chars" \/ (pc = "remove_duplicates" /\ Earlier(k, l)) =>
               allowed_chars[k] # allowed_chars[l]
        /\ pc = "sort_chars" /\ Earlier(k, l) => allowed_chars[k] < allowed_chars[l]

(* At every turn of the two loops, one of which shortens the array it walks   *)
(* over: no key is lost and what was settled stays so.                        *)
LoopInvariant == TypeOK /\ KeepsEveryKey /\ Settled

(* The answer is the one the lines define: "Not found" when no address goes   *)
(* on from the search, the address when it is the only one, however lines     *)
(* that do not match lie around it, and otherwise every key that leads on to  *)
(* an address, each once and in the order of their codes.                     *)
AnswerIsRight ==
    pc = "done" =>
        /\ out.kind = "Not found" <=> Matching = {}
        /\ out.kind = "Found" <=> Cardinality(Matching) = 1
        /\ out.kind = "Found" => \A k \in Matching : out.text = to_upper(read[k])
        /\ out.kind = "Enable" =>
              /\ ToSet(out.text) = NextKeys
              /\ \A k, l \in DOMAIN out.text : k < l => out.text[k] < out.text[l]

(* A run ends: the loop that takes j back by one runs dry all the same. *)
Ends == <>(pc \in {"done", "ERROR_TOO_LONG_SEARCH", "ERROR_TOO_LONG_LINE",
                   "undefined"})
=============================================================================
