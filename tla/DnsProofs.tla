----------------------------- MODULE DnsProofs -----------------------------
(***************************************************************************)
(* What Dns keeps for every set of packets: who owns the blocks that       *)
(* readRRname and parseRR allocate, that a name which is reported has not  *)
(* been freed, and that the second walk over a name stays within the       *)
(* packet and within the memory that the first one measured.               *)
(*                                                                         *)
(* Ownership and Naming are what the first two need to be inductive: the   *)
(* block of the name that is being written is newer than all others, there *)
(* are no answers before the questions are read, and the name that the     *)
(* records get is that of a question, or, in a packet without one, that of *)
(* the first record or none that was ever set.  The third needs Walks, the *)
(* trace of the first walk: it stands before its lemmas.                   *)
(***************************************************************************)
EXTENDS Dns, SequenceTheorems, TLAPS

Name == [block : Int, length : Int]
Answer == [name : Name, data : Nat]

TypeOK ==
    /\ data \in Packets
    /\ used \in Nat
    /\ written \in Int
    /\ name \in Name
    /\ queries \in Seq(Name)
    /\ answers \in Seq(Answer)

\* Where names are read.
Questioning == {"questions", "measure", "noname", "write"}

\* Which blocks there are, and what is empty in which phase.
Ownership ==
    /\ phase \in {"header", "answers", "record", "report", "free", "done", "crashed"}
                     \cup Questioning
    /\ \A b \in NamesOf(queries) : 0 < b /\ b <= used /\ (phase = "write" => b < used)
    /\ \A b \in DataOf(answers) : b <= used
    /\ phase = "write" => used > 0
    /\ phase = "header" => queries = <<>>
    /\ phase \in {"header"} \cup Questioning => answers = <<>>
    /\ phase \notin {"free", "done"} => reported = <<>>

\* Whose name it is that the records get: of a question, until one fails; and
\* without a question of the first record, or it was never set.
Naming ==
    /\ Asked =>
           /\ phase \in {"header"} \cup Questioning =>
                  \/ name.block \in NamesOf(queries)
                  \/ name = NoName /\ (phase = "header" \/ count > 0)
           /\ phase \in {"answers", "record"} => name.block \in NamesOf(queries)
    /\ ~Asked =>
           /\ queries = <<>>
           /\ phase = "questions" => count = 0
           /\ phase \in {"header"} \cup Questioning => name = NoName
           /\ phase = "record" => name # NoName
           /\ name = NoName => answers = <<>>
           /\ name = NoName \/ name = Unset \/ name.block > 0
           /\ name.block <= used

Inv == TypeOK /\ Ownership /\ Naming /\ BlocksOwned /\ NamesAlive

----------------------------------------------------------------------------
LEMMA NamesOfAppend ==
    ASSUME NEW s \in Seq(Name), NEW n \in Name
    PROVE  NamesOf(Append(s, n)) = NamesOf(s) \cup {n.block}
  <1>1. DOMAIN Append(s, n) = DOMAIN s \cup {Len(s) + 1}
    OBVIOUS
  <1>2. \A k \in DOMAIN s : Append(s, n)[k] = s[k]
    OBVIOUS
  <1>3. Append(s, n)[Len(s) + 1] = n
    OBVIOUS
  <1>4. Len(s) + 1 \notin DOMAIN s
    OBVIOUS
  <1> QED BY <1>1, <1>2, <1>3, <1>4 DEF NamesOf

LEMMA DataOfAppend ==
    ASSUME NEW s \in Seq(Answer), NEW a \in Answer
    PROVE  DataOf(Append(s, a)) = DataOf(s) \cup {a.data}
  <1>1. DOMAIN Append(s, a) = DOMAIN s \cup {Len(s) + 1}
    OBVIOUS
  <1>2. \A k \in DOMAIN s : Append(s, a)[k] = s[k]
    OBVIOUS
  <1>3. Append(s, a)[Len(s) + 1] = a
    OBVIOUS
  <1>4. Len(s) + 1 \notin DOMAIN s
    OBVIOUS
  <1> QED BY <1>1, <1>2, <1>3, <1>4 DEF DataOf

LEMMA NothingOwned == NamesOf(<<>>) = {} /\ DataOf(<<>>) = {}
  BY DEF NamesOf, DataOf

LEMMA BlockNumbers ==
    ASSUME TypeOK
    PROVE  NamesOf(queries) \subseteq Int /\ DataOf(answers) \subseteq Nat
  <1>1. ASSUME NEW k \in DOMAIN queries PROVE queries[k].block \in Int
    <2>1. k \in 1 .. Len(queries) /\ queries \in Seq(Name)
      BY DEF TypeOK
    <2>2. queries[k] \in Name
      BY <2>1, ElementOfSeq
    <2> QED BY <2>2 DEF Name
  <1>2. ASSUME NEW k \in DOMAIN answers PROVE answers[k].data \in Nat
    <2>1. k \in 1 .. Len(answers) /\ answers \in Seq(Answer)
      BY DEF TypeOK
    <2>2. answers[k] \in Answer
      BY <2>1, ElementOfSeq
    <2> QED BY <2>2 DEF Answer
  <1> QED BY <1>1, <1>2 DEF NamesOf, DataOf

LEMMA PrintedType == \A c : Printed(c) \in Int
  BY DEF Printed

LEMMA NoNameType == NoName \in Name /\ Unset \in Name /\ NoName # Unset
  BY DEF NoName, Unset, Name

\* The packet stays as it is, and so does what it asks.
LEMMA AskedKept ==
    ASSUME data' = data
    PROVE  Asked' <=> Asked
  BY DEF Asked, Questions, Short, Char

\* An octet of the packet is a character.
LEMMA CharType ==
    ASSUME data \in Packets, NEW p \in Int, Inside(p)
    PROVE  Char(p) \in -128 .. 127
  <1> DEFINE Octet == -128 .. 127
  <1>1. data \in Seq(Octet)
    BY DnsAssumption
  <1> HIDE DEF Octet
  <1>2. p + 1 \in 1 .. Len(data)
    BY <1>1 DEF Inside, DataLen
  <1>3. data[p + 1] \in Octet
    BY <1>1, <1>2
  <1> QED BY <1>3 DEF Char, Octet

\* A number of two octets is none that is negative.
LEMMA QuestionsType ==
    ASSUME data \in Packets
    PROVE  Questions \in Nat
  <1> DEFINE Octet == -128 .. 127
  <1>1. data \in Seq(Octet) /\ Len(data) >= 12
    BY DnsAssumption DEF HeaderSize
  <1> HIDE DEF Octet
  <1>2. Inside(4) /\ Inside(5)
    BY <1>1 DEF Inside, DataLen
  <1>3. Char(4) \in Int /\ Char(5) \in Int
    BY <1>2, CharType
  <1> QED BY <1>3 DEF Questions, Short

LEMMA InvInit == Init => Inv
  <1> SUFFICES ASSUME Init PROVE Inv
    OBVIOUS
  <1>1. TypeOK
    BY NoNameType DEF Init, TypeOK
  <1>2. Ownership
    BY NothingOwned DEF Init, Ownership, Questioning
  <1>3. Naming
    BY DEF Init, Naming, Questioning, NoName
  <1>4. BlocksOwned
    <2>1. RecordName = {}
      BY DEF Init, RecordName, NoName
    <2> QED BY <2>1, NothingOwned DEF Init, BlocksOwned
  <1>5. NamesAlive
    BY DEF Init, NamesAlive
  <1> QED BY <1>1, <1>2, <1>3, <1>4, <1>5 DEF Inv

----------------------------------------------------------------------------
\* A step of a walk, or to a walk: nothing but its place changes.
LEMMA WalkStep ==
    ASSUME Inv, UNCHANGED <<data, isResponse, count, memory, found>>, written' \in Int,
           phase \in Questioning \ {"write"}, phase' \in {"measure", "noname"}
    PROVE  Inv'
  <1> USE DEF Inv, memory, found, Questioning
  <1>0. Asked' <=> Asked
    BY AskedKept
  <1>1. TypeOK'
    BY DEF TypeOK
  <1>2. Ownership'
    BY DEF Ownership
  <1>3. Naming'
    BY <1>0 DEF Naming
  <1>4. BlocksOwned'
    BY <1>0 DEF BlocksOwned, RecordName
  <1>5. NamesAlive'
    BY <1>0 DEF NamesAlive, RecordName
  <1> QED BY <1>1, <1>2, <1>3, <1>4, <1>5

LEMMA WriteStep ==
    ASSUME Inv, UNCHANGED <<data, isResponse, count, memory, found, phase>>, written' \in Int
    PROVE  Inv'
  <1> USE DEF Inv, memory, found
  <1>0. Asked' <=> Asked
    BY AskedKept
  <1>1. TypeOK'
    BY DEF TypeOK
  <1>2. Ownership'
    BY DEF Ownership
  <1>3. Naming'
    BY <1>0 DEF Naming
  <1>4. BlocksOwned'
    BY <1>0 DEF BlocksOwned, RecordName
  <1>5. NamesAlive'
    BY <1>0 DEF NamesAlive, RecordName
  <1> QED BY <1>1, <1>2, <1>3, <1>4, <1>5

\* Only a packet without a question has a record whose name is read, and only
\* the first one.
LEMMA FirstRecord ==
    ASSUME Inv, phase = "answers", name = NoName
    PROVE  ~Asked /\ answers = <<>> /\ queries = <<>>
  <1>1. name.block = 0
    BY DEF NoName
  <1>2. ~Asked
    BY <1>1 DEF Inv, Ownership, Naming
  <1> QED BY <1>2 DEF Inv, Naming

LEMMA EnterNameStep == ASSUME Inv, EnterName PROVE Inv'
  <1>1. CASE phase = "questions"
    BY <1>1, WalkStep DEF EnterName, Questioning
  <1>2. CASE phase = "answers" /\ name = NoName
    <2>1. /\ phase' = "measure" /\ written' = 0
          /\ UNCHANGED <<data, isResponse, count, used, blocks, name, queries, answers, reported>>
      BY DEF EnterName, memory, found
    <2>2. ~Asked /\ answers = <<>> /\ queries = <<>>
      BY <1>2, FirstRecord
    <2>3. ~Asked'
      BY <2>1, <2>2, AskedKept
    <2> USE DEF Inv, Questioning
    <2>4. TypeOK'
      BY <2>1 DEF TypeOK
    <2>5. Ownership'
      BY <1>2, <2>1, <2>2 DEF Ownership
    <2>6. Naming'
      BY <1>2, <2>1, <2>2, <2>3 DEF Naming
    <2>7. BlocksOwned'
      BY <1>2, <2>1, <2>2, <2>3 DEF BlocksOwned, RecordName
    <2>8. NamesAlive'
      BY <1>2, <2>1, <2>2, <2>3 DEF NamesAlive, RecordName
    <2> QED BY <2>4, <2>5, <2>6, <2>7, <2>8
  <1> QED BY <1>1, <1>2 DEF EnterName

\* The name that is written gets a block of its own.
LEMMA AllocateStep == ASSUME Inv, Allocate PROVE Inv'
  <1>1. CASE GivesUp
    BY <1>1, WalkStep DEF Allocate, Inv, TypeOK, Questioning
  <1>2. CASE ~GivesUp
    <2>1. /\ phase = "measure" /\ phase' = "write"
          /\ used' = used + 1 /\ blocks' = blocks \cup {used + 1}
          /\ written' = written
          /\ UNCHANGED <<data, isResponse, count, name, queries, answers, reported>>
      BY <1>2 DEF Allocate, found
    <2>2. Asked' <=> Asked
      BY <2>1, AskedKept
    <2>3. TypeOK'
      BY <2>1 DEF Inv, TypeOK
    <2>4. \A b \in NamesOf(queries) : 0 < b /\ b < used + 1 /\ b <= used + 1
      <3>1. \A b \in NamesOf(queries) : 0 < b /\ b <= used /\ b \in Int
        BY BlockNumbers DEF Inv, Ownership
      <3> QED BY <3>1 DEF Inv, TypeOK
    <2>5. answers = <<>> /\ reported = <<>>
      BY <2>1 DEF Inv, Ownership, Questioning
    <2>6. Ownership'
      BY <2>1, <2>4, <2>5, NothingOwned DEF Inv, Ownership, Questioning, TypeOK
    <2>7. Naming'
      <3>1. ~Asked => name = NoName /\ name.block = 0
        BY <2>1 DEF Inv, Naming, Questioning, NoName
      <3> QED BY <2>1, <2>2, <3>1 DEF Inv, Naming, Questioning, TypeOK
    <2>8. BlocksOwned'
      <3>1. RecordName = {} /\ RecordName' = {}
        <4>1. ~Asked => name.block = 0
          BY <2>1 DEF Inv, Naming, Questioning, NoName
        <4> QED BY <2>1, <2>2, <4>1 DEF RecordName
      <3> QED BY <2>1, <2>4, <2>5, <3>1, NothingOwned DEF Inv, BlocksOwned, TypeOK
    <2>9. NamesAlive'
      BY <2>1, <2>5 DEF NamesAlive
    <2> QED BY <2>3, <2>6, <2>7, <2>8, <2>9 DEF Inv
  <1> QED BY <1>1, <1>2

LEMMA QuestionWithoutNameStep == ASSUME Inv, QuestionWithoutName PROVE Inv'
  <1>1. /\ phase = "noname" /\ phase' = "report" /\ name' = NoName /\ Asked
        /\ written' = written
        /\ UNCHANGED <<data, isResponse, memory, queries, answers, reported>>
    BY DEF QuestionWithoutName, AfterQuestions, walk
  <1> USE DEF Inv, memory
  <1>0. Asked'
    BY <1>1, AskedKept
  <1>2. TypeOK'
    BY <1>1, NoNameType DEF TypeOK
  <1>3. Ownership'
    BY <1>1 DEF Ownership, Questioning
  <1>4. Naming'
    BY <1>0, <1>1 DEF Naming, Questioning
  <1>5. BlocksOwned'
    BY <1>0, <1>1 DEF BlocksOwned, RecordName
  <1>6. NamesAlive'
    BY <1>1 DEF NamesAlive, Ownership, Questioning
  <1> QED BY <1>2, <1>3, <1>4, <1>5, <1>6

\* The name that failed is freed, and no other has its block.
LEMMA QuestionTruncatedStep == ASSUME Inv, QuestionTruncated PROVE Inv'
  <1>1. /\ phase = "write" /\ phase' = "report" /\ Asked
        /\ name' = [block |-> used, length |-> written]
        /\ blocks' = blocks \ {used}
        /\ written' = written
        /\ UNCHANGED <<data, isResponse, used, queries, answers, reported>>
    BY DEF QuestionTruncated, AfterQuestions, walk
  <1> USE DEF Inv
  <1>0. Asked'
    BY <1>1, AskedKept
  <1>2. TypeOK'
    BY <1>1 DEF TypeOK, Name
  <1>3. Ownership'
    BY <1>1 DEF Ownership, Questioning
  <1>4. Naming'
    BY <1>0, <1>1 DEF Naming, Questioning
  <1>5. BlocksOwned'
    <2>1. answers = <<>>
      BY <1>1 DEF Ownership, Questioning
    <2>2. used \notin NamesOf(queries)
      BY <1>1 DEF Ownership, TypeOK
    <2>3. blocks = NamesOf(queries) \cup {used}
      BY <1>1, <2>1, NothingOwned DEF BlocksOwned, RecordName
    <2> QED BY <1>0, <1>1, <2>1, <2>2, <2>3, NothingOwned DEF BlocksOwned, RecordName
  <1>6. NamesAlive'
    BY <1>1 DEF NamesAlive, Ownership, Questioning
  <1> QED BY <1>2, <1>3, <1>4, <1>5, <1>6

\* The name goes to the questions, with its block.
LEMMA QuestionReadStep == ASSUME Inv, QuestionRead PROVE Inv'
  <1> DEFINE n == [block |-> used, length |-> written]
  <1>1. /\ phase = "write" /\ phase' = "questions" /\ Asked
        /\ name' = n /\ queries' = Append(queries, n)
        /\ written' = written
        /\ UNCHANGED <<data, isResponse, used, blocks, answers, reported>>
    BY DEF QuestionRead, walk, memory
  <1> USE DEF Inv
  <1>0. Asked'
    BY <1>1, AskedKept
  <1>2. n \in Name /\ queries \in Seq(Name) /\ n.block = used
    BY DEF TypeOK, Name
  <1>3. NamesOf(queries') = NamesOf(queries) \cup {used}
    BY <1>1, <1>2, NamesOfAppend
  <1>4. /\ DOMAIN queries' = DOMAIN queries \cup {Len(queries) + 1}
        /\ \A k \in DOMAIN queries : queries'[k] = queries[k]
        /\ queries'[Len(queries) + 1] = n
    BY <1>1, <1>2
  <1> HIDE DEF n
  <1>5. TypeOK'
    BY <1>1, <1>2 DEF TypeOK
  <1>6. Ownership'
    BY <1>1, <1>2, <1>3 DEF Ownership, Questioning, TypeOK
  <1>7. Naming'
    BY <1>0, <1>1, <1>2, <1>3 DEF Naming, Questioning
  <1>8. used \notin NamesOf(queries) /\ answers = <<>> /\ reported = <<>>
    BY <1>1 DEF Ownership, Questioning, TypeOK
  <1>9. BlocksOwned'
    <2>1. \A i, j \in DOMAIN queries' : queries'[i].block = queries'[j].block => i = j
      <3>1. \A i \in DOMAIN queries : queries[i].block \in NamesOf(queries)
        BY DEF NamesOf
      <3>2. \A i, j \in DOMAIN queries : queries[i].block = queries[j].block => i = j
        BY DEF BlocksOwned
      <3> QED BY <1>2, <1>4, <1>8, <3>1, <3>2
    <2>2. blocks = NamesOf(queries) \cup {used}
      BY <1>1, <1>8, NothingOwned DEF BlocksOwned, RecordName
    <2> QED BY <1>0, <1>1, <1>3, <1>8, <2>1, <2>2, NothingOwned DEF BlocksOwned, RecordName
  <1>10. NamesAlive'
    BY <1>1, <1>8 DEF NamesAlive
  <1> QED BY <1>5, <1>6, <1>7, <1>9, <1>10

\* The questions end: their last has named the records, if there is one.
LEMMA QuestionsDoneStep == ASSUME Inv, QuestionsDone PROVE Inv'
  <1>1. /\ phase = "questions" /\ phase' \in {"answers", "report"} /\ count = 0
        /\ written' = written
        /\ name' \in IF Asked THEN {name} ELSE {NoName, Unset}
        /\ UNCHANGED <<data, isResponse, memory, queries, answers, reported>>
    BY DEF QuestionsDone, AfterQuestions, walk
  <1> USE DEF Inv, memory
  <1>0. Asked' <=> Asked
    BY <1>1, AskedKept
  <1>2. TypeOK'
    BY <1>1, NoNameType DEF TypeOK
  <1>3. Ownership'
    BY <1>1 DEF Ownership, Questioning
  <1>4. answers = <<>> /\ reported = <<>>
    BY <1>1 DEF Ownership, Questioning
  <1>5. Naming'
    <2>1. CASE Asked
      <3>1. name' = name /\ name.block \in NamesOf(queries)
        BY <1>1, <2>1 DEF Naming, Questioning
      <3> QED BY <1>0, <1>1, <2>1, <3>1 DEF Naming, Questioning
    <2>2. CASE ~Asked
      <3>1. name' \in {NoName, Unset} /\ name'.block <= used
        BY <1>1, <2>2 DEF NoName, Unset, TypeOK
      <3>2. queries = <<>>
        BY <2>2 DEF Naming
      <3> QED BY <1>0, <1>1, <1>4, <2>2, <3>1, <3>2 DEF Naming, Questioning
    <2> QED BY <2>1, <2>2
  <1>6. BlocksOwned'
    <2>1. RecordName' = RecordName
      <3>1. CASE Asked
        BY <1>0, <3>1 DEF RecordName
      <3>2. CASE ~Asked
        <4>1. name.block <= 0 /\ name'.block <= 0
          BY <1>1, <3>2 DEF Naming, Questioning, NoName, Unset
        <4> QED BY <1>0, <3>2, <4>1 DEF RecordName
      <3> QED BY <3>1, <3>2
    <2> QED BY <1>1, <2>1 DEF BlocksOwned
  <1>7. NamesAlive'
    BY <1>1, <1>4 DEF NamesAlive
  <1> QED BY <1>2, <1>3, <1>5, <1>6, <1>7

\* The name of a record stays without an owner.
LEMMA RecordNamedStep == ASSUME Inv, RecordNamed PROVE Inv'
  <1> DEFINE n == [block |-> used, length |-> written]
  <1>1. /\ phase = "write" /\ phase' = "record" /\ ~Asked
        /\ name' = n /\ written' = written
        /\ UNCHANGED <<data, isResponse, used, blocks, queries, answers, reported>>
    BY DEF RecordNamed, walk, memory
  <1> USE DEF Inv
  <1>0. ~Asked'
    BY <1>1, AskedKept
  <1>2. n \in Name /\ n.block = used /\ used > 0
    BY <1>1 DEF TypeOK, Name, Ownership
  <1> HIDE DEF n
  <1>3. answers = <<>> /\ reported = <<>> /\ queries = <<>> /\ name = NoName
    BY <1>1 DEF Ownership, Naming, Questioning
  <1>4. TypeOK'
    BY <1>1, <1>2 DEF TypeOK
  <1>5. Ownership'
    BY <1>1 DEF Ownership, Questioning
  <1>6. Naming'
    BY <1>0, <1>1, <1>2, <1>3 DEF Naming, Questioning, NoName, TypeOK
  <1>7. BlocksOwned'
    <2>1. RecordName = {} /\ RecordName' = {used}
      <3>1. name.block = 0
        BY <1>3 DEF NoName
      <3>2. ~(used <= 0)
        BY <1>2 DEF TypeOK
      <3> QED BY <1>0, <1>1, <1>2, <3>1, <3>2 DEF RecordName
    <2>2. blocks = {used}
      BY <1>1, <1>3, <2>1, NothingOwned DEF BlocksOwned
    <2> QED BY <1>1, <1>3, <2>1, <2>2, NothingOwned DEF BlocksOwned
  <1>8. NamesAlive'
    BY <1>1, <1>3 DEF NamesAlive
  <1> QED BY <1>4, <1>5, <1>6, <1>7, <1>8

\* The name that an answer gets is still there.
LEMMA NameOfRecord ==
    ASSUME Inv, phase = "record", name # Unset
    PROVE  name.block \in NamesOf(queries) \cup RecordName
  <1>1. CASE Asked
    BY <1>1 DEF Inv, Naming
  <1>2. CASE ~Asked
    <2>1. name.block > 0 /\ name.block \in Int
      BY <1>2 DEF Inv, Naming, TypeOK, Name
    <2> QED BY <1>2, <2>1 DEF RecordName
  <1> QED BY <1>1, <1>2

\* A record is read with a name, though it may be one that was never set.
LEMMA RecordHasName ==
    ASSUME Inv, phase = "record"
    PROVE  name # NoName
  <1>1. \A b \in NamesOf(queries) : 0 < b
    BY DEF Inv, Ownership
  <1> QED BY <1>1 DEF Inv, Naming, NoName

\* An answer has a living name, and a block of its own or none.
LEMMA AnswerStep ==
    ASSUME Inv, NEW d \in {0, used + 1}, phase = "record", phase' = "answers",
           used' = IF d = 0 THEN used ELSE d,
           blocks' = IF d = 0 THEN blocks ELSE blocks \cup {d},
           answers' = Append(answers, [name |-> name, data |-> d]),
           written' = written,
           UNCHANGED <<data, isResponse, name, queries, reported>>
    PROVE  Inv'
  <1> DEFINE a == [name |-> name, data |-> d]
  <1> USE DEF Inv
  <1>0. (Asked' <=> Asked) /\ RecordName' = RecordName
    BY AskedKept DEF RecordName
  <1>1. used \in Nat /\ d \in Nat /\ used' \in Nat /\ used <= used' /\ d <= used'
    BY DEF TypeOK
  <1>2. /\ a \in Answer /\ a.data = d /\ a.name = name
        /\ answers \in Seq(Answer) /\ answers' = Append(answers, a)
    BY <1>1 DEF TypeOK, Answer
  <1>3. DataOf(answers') = DataOf(answers) \cup {d}
    BY <1>2, DataOfAppend
  <1>4. /\ DOMAIN answers' = DOMAIN answers \cup {Len(answers) + 1}
        /\ \A k \in DOMAIN answers : answers'[k] = answers[k]
        /\ answers'[Len(answers) + 1] = a
    BY <1>2
  <1> HIDE DEF a
  <1>5. TypeOK'
    BY <1>1, <1>2 DEF TypeOK
  <1>6. /\ \A b \in NamesOf(queries) : b \in Int /\ 0 < b /\ b <= used
        /\ \A b \in DataOf(answers) : b \in Nat /\ b <= used
    BY BlockNumbers DEF Ownership
  <1>7. Ownership'
    <2>1. \A b \in NamesOf(queries) : 0 < b /\ b <= used'
      BY <1>1, <1>6
    <2>2. \A b \in DataOf(answers') : b <= used'
      BY <1>1, <1>3, <1>6
    <2> QED BY <2>1, <2>2 DEF Ownership, Questioning
  <1>8. Naming'
    <2>1. name \in Name
      BY DEF TypeOK
    <2>2. name.block <= used => name.block <= used'
      BY <1>1, <2>1 DEF Name
    <2> QED BY <1>0, <2>2 DEF Naming, Questioning
  <1>9. BlocksOwned'
    <2>1. CASE d = 0
      <3>1. \A i, j \in DOMAIN answers' :
                answers'[i].data = answers'[j].data /\ answers'[i].data # 0 => i = j
        BY <1>2, <1>4, <2>1 DEF BlocksOwned
      <3>2. 0 \notin NamesOf(queries)
        BY <1>6
      <3> QED BY <1>0, <1>3, <2>1, <3>1, <3>2 DEF BlocksOwned
    <2>2. CASE d = used + 1
      <3>1. d # 0 /\ d \notin NamesOf(queries) /\ d \notin DataOf(answers)
        BY <1>1, <1>6, <2>2
      <3>2. d \notin RecordName
        <4>1. ASSUME ~Asked PROVE name.block # d
          <5>1. name.block \in Int /\ name.block <= used
            BY <4>1 DEF Naming, TypeOK, Name
          <5> QED BY <1>1, <2>2, <5>1
        <4> QED BY <4>1 DEF RecordName
      <3>3. \A i, j \in DOMAIN answers' :
                answers'[i].data = answers'[j].data /\ answers'[i].data # 0 => i = j
        <4>1. \A i \in DOMAIN answers : answers[i].data \in DataOf(answers)
          BY DEF DataOf
        <4>2. \A i, j \in DOMAIN answers :
                  answers[i].data = answers[j].data /\ answers[i].data # 0 => i = j
          BY DEF BlocksOwned
        <4> QED BY <1>2, <1>4, <3>1, <4>1, <4>2
      <3>4. blocks = NamesOf(queries) \cup (DataOf(answers) \ {0}) \cup RecordName
        BY DEF BlocksOwned
      <3>5. /\ NamesOf(queries) \cap DataOf(answers) = {}
            /\ (NamesOf(queries) \cup (DataOf(answers) \ {0})) \cap RecordName = {}
            /\ \A i, j \in DOMAIN queries : queries[i].block = queries[j].block => i = j
        BY DEF BlocksOwned
      <3>6. blocks' = blocks \cup {d}
        BY <3>1
      <3> QED BY <1>0, <1>3, <3>1, <3>2, <3>3, <3>4, <3>5, <3>6 DEF BlocksOwned
    <2> QED BY <2>1, <2>2
  <1>10. NamesAlive'
    <2>1. reported = <<>>
      BY DEF Ownership
    <2>2. name # Unset => name.block \in NamesOf(queries) \cup RecordName
      BY NameOfRecord
    <2> QED BY <1>0, <1>2, <1>4, <2>1, <2>2 DEF NamesAlive
  <1> QED BY <1>5, <1>7, <1>8, <1>9, <1>10

\* Going on to another part of the packet keeps what is owned.
LEMMA LeaveStep ==
    ASSUME Inv, UNCHANGED <<data, isResponse, memory, found>>, written' = written,
           \/ phase = "header" /\ phase' = "questions" /\ count' = Questions
           \/ phase = "header" /\ phase' = "done"
           \/ phase = "noname" /\ phase' = "report"
           \/ phase = "answers" /\ phase' \in {"record", "report"} /\ name # NoName
           \/ phase = "answers" /\ phase' = "report"
           \/ phase = "record" /\ phase' \in {"answers", "report"}
           \/ phase = "report" /\ phase' = "crashed"
    PROVE  Inv'
  <1> USE DEF Inv, memory, found, Questioning
  <1>0. (Asked' <=> Asked) /\ RecordName' = RecordName
    BY AskedKept DEF RecordName
  <1>1. TypeOK'
    BY DEF TypeOK
  <1>2. Ownership'
    BY DEF Ownership
  <1>3. Naming'
    <2>1. Asked => Questions > 0
      BY DEF Asked
    <2>2. ~Asked => Questions = 0
      BY QuestionsType DEF Asked, TypeOK
    <2> QED BY <1>0, <2>1, <2>2 DEF Naming
  <1>4. BlocksOwned'
    BY <1>0, NothingOwned DEF BlocksOwned, Ownership
  <1>5. NamesAlive'
    BY <1>0 DEF NamesAlive
  <1> QED BY <1>1, <1>2, <1>3, <1>4, <1>5

\* What is reported is the name of the last question, or of the last answer.
LEMMA ReportStep == ASSUME Inv, Report PROVE Inv'
  <1>1. /\ phase = "report" /\ phase' = "free"
        /\ written' = written
        /\ UNCHANGED <<data, isResponse, memory, name, queries, answers>>
    BY DEF Report, walk
  <1> USE DEF Inv, memory
  <1>0. (Asked' <=> Asked) /\ RecordName' = RecordName
    BY <1>1, AskedKept DEF RecordName
  <1>2. ASSUME isResponse PROVE NamesAlive'
    <2>1. \/ reported' = <<>>
          \/ reported' = <<LastAnswer>> /\ answers # <<>>
      <3>1. answers = <<>> => LastAnswer # Unset /\ LastAnswer.length = 0
        BY NoNameType DEF LastAnswer, NoName
      <3> QED BY <1>2, <3>1 DEF Report
    <2>2. ASSUME answers # <<>>, name # Unset
          PROVE  LastAnswer.block \in NamesOf(queries) \cup RecordName
      <3>1. Len(answers) \in DOMAIN answers
        BY <2>2 DEF TypeOK
      <3> QED BY <1>1, <2>2, <3>1 DEF LastAnswer, Last, NamesAlive
    <2>3. ASSUME NEW k \in DOMAIN reported', name # Unset
          PROVE  reported'[k].block \in NamesOf(queries) \cup RecordName
      <3>1. reported' = <<LastAnswer>> /\ answers # <<>>
        BY <2>1, <2>3
      <3> QED BY <2>2, <2>3, <3>1
    <2>4. name # Unset =>
              \A k \in DOMAIN answers : answers[k].name.block \in NamesOf(queries) \cup RecordName
      BY <1>1 DEF NamesAlive
    <2> HIDE DEF Inv
    <2> QED BY <1>0, <1>1, <2>3, <2>4 DEF NamesAlive
  <1>3. ASSUME ~isResponse PROVE NamesAlive'
    <2>1. reported' = <<LastName>>
      BY <1>3 DEF Report
    <2>2. IF queries = <<>> THEN LastName = NoName ELSE LastName.block \in NamesOf(queries)
      <3>1. CASE queries # <<>>
        <4>1. Len(queries) \in DOMAIN queries
          BY <3>1 DEF TypeOK
        <4> QED BY <3>1, <4>1 DEF LastName, Last, NamesOf
      <3> QED BY <3>1 DEF LastName
    <2>3. \A k \in DOMAIN reported' : reported'[k] = LastName
      BY <2>1
    <2>4. name # Unset =>
              \A k \in DOMAIN answers : answers[k].name.block \in NamesOf(queries) \cup RecordName
      BY <1>1 DEF NamesAlive
    <2> HIDE DEF Inv
    <2> QED BY <1>0, <1>1, <1>3, <2>2, <2>3, <2>4 DEF NamesAlive
  <1>4. TypeOK'
    BY <1>1 DEF TypeOK
  <1>5. Ownership'
    BY <1>1 DEF Ownership, Questioning
  <1>6. Naming'
    BY <1>0, <1>1 DEF Naming, Questioning
  <1>7. BlocksOwned'
    BY <1>0, <1>1 DEF BlocksOwned
  <1> QED BY <1>2, <1>3, <1>4, <1>5, <1>6, <1>7

LEMMA FreeStep == ASSUME Inv, Free PROVE Inv'
  <1>1. /\ phase = "free" /\ phase' = "done"
        /\ blocks' = blocks \ (NamesOf(queries) \cup DataOf(answers))
        /\ written' = written
        /\ UNCHANGED <<data, isResponse, used, name, queries, answers, reported>>
    BY DEF Free, walk, found
  <1> USE DEF Inv
  <1>0. (Asked' <=> Asked) /\ RecordName' = RecordName
    BY <1>1, AskedKept DEF RecordName
  <1>2. TypeOK'
    BY <1>1 DEF TypeOK
  <1>3. Ownership'
    BY <1>1 DEF Ownership, Questioning
  <1>4. Naming'
    BY <1>0, <1>1 DEF Naming, Questioning
  <1>5. BlocksOwned'
    <2>1. 0 \notin RecordName
      BY DEF RecordName
    <2>2. blocks' = RecordName
      BY <1>1, <2>1 DEF BlocksOwned
    <2>3. (NamesOf(queries) \cup (DataOf(answers) \ {0})) \cap RecordName = {}
      BY DEF BlocksOwned
    <2> QED BY <1>0, <1>1, <2>2, <2>3 DEF BlocksOwned
  <1>6. NamesAlive'
    BY <1>1 DEF NamesAlive
  <1> QED BY <1>2, <1>3, <1>4, <1>5, <1>6

LEMMA InvStep == Inv /\ [Next]_vars => Inv'
  <1> SUFFICES ASSUME Inv, [Next]_vars PROVE Inv'
    OBVIOUS
  <1>1. written \in Int /\ \A k \in Int : written + k \in Int
    BY DEF Inv, TypeOK
  <1>2. CASE ReadHeader
    BY <1>2, LeaveStep DEF ReadHeader, walk
  <1>3. CASE EnterName
    BY <1>3, EnterNameStep
  <1>4. CASE MeasurePointer
    BY <1>1, <1>4, WalkStep DEF MeasurePointer, Measuring, Questioning
  <1>5. CASE MeasureLabel \/ MeasureCharacter
    BY <1>1, <1>5, WalkStep DEF MeasureLabel, MeasureCharacter, Measuring, Questioning
  <1>6. CASE Allocate
    BY <1>6, AllocateStep
  <1>7. CASE WritePointer \/ WriteLabel \/ WriteCharacter
    <2>1. written' \in Int
      BY <1>1, <1>7, PrintedType DEF WritePointer, WriteLabel, WriteCharacter
    <2> QED BY <1>7, <2>1, WriteStep DEF WritePointer, WriteLabel, WriteCharacter
  <1>8. CASE QuestionWithoutName
    BY <1>8, QuestionWithoutNameStep
  <1>9. CASE QuestionTruncated
    BY <1>9, QuestionTruncatedStep
  <1>10. CASE QuestionRead
    BY <1>10, QuestionReadStep
  <1>11. CASE QuestionsDone
    BY <1>11, QuestionsDoneStep
  <1>12. CASE RecordWithoutName
    BY <1>12, LeaveStep DEF RecordWithoutName, walk
  <1>13. CASE RecordNamed
    BY <1>13, RecordNamedStep
  <1>14. CASE NextRecord
    BY <1>14, LeaveStep DEF NextRecord
  <1>15. CASE AnswerFails
    BY <1>15, LeaveStep DEF AnswerFails, walk
  <1>16. CASE AnswerA
    <2>1. used + 1 # 0
      BY DEF Inv, TypeOK
    <2> QED BY <1>16, <2>1, AnswerStep DEF AnswerA, ReadRecord, walk
  <1>17. CASE AnswerAWrongFormat
    BY <1>17, AnswerStep DEF AnswerAWrongFormat, ReadRecord, walk, memory
  <1>18. CASE AnswerSkipped
    BY <1>18, LeaveStep DEF AnswerSkipped, ReadRecord, walk, found
  <1>19. CASE AnswersDone
    BY <1>19, LeaveStep DEF AnswersDone, walk
  <1>20. CASE Report
    BY <1>20, ReportStep
  <1>21. CASE Crash
    BY <1>21, LeaveStep DEF Crash, walk
  <1>22. CASE Free
    BY <1>22, FreeStep
  <1>23. CASE UNCHANGED vars
    BY <1>1, <1>23, WriteStep DEF vars, walk
  <1> QED
    BY <1>2, <1>3, <1>4, <1>5, <1>6, <1>7, <1>8, <1>9, <1>10, <1>11, <1>12, <1>13, <1>14,
       <1>15, <1>16, <1>17, <1>18, <1>19, <1>20, <1>21, <1>22, <1>23 DEF Next

LEMMA InvHolds == Spec => []Inv
  BY InvInit, InvStep, PTL DEF Spec

\* Whatever the packet holds and wherever it ends, every block that was
\* allocated has one owner and is freed once (Dnsparser.cc:77-80, 129-132,
\* 147-153, 336-341); only the name of a record has none.
THEOREM BlocksOwnedHolds == Spec => []BlocksOwned
  <1>1. Inv => BlocksOwned
    BY DEF Inv
  <1> QED BY <1>1, InvHolds, PTL

\* The callbacks and the answers hold no name that was freed (Dnsparser.cc:52-55,
\* 147-152, 256), unless the code goes on with a DnsInfo::name that was never set.
THEOREM NamesAliveHolds == Spec => []NamesAlive
  <1>1. Inv => NamesAlive
    BY DEF Inv
  <1> QED BY <1>1, InvHolds, PTL

----------------------------------------------------------------------------
(***************************************************************************)
(* The two walks over a name.  What the second may rely on is the trace of *)
(* the first: the places it went through, with the ends of their labels    *)
(* and what was measured before them.  Both go the same way, since neither *)
(* chooses, so the second is always somewhere on that trace, and the trace *)
(* ended at the end of a name.                                             *)
(***************************************************************************)
Place == [pos : Int, next : Int, length : Int]

\* The end of the name, and the first octet of a pointer.
AtEnd(s) == s.next = s.pos /\ Char(s.pos) = 0
AtPointer(s) == s.next = s.pos /\ IsPointer(Char(s.pos))

\* Where the walk goes from s.
Ahead(s) ==
    IF AtPointer(s)
    THEN [pos |-> Target(s.pos), next |-> Target(s.pos), length |-> s.length]
    ELSE IF s.next = s.pos
    THEN [pos |-> s.pos + 1, next |-> s.next + Char(s.pos) + 1, length |-> s.length + 1]
    ELSE [pos |-> s.pos + 1, next |-> s.next, length |-> s.length + Measured(Char(s.pos))]

\* The first walk goes on from s to t.
Goes(s, t) ==
    /\ Inside(s.pos)
    /\ ~AtEnd(s)
    /\ AtPointer(s) => Inside(s.pos + 1)
    /\ t = Ahead(s)

\* f is a walk of n steps from the place from to the place to.
Trace(f, n, from, to) ==
    /\ n \in Nat
    /\ f \in [0 .. n -> Place]
    /\ f[0] = from
    /\ f[n] = to
    /\ \A i \in 0 .. n - 1 : Goes(f[i], f[i + 1])
    /\ \A i \in 0 .. n : f[i].length <= to.length

From(p) == [pos |-> p, next |-> p, length |-> 0]
Here == [pos |-> pos, next |-> next, length |-> nameLen]

\* The first walk is at the end of its trace,
Traced == \E n \in Nat : \E f \in [0 .. n -> Place] : Trace(f, n, From(start), Here)

\* and the second somewhere on it.
OnTrace(f, n, end) ==
    /\ Trace(f, n, From(start), end)
    /\ Inside(end.pos) /\ AtEnd(end)
    /\ nameLen = end.length + 1
    /\ \E k \in 0 .. n : pos = f[k].pos /\ next = f[k].next /\ written <= f[k].length

Retraced ==
    \E n \in Nat, end \in Place : \E f \in [0 .. n -> Place] : OnTrace(f, n, end)

Numbers ==
    /\ data \in Packets
    /\ phase \in {"header"} \cup Questioning \/ (phase = "answers" /\ name = NoName) =>
           /\ pos \in Int /\ next \in Int /\ start \in Int /\ endPos \in Int
           /\ nameLen \in Int /\ written \in Int /\ steps \in Int

Walks ==
    /\ Numbers
    /\ phase = "measure" => Traced /\ written = 0
    /\ phase = "write" => Retraced

\* The second walk never writes more for a character than was measured.
LEMMA PrintedFits ==
    ASSUME NEW c \in Int
    PROVE  Printed(c) <= Measured(c) /\ Measured(c) \in Nat
  BY DEF Printed, Measured

\* A place is followed by a place, and the measure grows.
LEMMA AheadType ==
    ASSUME data \in Packets, NEW s \in Place, NEW t, Goes(s, t)
    PROVE  t \in Place /\ s.length <= t.length
  <1>1. s.pos \in Int /\ s.next \in Int /\ s.length \in Int
    BY DEF Place
  <1>2. Char(s.pos) \in Int
    BY <1>1, CharType DEF Goes
  <1>3. CASE AtPointer(s)
    <2>1. s.pos + 1 \in Int /\ Inside(s.pos + 1)
      BY <1>1, <1>3 DEF Goes
    <2>2. Char(s.pos + 1) \in Int
      BY <2>1, CharType
    <2>3. Target(s.pos) \in Int
      BY <1>2, <2>2 DEF Target, HeaderSize
    <2>4. t = [pos |-> Target(s.pos), next |-> Target(s.pos), length |-> s.length]
      BY <1>3 DEF Goes, Ahead
    <2> QED BY <1>1, <2>3, <2>4 DEF Place
  <1>4. CASE ~AtPointer(s) /\ s.next = s.pos
    <2>1. t = [pos |-> s.pos + 1, next |-> s.next + Char(s.pos) + 1, length |-> s.length + 1]
      BY <1>4 DEF Goes, Ahead
    <2> QED BY <1>1, <1>2, <2>1 DEF Place
  <1>5. CASE s.next # s.pos
    <2>1. t = [pos |-> s.pos + 1, next |-> s.next, length |-> s.length + Measured(Char(s.pos))]
      BY <1>5 DEF Goes, Ahead, AtPointer
    <2>2. Measured(Char(s.pos)) \in Nat
      BY <1>2, PrintedFits
    <2> QED BY <1>1, <2>1, <2>2 DEF Place
  <1> QED BY <1>3, <1>4, <1>5

\* A step of the first walk makes its trace one place longer.
LEMMA TraceGrows ==
    ASSUME data \in Packets, NEW n \in Nat, NEW f \in [0 .. n -> Place],
           NEW from, NEW to, Trace(f, n, from, to), NEW t, Goes(to, t)
    PROVE  \E m \in Nat : \E g \in [0 .. m -> Place] : Trace(g, m, from, t)
  <1> DEFINE m == n + 1
             g == [i \in 0 .. m |-> IF i = m THEN t ELSE f[i]]
  <1>1. to \in Place /\ f[0] = from /\ f[n] = to
    BY DEF Trace
  <1>2. t \in Place /\ to.length <= t.length
    BY <1>1, AheadType
  <1>3. m \in Nat /\ \A i \in 0 .. m : i = m \/ i \in 0 .. n
    OBVIOUS
  <1>4. g \in [0 .. m -> Place]
    BY <1>2, <1>3
  <1>5. /\ g[0] = f[0] /\ g[m] = t /\ g[n] = f[n]
        /\ \A i \in 0 .. n : g[i] = f[i]
    OBVIOUS
  <1> HIDE DEF g
  <1>6. ASSUME NEW i \in 0 .. m - 1 PROVE Goes(g[i], g[i + 1])
    <2>1. CASE i = n
      BY <2>1, <1>1, <1>5
    <2>2. CASE i # n
      <3>1. i \in 0 .. n - 1 /\ i \in 0 .. n /\ i + 1 \in 0 .. n
        BY <2>2
      <3> QED BY <3>1, <1>5 DEF Trace
    <2> QED BY <2>1, <2>2
  <1>7. ASSUME NEW i \in 0 .. m PROVE g[i].length <= t.length
    <2>1. CASE i = m
      BY <2>1, <1>2, <1>5 DEF Place
    <2>2. CASE i # m
      <3>1. i \in 0 .. n /\ g[i] = f[i]
        BY <2>2, <1>5
      <3>2. f[i].length <= to.length
        BY <3>1 DEF Trace
      <3>3. f[i].length \in Int /\ to.length \in Int /\ t.length \in Int
        BY <3>1, <1>1, <1>2 DEF Place
      <3> QED BY <3>1, <3>2, <3>3, <1>2
    <2> QED BY <2>1, <2>2
  <1>8. Trace(g, m, from, t)
    BY <1>1, <1>3, <1>4, <1>5, <1>6, <1>7 DEF Trace
  <1> QED BY <1>3, <1>4, <1>8

\* The packet stays as it is, and so does the way that leads through it.
LEMMA GoesKept ==
    ASSUME data' = data, NEW s, NEW t
    PROVE  Goes(s, t)' <=> Goes(s, t)
  BY DEF Goes, AtEnd, AtPointer, Ahead, Inside, Char, DataLen, Target, HeaderSize

LEMMA TraceKept ==
    ASSUME data' = data, NEW f, NEW n, NEW from, NEW to
    PROVE  Trace(f, n, from, to)' <=> Trace(f, n, from, to)
  <1>1. \A s, t : Goes(s, t)' <=> Goes(s, t)
    BY GoesKept
  <1> QED BY <1>1 DEF Trace

----------------------------------------------------------------------------
LEMMA WalksInit == Init => Walks
  <1> SUFFICES ASSUME Init PROVE Walks
    OBVIOUS
  <1> QED BY DEF Init, Walks, Numbers

LEMMA PointTrace ==
    ASSUME NEW h \in Place, h.length = 0
    PROVE  \E f \in [0 .. 0 -> Place] : Trace(f, 0, h, h)
  <1> DEFINE f == [i \in 0 .. 0 |-> h]
  <1>1. f \in [0 .. 0 -> Place] /\ f[0] = h
    OBVIOUS
  <1> HIDE DEF f
  <1>2. \A i \in 0 .. 0 : i = 0
    OBVIOUS
  <1>3. h.length <= h.length
    OBVIOUS
  <1>4. Trace(f, 0, h, h)
    BY <1>1, <1>2, <1>3 DEF Trace
  <1> QED BY <1>1, <1>4

\* A name is begun with a trace of no steps.
LEMMA EnterNameWalks == ASSUME Walks, EnterName PROVE Walks'
  <1>1. /\ phase = "questions" \/ (phase = "answers" /\ name = NoName)
        /\ phase' = "measure"
        /\ start' = pos /\ next' = pos /\ pos' = pos
        /\ endPos' = 0 /\ nameLen' = 0 /\ written' = 0 /\ steps' = 0
        /\ data' = data
    BY DEF EnterName
  <1>2. Numbers'
    BY <1>1 DEF Walks, Numbers, Questioning
  <1>3. From(pos) \in Place /\ From(pos).length = 0
    BY <1>1 DEF Walks, Numbers, Questioning, From, Place
  <1>4. PICK h \in Place : h = From(pos)
    BY <1>3
  <1>5. PICK f \in [0 .. 0 -> Place] : Trace(f, 0, h, h)
    BY <1>3, <1>4, PointTrace
  <1>6. From(start)' = h /\ Here' = h
    BY <1>1, <1>4 DEF From, Here
  <1>7. Trace(f, 0, h, h)'
    BY <1>1, <1>5, TraceKept
  <1>8. Traced'
    BY <1>5, <1>6, <1>7 DEF Traced
  <1> QED BY <1>1, <1>2, <1>8 DEF Walks

\* The first walk goes on, and its trace with it.
LEMMA TracedStep ==
    ASSUME Walks, phase = "measure", data' = data, start' = start,
           Goes(Here, [pos |-> pos', next |-> next', length |-> nameLen'])
    PROVE  Traced'
  <1> DEFINE t == [pos |-> pos', next |-> next', length |-> nameLen']
  <1>0. PICK n \in Nat : \E f \in [0 .. n -> Place] : Trace(f, n, From(start), Here)
    BY DEF Walks, Traced
  <1>1. PICK f \in [0 .. n -> Place] : Trace(f, n, From(start), Here)
    BY <1>0
  <1>2. Goes(Here, t) /\ data \in Packets
    BY DEF Walks, Numbers
  <1>3. Here' = t /\ From(start)' = From(start)
    BY DEF Here, From
  <1> HIDE DEF t
  <1>4. \E m \in Nat : \E g \in [0 .. m -> Place] : Trace(g, m, From(start), t)
    BY <1>1, <1>2, TraceGrows
  <1>5. PICK a, b : a = From(start) /\ b = t
    OBVIOUS
  <1>6. \E m \in Nat : \E g \in [0 .. m -> Place] : Trace(g, m, a, b)
    BY <1>4, <1>5
  <1>7. \A m, g : Trace(g, m, a, b)' <=> Trace(g, m, a, b)
    BY TraceKept
  <1>8. From(start)' = a /\ Here' = b
    BY <1>3, <1>5
  <1> QED BY <1>6, <1>7, <1>8 DEF Traced

\* The same for the second walk.
LEMMA OnTraceKept ==
    ASSUME data' = data, start' = start, nameLen' = nameLen,
           NEW f, NEW n, NEW end, NEW k \in 0 .. n,
           Trace(f, n, From(start), end), Inside(end.pos), AtEnd(end),
           nameLen = end.length + 1,
           pos' = f[k].pos, next' = f[k].next, written' <= f[k].length
    PROVE  OnTrace(f, n, end)'
  <1>1. PICK a : a = From(start)
    OBVIOUS
  <1>2. Trace(f, n, a, end)'
    BY <1>1, TraceKept
  <1>3. From(start)' = a
    BY <1>1 DEF From
  <1>4. Inside(end.pos)' /\ AtEnd(end)'
    BY DEF Inside, AtEnd, Char, DataLen
  <1> QED BY <1>2, <1>3, <1>4 DEF OnTrace

\* The first walk came to an end, and the second begins.
LEMMA AllocateWalks == ASSUME Walks, Allocate PROVE Walks'
  <1>1. Numbers'
    <2>1. /\ phase = "measure" /\ data' = data /\ start' = start /\ written' = written
          /\ steps' = steps
          /\ endPos' \in {endPos, pos}
          /\ pos' \in {pos, start} /\ next' \in {next, start}
          /\ nameLen' \in {nameLen, nameLen + 1}
      BY DEF Allocate
    <2> QED BY <2>1 DEF Walks, Numbers, Questioning
  <1>2. phase' # "measure" /\ phase = "measure"
    BY DEF Allocate
  <1>3. ASSUME phase' = "write" PROVE Retraced'
    <2>1. /\ data' = data /\ start' = start /\ nameLen' = nameLen + 1
          /\ pos' = start /\ next' = start /\ written' = written
          /\ ~GivesUp /\ ~Measuring
      BY <1>3 DEF Allocate
    <2>2. Inside(pos) /\ next = pos /\ Char(pos) = 0
      <3>1. steps \in Int /\ DataLen \in Int
        BY <1>2, DnsAssumption DEF Walks, Numbers, Questioning, DataLen
      <3> QED BY <1>2, <2>1, <3>1 DEF GivesUp, Measuring
    <2>3. written = 0
      BY <1>2 DEF Walks
    <2>4. PICK n \in Nat : \E f \in [0 .. n -> Place] : Trace(f, n, From(start), Here)
      BY <1>2 DEF Walks, Traced
    <2>5. PICK f \in [0 .. n -> Place] : Trace(f, n, From(start), Here)
      BY <2>4
    <2>6. Here \in Place
      BY <1>2 DEF Walks, Numbers, Questioning, Here, Place
    <2>7. PICK end \in Place : end = Here
      BY <2>6
    <2>8. PICK a : a = From(start)
      OBVIOUS
    <2>9. Trace(f, n, a, end)'
      BY <2>1, <2>5, <2>7, <2>8, TraceKept
    <2>10. From(start)' = a
      BY <2>1, <2>8 DEF From
    <2>11. Inside(end.pos)' /\ AtEnd(end)'
      BY <2>1, <2>2, <2>7 DEF Inside, AtEnd, Char, DataLen, Here
    <2>12. nameLen' = end.length + 1
      BY <2>1, <2>7 DEF Here
    <2>13. f[0] = From(start) /\ 0 \in 0 .. n
      BY <2>5 DEF Trace
    <2>14. pos' = f[0].pos /\ next' = f[0].next /\ written' <= f[0].length
      BY <2>1, <2>3, <2>13 DEF From
    <2>15. OnTrace(f, n, end)'
      BY <2>9, <2>10, <2>11, <2>12, <2>13, <2>14 DEF OnTrace
    <2> QED BY <2>15 DEF Retraced
  <1> QED BY <1>1, <1>2, <1>3 DEF Walks

\* The second walk goes where the first one went, and has written no more.
LEMMA Follows ==
    ASSUME data \in Packets, NEW s \in Place, NEW t, Goes(s, t),
           pos = s.pos, next = s.next, written \in Int, written <= s.length,
           WritePointer \/ WriteLabel \/ WriteCharacter
    PROVE  pos' = t.pos /\ next' = t.next /\ written' <= t.length
  <1>1. t \in Place /\ s.length <= t.length /\ Inside(s.pos)
    BY AheadType DEF Goes
  <1>2. s.pos \in Int /\ s.length \in Int /\ t.length \in Int
    BY <1>1 DEF Place
  <1>3. Char(s.pos) \in Int
    BY <1>1, <1>2, CharType
  <1>4. CASE WritePointer
    <2>1. AtPointer(s) /\ pos' = Target(pos) /\ next' = Target(pos) /\ written' = written
      BY <1>4 DEF WritePointer, AtPointer
    <2>2. t = [pos |-> Target(s.pos), next |-> Target(s.pos), length |-> s.length]
      BY <2>1 DEF Goes, Ahead
    <2> QED BY <2>1, <2>2
  <1>5. CASE WriteLabel
    <2>1. /\ next = pos /\ ~AtPointer(s)
          /\ pos' = pos + 1 /\ next' = pos + Char(pos) + 1
          /\ written' = IF written = 0 THEN 0 ELSE written + 1
      BY <1>5 DEF WriteLabel, AtPointer
    <2>2. t = [pos |-> s.pos + 1, next |-> s.next + Char(s.pos) + 1, length |-> s.length + 1]
      BY <2>1 DEF Goes, Ahead
    <2>3. t.pos = s.pos + 1 /\ t.next = s.next + Char(s.pos) + 1 /\ t.length = s.length + 1
      BY <2>2
    <2>4. written' <= s.length + 1
      BY <1>2, <2>1
    <2> QED BY <2>1, <2>3, <2>4
  <1>6. CASE WriteCharacter
    <2>1. /\ next # pos /\ pos' = pos + 1 /\ next' = next
          /\ written' = written + Printed(Char(pos))
      BY <1>6 DEF WriteCharacter
    <2>2. t = [pos |-> s.pos + 1, next |-> s.next, length |-> s.length + Measured(Char(s.pos))]
      BY <2>1 DEF Goes, Ahead, AtPointer
    <2>3. /\ Printed(Char(s.pos)) <= Measured(Char(s.pos))
          /\ Printed(Char(s.pos)) \in Int /\ Measured(Char(s.pos)) \in Int
      BY <1>3 DEF Printed, Measured
    <2>4. t.length = s.length + Measured(Char(s.pos))
      BY <2>2
    <2>5. written' <= t.length
      BY <1>2, <2>1, <2>3, <2>4
    <2> QED BY <2>1, <2>2, <2>5
  <1> QED BY <1>4, <1>5, <1>6

\* It is on the trace, and where it has not come to the end, there is a place
\* behind.
LEMMA BeforeTheEnd ==
    ASSUME NEW n \in Nat, NEW f, NEW end, OnTrace(f, n, end), NEW k \in 0 .. n,
           pos = f[k].pos, next = f[k].next, ~(next = pos /\ Char(pos) = 0)
    PROVE  k \in 0 .. n - 1 /\ k + 1 \in 0 .. n /\ Goes(f[k], f[k + 1])
  <1>1. AtEnd(f[n])
    BY DEF OnTrace, Trace
  <1>2. k # n
    BY <1>1 DEF AtEnd
  <1>3. k \in 0 .. n - 1 /\ k + 1 \in 0 .. n
    BY <1>2
  <1> QED BY <1>3 DEF OnTrace, Trace

LEMMA WriteWalks ==
    ASSUME Walks, WritePointer \/ WriteLabel \/ WriteCharacter
    PROVE  Walks'
  <1>1. /\ phase = "write" /\ phase' = "write" /\ Writing
        /\ data' = data /\ start' = start /\ nameLen' = nameLen /\ endPos' = endPos
        /\ steps' = steps
    BY DEF WritePointer, WriteLabel, WriteCharacter, Writing
  <1>2. Retraced
    BY <1>1 DEF Walks
  <1>3. PICK n \in Nat, end \in Place : \E f \in [0 .. n -> Place] : OnTrace(f, n, end)
    BY <1>2 DEF Retraced
  <1>4. PICK f \in [0 .. n -> Place] : OnTrace(f, n, end)
    BY <1>3
  <1>5. PICK k \in 0 .. n : pos = f[k].pos /\ next = f[k].next /\ written <= f[k].length
    BY <1>4 DEF OnTrace
  <1>6. k \in 0 .. n - 1 /\ k + 1 \in 0 .. n /\ Goes(f[k], f[k + 1])
    BY <1>1, <1>4, <1>5, BeforeTheEnd DEF Writing
  <1>7. data \in Packets /\ written \in Int
    BY <1>1 DEF Walks, Numbers, Questioning
  <1>8. f[k] \in Place /\ f[k + 1] \in Place
    BY <1>6
  <1>9. pos' = f[k + 1].pos /\ next' = f[k + 1].next /\ written' <= f[k + 1].length
    BY <1>5, <1>6, <1>7, <1>8, Follows
  <1>10. OnTrace(f, n, end)'
    BY <1>1, <1>4, <1>6, <1>9, OnTraceKept DEF OnTrace
  <1>11. Retraced'
    BY <1>10 DEF Retraced
  <1>12. pos' \in Int /\ next' \in Int
    BY <1>8, <1>9 DEF Place
  <1>13. written' \in Int
    BY <1>7, PrintedType DEF WritePointer, WriteLabel, WriteCharacter
  <1>14. Numbers'
    BY <1>1, <1>12, <1>13 DEF Walks, Numbers, Questioning
  <1> QED BY <1>1, <1>11, <1>14 DEF Walks

\* The first walk stays on its trace: a pointer whose second octet is missing
\* ends it, and the name with it.
LEMMA MeasureWalks ==
    ASSUME Walks, MeasurePointer \/ MeasureLabel \/ MeasureCharacter
    PROVE  Walks'
  <1> DEFINE t == [pos |-> pos', next |-> next', length |-> nameLen']
  <1>1. /\ phase = "measure" /\ Measuring /\ data \in Packets
        /\ data' = data /\ start' = start /\ written' = written /\ written = 0
        /\ phase' \in {"measure", "noname"}
    BY DEF MeasurePointer, MeasureLabel, MeasureCharacter, Measuring, Walks, Numbers
  <1>2. pos \in Int /\ next \in Int /\ nameLen \in Int /\ start \in Int /\ endPos \in Int
    BY <1>1 DEF Walks, Numbers, Questioning
  <1>3. Here \in Place /\ Here.pos = pos /\ Here.next = next /\ Here.length = nameLen
    BY <1>2 DEF Here, Place
  <1>4. Inside(Here.pos) /\ ~AtEnd(Here) /\ (AtPointer(Here) <=> next = pos /\ IsPointer(Char(pos)))
    BY <1>1, <1>3 DEF Measuring, AtEnd, AtPointer
  <1>5. ASSUME phase' = "measure" PROVE Goes(Here, t)
    <2>1. CASE MeasurePointer
      <3>1. /\ Inside(pos + 1) /\ AtPointer(Here)
            /\ pos' = Target(pos) /\ next' = Target(pos) /\ nameLen' = nameLen
        BY <1>4, <1>5, <2>1 DEF MeasurePointer
      <3>2. t = Ahead(Here)
        BY <1>3, <3>1 DEF Ahead
      <3> QED BY <1>3, <1>4, <3>1, <3>2 DEF Goes
    <2>2. CASE MeasureLabel
      <3>1. /\ ~AtPointer(Here) /\ next = pos
            /\ pos' = pos + 1 /\ next' = next + Char(pos) + 1 /\ nameLen' = nameLen + 1
        BY <1>4, <2>2 DEF MeasureLabel
      <3>2. t = Ahead(Here)
        BY <1>3, <3>1 DEF Ahead
      <3> QED BY <1>3, <1>4, <3>1, <3>2 DEF Goes
    <2>3. CASE MeasureCharacter
      <3>1. /\ ~AtPointer(Here) /\ next # pos
            /\ pos' = pos + 1 /\ next' = next /\ nameLen' = nameLen + Measured(Char(pos))
        BY <1>4, <2>3 DEF MeasureCharacter
      <3>2. t = Ahead(Here)
        BY <1>3, <3>1 DEF Ahead
      <3> QED BY <1>3, <1>4, <3>1, <3>2 DEF Goes
    <2> QED BY <2>1, <2>2, <2>3
  <1>6. phase' = "measure" => Traced'
    BY <1>1, <1>5, TracedStep
  <1>7. pos' \in Int /\ next' \in Int /\ nameLen' \in Int
    <2>1. CASE phase' = "measure"
      <3>1. t \in Place
        BY <1>1, <1>3, <1>5, <2>1, AheadType
      <3>2. t.pos = pos' /\ t.next = next' /\ t.length = nameLen'
        OBVIOUS
      <3> HIDE DEF t
      <3> QED BY <3>1, <3>2 DEF Place
    <2>2. CASE phase' = "noname"
      <3>1. pos' = pos /\ next' = next /\ nameLen' = nameLen
        BY <1>1, <2>2 DEF MeasurePointer, MeasureLabel, MeasureCharacter
      <3> QED BY <1>2, <3>1
    <2> QED BY <1>1, <2>1, <2>2
  <1>8. endPos' \in Int /\ steps' \in Int
    <2>1. steps \in Int
      BY <1>1 DEF Walks, Numbers, Questioning
    <2> QED BY <1>2, <2>1 DEF Stepped, MeasurePointer, MeasureLabel, MeasureCharacter
  <1>9. Numbers'
    BY <1>1, <1>2, <1>7, <1>8 DEF Numbers
  <1> QED BY <1>1, <1>6, <1>9 DEF Walks

LEMMA WalksStep == Inv /\ Walks /\ [Next]_vars => Walks'
  <1> SUFFICES ASSUME Inv, Walks, [Next]_vars PROVE Walks'
    OBVIOUS
  <1>1. CASE ReadHeader
    BY <1>1 DEF ReadHeader, Walks, Numbers, Questioning, walk, HeaderSize
  <1>2. CASE EnterName
    BY <1>2, EnterNameWalks
  <1>3. CASE MeasurePointer \/ MeasureLabel \/ MeasureCharacter
    BY <1>3, MeasureWalks
  <1>4. CASE Allocate
    BY <1>4, AllocateWalks
  <1>5. CASE WritePointer \/ WriteLabel \/ WriteCharacter
    BY <1>5, WriteWalks
  <1>6. CASE QuestionRead
    BY <1>6 DEF QuestionRead, Walks, Numbers, Questioning, walk
  <1>7. CASE QuestionWithoutName \/ QuestionTruncated \/ QuestionsDone \/ RecordWithoutName
    BY <1>7 DEF QuestionWithoutName, QuestionTruncated, QuestionsDone, RecordWithoutName,
                AfterQuestions, Walks, Numbers, Questioning, walk
  <1>8. CASE AnswerFails \/ AnswersDone \/ Report \/ Crash \/ Free \/ RecordNamed \/ NextRecord
    BY <1>8 DEF AnswerFails, AnswersDone, Report, Crash, Free, RecordNamed, NextRecord,
                Walks, Numbers, Questioning
  <1>9. CASE AnswerA \/ AnswerAWrongFormat \/ AnswerSkipped
    <2>1. phase' = "answers" /\ name' # NoName /\ data' = data
      <3>1. phase = "record" /\ phase' = "answers" /\ name' = name /\ data' = data
        BY <1>9 DEF AnswerA, AnswerAWrongFormat, AnswerSkipped, ReadRecord
      <3>2. name # NoName
        BY <3>1, RecordHasName
      <3> QED BY <3>1, <3>2
    <2> QED BY <2>1 DEF Walks, Numbers, Questioning
  <1>10. CASE UNCHANGED vars
    <2>1. UNCHANGED <<data, phase, pos, next, start, endPos, nameLen, written, steps, name>>
      BY <1>10 DEF vars, walk, found
    <2>2. Traced => Traced'
      <3>1. \A f, n, a, b : Trace(f, n, a, b)' <=> Trace(f, n, a, b)
        BY <2>1, TraceKept
      <3>2. PICK a, b : a = From(start) /\ b = Here
        OBVIOUS
      <3>3. From(start)' = a /\ Here' = b
        BY <2>1, <3>2 DEF From, Here
      <3> QED BY <3>1, <3>2, <3>3 DEF Traced
    <2>3. ASSUME Retraced PROVE Retraced'
      <3>1. PICK n \in Nat, end \in Place : \E f \in [0 .. n -> Place] : OnTrace(f, n, end)
        BY <2>3 DEF Retraced
      <3>2. PICK f \in [0 .. n -> Place] : OnTrace(f, n, end)
        BY <3>1
      <3>3. PICK k \in 0 .. n : pos = f[k].pos /\ next = f[k].next /\ written <= f[k].length
        BY <3>2 DEF OnTrace
      <3>4. OnTrace(f, n, end)'
        BY <2>1, <3>2, <3>3, OnTraceKept DEF OnTrace
      <3> QED BY <3>4 DEF Retraced
    <2>4. Numbers'
      BY <2>1 DEF Walks, Numbers
    <2> QED BY <2>1, <2>2, <2>3, <2>4 DEF Walks
  <1> QED
    BY <1>1, <1>2, <1>3, <1>4, <1>5, <1>6, <1>7, <1>8, <1>9, <1>10 DEF Next

LEMMA WalksHolds == Spec => []Walks
  BY WalksInit, WalksStep, InvHolds, PTL DEF Spec

LEMMA WalksFit == Walks => SecondWalkFits
  <1> SUFFICES ASSUME Walks, phase = "write"
               PROVE  /\ written < nameLen
                      /\ Inside(pos)
                      /\ next = pos /\ IsPointer(Char(pos)) => Inside(pos + 1)
    BY DEF SecondWalkFits
  <1>1. Retraced
    BY DEF Walks
  <1>2. PICK n \in Nat, end \in Place : \E f \in [0 .. n -> Place] : OnTrace(f, n, end)
    BY <1>1 DEF Retraced
  <1>3. PICK f \in [0 .. n -> Place] : OnTrace(f, n, end)
    BY <1>2
  <1>4. PICK k \in 0 .. n : pos = f[k].pos /\ next = f[k].next /\ written <= f[k].length
    BY <1>3 DEF OnTrace
  <1>5. written < nameLen
    <2>1. f[k].length <= end.length /\ nameLen = end.length + 1
      BY <1>3, <1>4 DEF OnTrace, Trace
    <2>2. f[k].length \in Int /\ end.length \in Int /\ written \in Int
      BY <1>4 DEF Place, Walks, Numbers, Questioning
    <2> QED BY <1>4, <2>1, <2>2
  <1>6. CASE next = pos /\ Char(pos) = 0
    <2>1. Inside(pos)
      <3>1. CASE k = n
        BY <1>3, <1>4, <3>1 DEF OnTrace, Trace
      <3>2. CASE k # n
        <4>1. k \in 0 .. n - 1
          BY <3>2
        <4> QED BY <1>3, <1>4, <4>1 DEF OnTrace, Trace, Goes
      <3> QED BY <3>1, <3>2
    <2> QED BY <1>5, <1>6, <2>1 DEF IsPointer
  <1>7. CASE ~(next = pos /\ Char(pos) = 0)
    <2>1. Goes(f[k], f[k + 1])
      BY <1>3, <1>4, <1>7, BeforeTheEnd
    <2> QED BY <1>4, <1>5, <2>1 DEF Goes, AtPointer
  <1> QED BY <1>6, <1>7

\* The second walk (Dnsparser.cc:208), which looks at nothing but the name,
\* stays within the packet, and what it writes, the end of the string included,
\* fits into what the first one measured, although the two disagree on which
\* characters are printable (192-195 and 227-241).
THEOREM SecondWalkFitsHolds == Spec => []SecondWalkFits
  BY WalksHolds, WalksFit, PTL
==============================================================================
