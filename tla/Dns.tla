-------------------------------- MODULE Dns --------------------------------
(***************************************************************************)
(* src/app/dns/Dnsparser.cc: processDns on one packet from or to port 53.  *)
(* The parser keeps nothing between packets.  A packet is the sequence of  *)
(* its octets, read as the signed characters of `char *data'.              *)
(*                                                                         *)
(* readRRname walks over a name twice: the first walk measures it, the     *)
(* second writes it into memory of that size.  Memory is a set of blocks,  *)
(* numbered as they are allocated; of a name only the length is kept.      *)
(*                                                                         *)
(* A packet need not have a question.  DnsInfo::name is then what the      *)
(* stack holds: a pointer that is NULL, or one that is not.                *)
(***************************************************************************)
EXTENDS Integers, SequencesExt

CONSTANT Packets    \* the packets, with at least a header

HeaderSize == 12

ASSUME DnsAssumption ==
    \A p \in Packets : p \in Seq(-128 .. 127) /\ Len(p) >= HeaderSize

VARIABLES
    data,       \* the packet
    isResponse, \* it comes from port 53
    phase,      \* where processDns is
    count,      \* questions, then answers, still to read
    pos,        \* the reader's place in the packet
    next,       \* readRRname: where the label ends
    endPos,     \* readRRname: where the name ends in the packet, 0 if unknown
    steps,      \* readRRname: steps of the first walk
    nameLen,    \* readRRname: what the first walk measured
    written,    \* readRRname: what the second walk has written
    start,      \* readRRname: *now_pos; parseRR: rr_start
    blocks,     \* the memory that is allocated
    used,       \* how many blocks there have been
    name,       \* DnsInfo::name, then the name of the records
    queries,    \* the names of DnsInfo::queries
    answers,    \* the names and the data of DnsInfo::answers
    reported    \* the names that the callbacks were called with

walk == <<next, endPos, steps, nameLen, written, start>>
memory == <<blocks, used>>
found == <<name, queries, answers, reported>>
vars == <<data, isResponse, phase, count, pos, walk, memory, found>>

\* A name is a block and its length.
NoName == [block |-> 0, length |-> 0]

\* A pointer that nothing was assigned to, and that is not NULL.
Unset == [block |-> -1, length |-> 0]

DataLen == Len(data)
Char(p) == data[p + 1]
Inside(p) == p >= 0 /\ p < DataLen
Short(p) == (Char(p) * 256 + Char(p + 1)) % 65536

\* rcode, qdcount and ancount.
Refused == Char(3) % 16 > 5
Questions == Short(4)
Answers == Short(6)

\* Some question sets DnsInfo::name.
Asked == Questions > 0

\* (c & 0xc0) == 0xc0 of a signed character.
IsPointer(c) == c < 0 /\ c >= -64

\* Where a pointer leads: counted from the questions, not from the header.  So
\* it is in the name of a record too, which is counted from the record: only
\* the first record of a packet without a question has its name read.
Target(p) == HeaderSize + (Char(p) + 64) * 256 + Char(p + 1)

\* Defect: the first walk takes a space for a printable character.
MeasuredShort(c) == IF c >= 32 /\ c <= 122 /\ c # 92 THEN 1 ELSE 4

\* What the first walk counts for a character, and what the second writes.
Measured(c) == IF c >= 33 /\ c <= 122 /\ c # 92 THEN 1 ELSE 4
Printed(c) == IF c >= 33 /\ c <= 126 /\ c # 92 THEN 1 ELSE 4

----------------------------------------------------------------------------
Init ==
    /\ data \in Packets
    /\ isResponse \in BOOLEAN
    /\ phase = "header"
    /\ count = 0 /\ pos = 0
    /\ next = 0 /\ endPos = 0 /\ steps = 0 /\ nameLen = 0 /\ written = 0 /\ start = 0
    /\ blocks = {} /\ used = 0
    /\ name = NoName
    /\ queries = <<>> /\ answers = <<>> /\ reported = <<>>

\* processDns up to parserQuestions.
ReadHeader ==
    /\ phase = "header"
    /\ phase' = IF Refused THEN "done" ELSE "questions"
    /\ count' = Questions
    /\ pos' = HeaderSize
    /\ UNCHANGED <<data, isResponse, walk, memory, found>>

----------------------------------------------------------------------------
\* readRRname

\* parserQuestions calls it for each question, and parseRR as long as it has no
\* name.
EnterName ==
    /\ count > 0
    /\ phase = "questions" \/ (phase = "answers" /\ name = NoName)
    /\ phase' = "measure"
    /\ start' = pos
    /\ next' = pos
    /\ endPos' = 0 /\ steps' = 0 /\ nameLen' = 0 /\ written' = 0
    /\ UNCHANGED <<data, isResponse, count, pos, memory, found>>

Measuring ==
    /\ phase = "measure"
    /\ Inside(pos)
    /\ ~(next = pos /\ Char(pos) = 0)
    /\ steps < 2 * DataLen

\* Defect: a pointer is no step.
StepsOverLabels == IF next = pos /\ IsPointer(Char(pos)) THEN steps ELSE steps + 1

Stepped == steps + 1

MeasurePointer ==
    /\ Measuring
    /\ next = pos /\ IsPointer(Char(pos))
    /\ steps' = Stepped
    /\ IF Inside(pos + 1)
       THEN /\ endPos' = IF endPos = 0 THEN pos + 1 ELSE endPos
            /\ pos' = Target(pos)
            /\ next' = pos'
            /\ UNCHANGED phase
       ELSE /\ phase' = "noname"
            /\ UNCHANGED <<pos, next, endPos>>
    /\ UNCHANGED <<data, isResponse, count, nameLen, written, start, memory, found>>

MeasureLabel ==
    /\ Measuring
    /\ next = pos /\ ~IsPointer(Char(pos))
    /\ steps' = Stepped
    /\ nameLen' = nameLen + 1
    /\ next' = next + Char(pos) + 1
    /\ pos' = pos + 1
    /\ UNCHANGED <<data, isResponse, phase, count, endPos, written, start, memory, found>>

MeasureCharacter ==
    /\ Measuring
    /\ next # pos
    /\ steps' = Stepped
    /\ nameLen' = nameLen + Measured(Char(pos))
    /\ pos' = pos + 1
    /\ UNCHANGED <<data, isResponse, phase, count, next, endPos, written, start, memory, found>>

\* Defect: the walk is only given up for its steps.
TooManySteps == steps >= 2 * DataLen

GivesUp == steps >= 2 * DataLen \/ ~Inside(pos)

\* Behind the first loop: the memory for the name, and back to its start.
Allocate ==
    /\ phase = "measure" /\ ~Measuring
    /\ endPos' = IF endPos = 0 THEN pos ELSE endPos
    /\ IF GivesUp
       THEN /\ phase' = "noname"
            /\ UNCHANGED <<pos, next, nameLen, memory>>
       ELSE /\ phase' = "write"
            /\ nameLen' = nameLen + 1
            /\ used' = used + 1
            /\ blocks' = blocks \cup {used'}
            /\ pos' = start
            /\ next' = start
    /\ UNCHANGED <<data, isResponse, count, steps, written, start, found>>

Writing == phase = "write" /\ ~(next = pos /\ Char(pos) = 0)

WritePointer ==
    /\ Writing
    /\ next = pos /\ IsPointer(Char(pos))
    /\ pos' = Target(pos)
    /\ next' = pos'
    /\ UNCHANGED <<data, isResponse, phase, count, endPos, steps, nameLen, written, start, memory, found>>

\* A period except for the first time.
WriteLabel ==
    /\ Writing
    /\ next = pos /\ ~IsPointer(Char(pos))
    /\ written' = IF written = 0 THEN 0 ELSE written + 1
    /\ next' = pos + Char(pos) + 1
    /\ pos' = pos + 1
    /\ UNCHANGED <<data, isResponse, phase, count, endPos, steps, nameLen, start, memory, found>>

WriteCharacter ==
    /\ Writing
    /\ next # pos
    /\ written' = written + Printed(Char(pos))
    /\ pos' = pos + 1
    /\ UNCHANGED <<data, isResponse, phase, count, next, endPos, steps, nameLen, start, memory, found>>

----------------------------------------------------------------------------
\* parserQuestions

\* Defect: the position that tells of the failure is not looked at.
AfterAnyQuestions(ok) == IF isResponse THEN "answers" ELSE "report"

\* What follows the last question, or the one that failed: a request is done
\* with, and a response reads its answers only if all questions were read.
AfterQuestions(ok) == IF isResponse /\ ok THEN "answers" ELSE "report"

\* readRRname returned NULL.
QuestionWithoutName ==
    /\ phase = "noname" /\ Asked
    /\ phase' = AfterQuestions(FALSE)
    /\ count' = Answers
    /\ pos' = 0
    /\ name' = NoName
    /\ UNCHANGED <<data, isResponse, walk, memory, queries, answers, reported>>

\* It returned a name, but there is no type and class behind it.
Truncated(p) == p + 2 >= DataLen

QuestionTruncated ==
    /\ phase = "write" /\ ~Writing /\ Asked
    /\ Truncated(endPos + 1)
    /\ phase' = AfterQuestions(FALSE)
    /\ count' = Answers
    /\ pos' = 0
    /\ name' = [block |-> used, length |-> written]
    /\ blocks' = blocks \ {used}
    /\ UNCHANGED <<data, isResponse, walk, used, queries, answers, reported>>

QuestionRead ==
    /\ phase = "write" /\ ~Writing /\ Asked
    /\ ~Truncated(endPos + 1)
    /\ phase' = "questions"
    /\ count' = count - 1
    /\ pos' = endPos + 1 + 4
    /\ name' = [block |-> used, length |-> written]
    /\ queries' = Append(queries, name')
    /\ UNCHANGED <<data, isResponse, walk, memory, answers, reported>>

\* Without a question DnsInfo::name holds anything.
QuestionsDone ==
    /\ phase = "questions" /\ count = 0
    /\ phase' = AfterQuestions(TRUE)
    /\ count' = Answers
    /\ name' \in IF Asked THEN {name} ELSE {NoName, Unset}
    /\ UNCHANGED <<data, isResponse, pos, walk, memory, queries, answers, reported>>

----------------------------------------------------------------------------
\* parseRRset and parseRR.  The name of a record is taken for two octets, and
\* to be the name of the question; without a question it is the name of the
\* first record, unless DnsInfo::name happens not to be NULL.

\* "Bad rr name".
RecordWithoutName ==
    /\ phase = "noname" /\ ~Asked
    /\ phase' = "report"
    /\ pos' = 0
    /\ UNCHANGED <<data, isResponse, count, walk, memory, found>>

\* The name that was read is the name of all records; nobody frees it.
RecordNamed ==
    /\ phase = "write" /\ ~Writing /\ ~Asked
    /\ phase' = "record"
    /\ pos' = endPos + 1
    /\ name' = [block |-> used, length |-> written]
    /\ UNCHANGED <<data, isResponse, count, walk, memory, queries, answers, reported>>

NextRecord ==
    /\ phase = "answers" /\ count > 0
    /\ name # NoName
    /\ phase' = "record"
    /\ start' = pos
    /\ pos' = pos + 2
    /\ UNCHANGED <<data, isResponse, count, next, endPos, steps, nameLen, written, memory, found>>

\* The record's fields are in the packet, and so is, by the code's count, its
\* data.
RecordAt ==
    /\ pos + 10 <= DataLen
    /\ start + 10 + Short(pos + 8) <= DataLen

RecordType == Short(pos)
DataLength == Short(pos + 8)
Behind == pos + (IF RecordType = 41 THEN 2 ELSE 10) + DataLength

AnswerFails ==
    /\ phase = "record" /\ ~RecordAt
    /\ phase' = "report"
    /\ pos' = 0
    /\ UNCHANGED <<data, isResponse, count, walk, memory, found>>

ReadRecord ==
    /\ phase = "record" /\ RecordAt
    /\ phase' = "answers"
    /\ count' = count - 1
    /\ pos' = Behind
    /\ UNCHANGED <<data, isResponse, walk, name, queries, reported>>

\* A record of type A: its address is written into a block of its own.
AnswerA ==
    /\ ReadRecord
    /\ RecordType = 1 /\ DataLength = 4
    /\ used' = used + 1
    /\ blocks' = blocks \cup {used'}
    /\ answers' = Append(answers, [name |-> name, data |-> used'])

\* Defect: the block is not freed.
AnswerAWrongFormatKept ==
    /\ ReadRecord
    /\ RecordType = 1 /\ DataLength # 4
    /\ used' = used + 1
    /\ blocks' = blocks \cup {used'}
    /\ answers' = Append(answers, [name |-> name, data |-> 0])

\* A() frees its block and returns NULL, and the record is an answer all the
\* same.
AnswerAWrongFormat ==
    /\ ReadRecord
    /\ RecordType = 1 /\ DataLength # 4
    /\ answers' = Append(answers, [name |-> name, data |-> 0])
    /\ UNCHANGED memory

\* A record of another type is skipped.
AnswerSkipped ==
    /\ ReadRecord
    /\ RecordType # 1
    /\ UNCHANGED <<memory, answers>>

AnswersDone ==
    /\ phase = "answers" /\ count = 0
    /\ phase' = "report"
    /\ UNCHANGED <<data, isResponse, count, pos, walk, memory, found>>

----------------------------------------------------------------------------
\* The last name, or the empty one.
LastName == IF queries = <<>> THEN NoName ELSE Last(queries)
LastAnswer == IF answers = <<>> THEN NoName ELSE Last(answers).name

NamesOf(s) == {s[k].block : k \in DOMAIN s}
DataOf(s) == {s[k].data : k \in DOMAIN s}

\* The callbacks; a response is not reported without a name, and a name that
\* was never set may read like any.
Report ==
    /\ phase = "report"
    /\ 0 \notin DataOf(answers)
    /\ phase' = "free"
    /\ reported' \in IF ~isResponse THEN {<<LastName>>}
                     ELSE IF LastAnswer = Unset THEN {<<>>, <<Unset>>}
                     ELSE {IF LastAnswer.length = 0 THEN <<>> ELSE <<LastAnswer>>}
    /\ UNCHANGED <<data, isResponse, count, pos, walk, memory, name, queries, answers>>

\* strlen of an answer's data that is NULL ends the process; that of a name
\* that was never set may.
Crash ==
    /\ phase = "report"
    /\ \E k \in DOMAIN answers : answers[k].data = 0 \/ answers[k].name = Unset
    /\ phase' = "crashed"
    /\ UNCHANGED <<data, isResponse, count, pos, walk, memory, found>>

Free ==
    /\ phase = "free"
    /\ phase' = "done"
    /\ blocks' = blocks \ (NamesOf(queries) \cup DataOf(answers))
    /\ UNCHANGED <<data, isResponse, count, pos, walk, used, found>>

----------------------------------------------------------------------------
Next ==
    \/ ReadHeader \/ EnterName
    \/ MeasurePointer \/ MeasureLabel \/ MeasureCharacter \/ Allocate
    \/ WritePointer \/ WriteLabel \/ WriteCharacter
    \/ QuestionWithoutName \/ QuestionTruncated \/ QuestionRead \/ QuestionsDone
    \/ RecordWithoutName \/ RecordNamed \/ NextRecord
    \/ AnswerFails \/ AnswerA \/ AnswerAWrongFormat \/ AnswerSkipped \/ AnswersDone
    \/ Report \/ Crash \/ Free

Spec == Init /\ [][Next]_vars

\* processDns runs on in its worker.
FairSpec == Spec /\ WF_vars(Next)

----------------------------------------------------------------------------
\* The second walk has no bound of its own (Dnsparser.cc:208).  It stays within
\* the packet, wherever labels and pointers lead it, because the first walk came
\* to an end; and it writes no more than that measured, the end of the string
\* included, although they disagree on which characters are printable (192-195
\* and 227-241).
SecondWalkFits ==
    phase = "write" =>
        /\ written < nameLen
        /\ Inside(pos)
        /\ next = pos /\ IsPointer(Char(pos)) => Inside(pos + 1)

\* The name that a packet without a question gave its records: parseRR has it
\* allocated, and nothing frees it.
RecordName == IF Asked \/ name.block <= 0 THEN {} ELSE {name.block}

\* Every block has one owner who will free it, a question its name and an answer
\* its data, whichever of them could not be read (77-80, 129-130, 147-153), also
\* when A() has freed its own and the answer has none (336-341); and all are
\* freed in the end.  Only the name of a record has no owner.
BlocksOwned ==
    LET current == IF phase = "write" THEN {used} ELSE {}
        owned == NamesOf(queries) \cup (DataOf(answers) \ {0}) \cup current
    IN  /\ blocks = (IF phase = "done" THEN {} ELSE owned) \cup RecordName
        /\ owned \cap RecordName = {}
        /\ NamesOf(queries) \cap (DataOf(answers) \cup current) = {}
        /\ \A i, j \in DOMAIN queries : queries[i].block = queries[j].block => i = j
        /\ \A i, j \in DOMAIN answers :
               answers[i].data = answers[j].data /\ answers[i].data # 0 => i = j

\* What is reported, or held by an answer, is a name that is still there: of a
\* question, not of the one that failed (52-55, 147-152, 256), or of a record;
\* a request without a question is reported with the empty name.  It is not so
\* only when the code goes on with a name that was never set.
NamesAlive ==
    name # Unset /\ phase # "done" =>
        LET alive == NamesOf(queries) \cup RecordName IN
        /\ \A k \in DOMAIN answers : answers[k].name.block \in alive
        /\ \A k \in DOMAIN reported :
               \/ reported[k].block \in alive
               \/ ~isResponse /\ queries = <<>> /\ reported[k] = NoName

\* processDns returns, even from a name whose pointers lead back to it (170),
\* unless it ends the process.
Returns == <>(phase \in {"done", "crashed"})
============================================================================
