------------------------------ MODULE DayProofs -----------------------------
(***************************************************************************)
(* Proofs about the day of a kindergarten, for every number of children,   *)
(* requests and days.                                                      *)
(*                                                                         *)
(* The register and the notes rest on one invariant: requests never hold a *)
(* lock of one child at a time, so that what a request found of the        *)
(* children it locked is still all there is when it writes; a child that   *)
(* notes are saved for is in the group they are saved for; and a set of    *)
(* questions that notes have locked is there and active.                   *)
(*                                                                         *)
(* Of meals: their types; one order a day, whoever orders; what has been   *)
(* ordered is served and an absence that is approved is not.               *)
(***************************************************************************)
EXTENDS Meals, DailyNotes, FiniteSetTheorems, TLAPS

-----------------------------------------------------------------------------
(* The register and the notes                                              *)

Row == MarksSaving \cup NotesSaving \cup {None}

(* What a save of marks has found stays all there is while it has the lock.*)
MarksKnow(row) ==
  row # None /\ row.op = "marks" /\ row.locked # {} =>
    /\ row.locked = DOMAIN row.wanted
    /\ row.active = UNION {activeMarks(c, row.date) : c \in row.locked}

(* And so do what a save of notes has seen of the children and the sets.   *)
NotesKnow(row) ==
  row # None /\ row.op = "notes" =>
    /\ row.stage = "begun" => row.locked = {}
    /\ row.stage # "begun" =>
         /\ row.locked = {p[1] : p \in DOMAIN row.wanted}
         /\ \A c \in row.locked : member[c] = row.group
    /\ row.stage # "sets" => row.shared = {}
    /\ \A s \in row.shared : set[s] # None /\ set[s].active

LocksApart ==
  \A t, u \in Savers : t # u /\ saving[t] # None /\ saving[u] # None =>
    saving[t].locked \cap saving[u].locked = {}

OneMark ==
  \A c \in Children : \A d \in Dates : \A m, n \in activeMarks(c, d) : m = n

RegisterInv ==
  /\ NotesTypeOK
  /\ LocksApart
  /\ \A t \in Savers : MarksKnow(saving[t]) /\ NotesKnow(saving[t])
  /\ OneMark
  /\ AnswersKeepTheirQuestions

LEMMA InitRegister == NotesInit => RegisterInv
<1> SUFFICES ASSUME NotesInit PROVE RegisterInv
  OBVIOUS
<1>1. NotesTypeOK
  BY RegisterAssumption DEF NotesInit, RegisterInit, NotesTypeOK, RegisterTypeOK, Dates
<1>2. \A t \in Savers : saving[t] = None
  BY DEF NotesInit, RegisterInit
<1>3. \A c \in Children : \A d \in Dates : activeMarks(c, d) = {}
  BY DEF NotesInit, RegisterInit, activeMarks
<1>4. AnswersKeepTheirQuestions
  BY DEF NotesInit, AnswersKeepTheirQuestions
<1> QED
  BY <1>1, <1>2, <1>3, <1>4 DEF RegisterInv, LocksApart, MarksKnow, NotesKnow, OneMark

LEMMA SavingRow ==
  ASSUME RegisterInv, NEW t \in Savers
  PROVE  /\ saving[t] \in Row /\ MarksKnow(saving[t]) /\ NotesKnow(saving[t])
         /\ saving[t] # None => saving[t].locked \subseteq Children
BY DEF RegisterInv, NotesTypeOK, Row, MarksSaving, NotesSaving

(* A request that reads, locks, or is given up.                            *)
LEMMA SaverStep ==
  ASSUME RegisterInv, NEW t \in Savers, NEW row \in Row,
         saving' = [saving EXCEPT ![t] = row],
         unchangedRegister, UNCHANGED <<set, question, answer>>,
         MarksKnow(row), NotesKnow(row),
         row # None => \A u \in Savers \ {t} :
           saving[u] # None => row.locked \cap saving[u].locked = {}
  PROVE  RegisterInv'
<1>1. /\ saving' \in [Savers -> Row]
      /\ \A u \in Savers : saving'[u] = IF u = t THEN row ELSE saving[u]
  BY DEF RegisterInv, NotesTypeOK, Row
<1>2. NotesTypeOK'
  BY <1>1 DEF RegisterInv, NotesTypeOK, RegisterTypeOK, unchangedRegister, Row
<1>3. LocksApart'
  BY <1>1 DEF RegisterInv, LocksApart
<1>4. ASSUME NEW u \in Savers PROVE (MarksKnow(saving[u]) /\ NotesKnow(saving[u]))'
  <2>1. MarksKnow(saving'[u]) /\ NotesKnow(saving'[u])
    BY <1>1 DEF RegisterInv
  <2> QED  BY <2>1 DEF MarksKnow, NotesKnow, activeMarks, unchangedRegister
<1>5. OneMark' /\ AnswersKeepTheirQuestions'
  BY DEF RegisterInv, OneMark, activeMarks, AnswersKeepTheirQuestions, unchangedRegister
<1> QED  BY <1>2, <1>3, <1>4, <1>5 DEF RegisterInv

LEMMA BeginMarksRegister ==
  ASSUME RegisterInv, NEW t \in Savers, NEW g \in Groups, NEW d \in Dates,
         NEW some \in (SUBSET Children) \ {{}}, NEW wanted \in [some -> Markings],
         BeginMarks(t, g, d, wanted), UNCHANGED <<set, question, answer>>
  PROVE  RegisterInv'
<1> PICK row : row = [op |-> "marks", group |-> g, date |-> d, wanted |-> wanted,
                      locked |-> {}, active |-> {}]
  OBVIOUS
<1>1. row \in MarksSaving /\ row.locked = {} /\ row.op = "marks"
  BY DEF MarksSaving
<1>2. row \in Row /\ MarksKnow(row) /\ NotesKnow(row)
  BY <1>1 DEF Row, MarksKnow, NotesKnow
<1>3. saving' = [saving EXCEPT ![t] = row] /\ unchangedRegister
  BY DEF BeginMarks, unchangedRegister
<1> QED  BY <1>1, <1>2, <1>3, SaverStep

LEMMA LockMarkedRegister ==
  ASSUME RegisterInv, NEW t \in Savers, LockMarked(t), UNCHANGED <<set, question, answer>>
  PROVE  RegisterInv'
<1> PICK old : old = saving[t]
  OBVIOUS
<1>1. old \in MarksSaving
  BY SavingRow DEF LockMarked, Row, NotesSaving
<1> PICK children : children = DOMAIN old.wanted
  OBVIOUS
<1> PICK found : found = UNION {activeMarks(c, old.date) : c \in children}
  OBVIOUS
<1> PICK row : row = [old EXCEPT !.locked = children, !.active = found]
  OBVIOUS
<1>2. children \subseteq Children
  BY <1>1 DEF MarksSaving
<1>3. /\ row \in MarksSaving /\ row.op = "marks" /\ row.locked = children
      /\ row.date = old.date /\ row.wanted = old.wanted
      /\ row.active = found
  <2>1. found \subseteq Marks
    BY DEF activeMarks
  <2> QED  BY <1>1, <1>2, <2>1 DEF MarksSaving
<1>4. row \in Row /\ MarksKnow(row) /\ NotesKnow(row)
  BY <1>3 DEF Row, MarksKnow, NotesKnow
<1>5. /\ saving' = [saving EXCEPT ![t] = row] /\ unchangedRegister
      /\ \A c \in children : ~lockedByOther(t, c)
  <2>1. saving' = [saving EXCEPT ![t].locked = children, ![t].active = found]
    BY DEF LockMarked
  <2>2. saving' = [saving EXCEPT ![t] = row]
    BY <2>1
  <2> QED  BY <2>2 DEF LockMarked, unchangedRegister
<1>6. \A u \in Savers \ {t} : saving[u] # None => row.locked \cap saving[u].locked = {}
  BY <1>3, <1>5 DEF lockedByOther
<1> QED  BY <1>4, <1>5, <1>6, SaverStep

LEMMA AbandonRegister ==
  ASSUME RegisterInv, NEW t \in Savers, Abandon(t), UNCHANGED <<set, question, answer>>
  PROVE  RegisterInv'
<1>1. None \in Row /\ MarksKnow(None) /\ NotesKnow(None)
  BY DEF Row, MarksKnow, NotesKnow
<1> QED  BY <1>1, SaverStep DEF Abandon, unchangedRegister

LEMMA BeginNotesRegister ==
  ASSUME RegisterInv, NEW t \in Savers, NEW g \in Groups, NEW d \in Dates,
         NEW asked \in (SUBSET (Children \X Questions)) \ {{}},
         NEW wanted \in [asked -> Given \cup {None}], BeginNotes(t, g, d, wanted)
  PROVE  RegisterInv'
<1> PICK row : row = [op |-> "notes", group |-> g, date |-> d, wanted |-> wanted,
                      locked |-> {}, asked |-> {}, shared |-> {}, stage |-> "begun"]
  OBVIOUS
<1>1. /\ row \in NotesSaving /\ row.locked = {} /\ row.shared = {}
      /\ row.op = "notes" /\ row.stage = "begun"
  BY DEF NotesSaving
<1>2. row \in Row /\ MarksKnow(row) /\ NotesKnow(row)
  BY <1>1 DEF Row, MarksKnow, NotesKnow
<1>3. /\ saving' = [saving EXCEPT ![t] = row] /\ unchangedRegister
      /\ UNCHANGED <<set, question, answer>>
  BY DEF BeginNotes
<1> QED  BY <1>1, <1>2, <1>3, SaverStep

LEMMA LockNotedRegister ==
  ASSUME RegisterInv, NEW t \in Savers, LockNoted(t)
  PROVE  RegisterInv'
<1> PICK old : old = saving[t]
  OBVIOUS
<1>1. old \in NotesSaving /\ old.shared = {} /\ old.op = "notes"
  BY SavingRow DEF LockNoted, at, Row, MarksSaving, NotesKnow
<1> PICK children : children = {p[1] : p \in DOMAIN old.wanted}
  OBVIOUS
<1> PICK row : row = [old EXCEPT !.locked = children, !.asked = activeSets(old.group),
                                 !.stage = "children"]
  OBVIOUS
<1>2. children \subseteq Children
  <2>1. DOMAIN old.wanted \subseteq Children \X Questions
    BY <1>1 DEF NotesSaving
  <2> QED  BY <2>1
<1>3. /\ row \in NotesSaving /\ row.op = "notes" /\ row.locked = children
      /\ row.group = old.group /\ row.wanted = old.wanted /\ row.shared = {}
      /\ row.stage = "children"
  <2>1. activeSets(old.group) \subseteq Sets
    BY DEF activeSets
  <2> QED  BY <1>1, <1>2, <2>1 DEF NotesSaving
<1>4. /\ saving' = [saving EXCEPT ![t] = row] /\ unchangedRegister
      /\ UNCHANGED <<set, question, answer>>
      /\ \A c \in children : ~lockedByOther(t, c) /\ member[c] = old.group
  BY DEF LockNoted
<1>5. row \in Row /\ MarksKnow(row) /\ NotesKnow(row)
  BY <1>3, <1>4 DEF Row, MarksKnow, NotesKnow
<1>6. \A u \in Savers \ {t} : saving[u] # None => row.locked \cap saving[u].locked = {}
  BY <1>3, <1>4 DEF lockedByOther
<1> QED  BY <1>4, <1>5, <1>6, SaverStep

LEMMA LockSetsRegister ==
  ASSUME RegisterInv, NEW t \in Savers, LockSets(t)
  PROVE  RegisterInv'
<1> PICK old : old = saving[t]
  OBVIOUS
<1>1. /\ old \in NotesSaving /\ old.op = "notes" /\ old # None /\ NotesKnow(old)
      /\ old.stage = "children"
  BY SavingRow DEF LockSets, at, Row, MarksSaving
<1> PICK shared : shared = {s \in old.asked : set[s] # None /\ set[s].active}
  OBVIOUS
<1> PICK row : row = [old EXCEPT !.shared = shared, !.stage = "sets"]
  OBVIOUS
<1>2. /\ row \in NotesSaving /\ row.op = "notes" /\ row.locked = old.locked
      /\ row.group = old.group /\ row.wanted = old.wanted /\ row.shared = shared
      /\ row.stage = "sets"
  BY <1>1 DEF NotesSaving
<1>3. /\ saving' = [saving EXCEPT ![t] = row] /\ unchangedRegister
      /\ UNCHANGED <<set, question, answer>>
  BY DEF LockSets
<1>4. row \in Row /\ MarksKnow(row) /\ NotesKnow(row)
  BY <1>1, <1>2 DEF Row, MarksKnow, NotesKnow
<1>5. \A u \in Savers \ {t} : saving[u] # None => row.locked \cap saving[u].locked = {}
  BY <1>1, <1>2 DEF RegisterInv, LocksApart
<1> QED  BY <1>3, <1>4, <1>5, SaverStep

-----------------------------------------------------------------------------
(* What is changed beside the saves                                        *)

LEMMA ElsewhereRegister ==
  ASSUME RegisterInv, UNCHANGED <<member, mark, saving, set, question, answer>>,
         today' \in Dates, editDays' \in 0..LastDay, calendar' \subseteq CalendarRows,
         notices' \subseteq NoticeRows, inactive' \subseteq Reasons
  PROVE  RegisterInv'
<1>1. NotesTypeOK'
  BY DEF RegisterInv, NotesTypeOK, RegisterTypeOK
<1>2. LocksApart' /\ OneMark' /\ AnswersKeepTheirQuestions'
  BY DEF RegisterInv, LocksApart, OneMark, activeMarks, AnswersKeepTheirQuestions
<1>3. \A t \in Savers : (MarksKnow(saving[t]) /\ NotesKnow(saving[t]))'
  BY DEF RegisterInv, MarksKnow, NotesKnow, activeMarks
<1> QED  BY <1>1, <1>2, <1>3 DEF RegisterInv

LEMMA MoveChildRegister ==
  ASSUME RegisterInv, NEW c \in Children, NEW g \in Groups, moveChild(c, g),
         UNCHANGED <<set, question, answer>>
  PROVE  RegisterInv'
<1>1. /\ member' = [member EXCEPT ![c] = g]
      /\ UNCHANGED <<today, editDays, calendar, notices, inactive, mark, saving>>
      /\ \A t \in Savers : saving[t] # None => c \notin saving[t].locked
  BY DEF moveChild
<1>2. NotesTypeOK'
  BY <1>1 DEF RegisterInv, NotesTypeOK, RegisterTypeOK
<1>3. LocksApart' /\ OneMark' /\ AnswersKeepTheirQuestions'
  BY <1>1 DEF RegisterInv, LocksApart, OneMark, activeMarks, AnswersKeepTheirQuestions
<1>4. ASSUME NEW t \in Savers PROVE (MarksKnow(saving[t]) /\ NotesKnow(saving[t]))'
  <2>1. MarksKnow(saving[t])'
    BY <1>1 DEF RegisterInv, MarksKnow, activeMarks
  <2>2. \A e \in Children \ {c} : member'[e] = member[e]
    BY <1>1 DEF RegisterInv, NotesTypeOK, RegisterTypeOK
  <2>3. saving[t] # None => saving[t].locked \subseteq Children \ {c}
    BY <1>1, SavingRow
  <2>4. NotesKnow(saving[t])'
    BY <1>1, <2>2, <2>3 DEF RegisterInv, NotesKnow
  <2> QED  BY <2>1, <2>4
<1> QED  BY <1>2, <1>3, <1>4 DEF RegisterInv

(* A step that writes sets and questions, but no set that notes have       *)
(* locked, and keeps what answers were given to.                           *)
LEMMA SetsStep ==
  ASSUME RegisterInv, unchangedRegister, UNCHANGED <<saving, answer>>,
         set' \in [Sets -> SetRows \cup {None}],
         question' \in [Questions -> QuestionRows \cup {None}],
         \A s \in Sets : set'[s] = set[s] \/ set[s] = None \/ lockable(s),
         \A q \in Questions : answered(q) =>
           /\ question'[q] # None /\ question'[q].type = question[q].type
           /\ question'[q].set = question[q].set,
         \A s \in Sets : set[s] # None =>
           \/ set'[s] # None
           \/ \A q \in Questions : answered(q) => question[q].set # s
  PROVE  RegisterInv'
<1>1. NotesTypeOK'
  BY DEF RegisterInv, NotesTypeOK, RegisterTypeOK, unchangedRegister
<1>2. LocksApart' /\ OneMark'
  BY DEF RegisterInv, LocksApart, OneMark, activeMarks, unchangedRegister
<1>3. ASSUME NEW t \in Savers PROVE (MarksKnow(saving[t]) /\ NotesKnow(saving[t]))'
  <2>1. MarksKnow(saving[t])'
    BY DEF RegisterInv, MarksKnow, activeMarks, unchangedRegister
  <2>2. ASSUME saving[t] # None, saving[t].op = "notes", NEW s \in saving[t].shared
        PROVE  set'[s] = set[s]
    <3>1. NotesKnow(saving[t]) /\ saving[t] \in Row
      BY SavingRow
    <3>2. set[s] # None /\ s \in Sets
      BY <2>2, <3>1 DEF NotesKnow, Row, MarksSaving, NotesSaving
    <3>3. ~lockable(s)
      BY <2>2 DEF lockable
    <3> QED  BY <3>2, <3>3
  <2>3. NotesKnow(saving[t])'
    BY <2>2 DEF RegisterInv, NotesKnow, unchangedRegister
  <2> QED  BY <2>1, <2>3
<1>4. AnswersKeepTheirQuestions'
  <2>1. ASSUME NEW a \in Answers, answer[a] # None
        PROVE  LET q == answer[a].question IN
               /\ question'[q] # None /\ question'[q].type = answer[a].type
               /\ set'[question'[q].set] # None
    <3> PICK q : q = answer[a].question
      OBVIOUS
    <3>1. q \in Questions /\ answered(q)
      BY <2>1 DEF RegisterInv, NotesTypeOK, AnswerRows, answered
    <3>2. /\ question[q] # None /\ question[q].type = answer[a].type
          /\ set[question[q].set] # None
      BY <2>1 DEF RegisterInv, AnswersKeepTheirQuestions
    <3>3. question[q].set \in Sets
      BY <3>1, <3>2 DEF RegisterInv, NotesTypeOK, QuestionRows
    <3> QED  BY <3>1, <3>2, <3>3
  <2> QED  BY <2>1 DEF RegisterInv, AnswersKeepTheirQuestions
<1> QED  BY <1>1, <1>2, <1>3, <1>4 DEF RegisterInv

(* An answer was given to a question of a set that is there.               *)
LEMMA AnsweredThere ==
  ASSUME RegisterInv, NEW q \in Questions, answered(q)
  PROVE  /\ question[q] \in QuestionRows /\ question[q] # None
         /\ set[question[q].set] # None
BY DEF RegisterInv, AnswersKeepTheirQuestions, answered, NotesTypeOK

LEMMA SentRows ==
  ASSUME NEW questions \in Sent, NEW q \in DOMAIN questions
  PROVE  questions[q].type \in Types /\ questions[q].required \in BOOLEAN /\ q \in Questions
BY DEF Sent

LEMMA CreateSetRegister ==
  ASSUME RegisterInv, NEW s \in Sets, NEW groups \in SUBSET Groups,
         NEW questions \in Sent, createSet(s, groups, questions)
  PROVE  RegisterInv'
<1> PICK row : row = [active |-> TRUE, groups |-> groups]
  OBVIOUS
<1>1. /\ set[s] = None /\ set' = [set EXCEPT ![s] = row]
      /\ \A q \in DOMAIN questions : question[q] = None
      /\ question' = [q \in Questions |->
           IF q \in DOMAIN questions
           THEN [set |-> s, type |-> questions[q].type,
                 required |-> questions[q].required, active |-> TRUE]
           ELSE question[q]]
      /\ unchangedRegister /\ UNCHANGED <<saving, answer>>
  BY DEF createSet
<1>2. row \in SetRows
  BY DEF SetRows
<1>3. /\ set' \in [Sets -> SetRows \cup {None}]
      /\ \A r \in Sets : set'[r] = IF r = s THEN row ELSE set[r]
  BY <1>1, <1>2 DEF RegisterInv, NotesTypeOK
<1>4. question' \in [Questions -> QuestionRows \cup {None}]
  <2>1. \A q \in DOMAIN questions :
          [set |-> s, type |-> questions[q].type,
           required |-> questions[q].required, active |-> TRUE] \in QuestionRows
    BY SentRows DEF QuestionRows
  <2> QED  BY <1>1, <2>1 DEF RegisterInv, NotesTypeOK
<1>5. \A q \in Questions : answered(q) => question'[q] = question[q] /\ question[q] # None
  BY <1>1, AnsweredThere
<1> QED  BY <1>1, <1>2, <1>3, <1>4, <1>5, NotesAssumption, SetsStep

(* An answered question stays in its set, with its type.                   *)
LEMMA Replaced ==
  ASSUME RegisterInv, NEW s \in Sets, NEW questions \in Sent, replaceable(s, questions)
  PROVE  /\ replaceQuestions(s, questions) \in [Questions -> QuestionRows \cup {None}]
         /\ \A q \in Questions : answered(q) =>
              /\ replaceQuestions(s, questions)[q] # None
              /\ replaceQuestions(s, questions)[q].type = question[q].type
              /\ replaceQuestions(s, questions)[q].set = question[q].set
<1> DEFINE new(q) == IF q \in DOMAIN questions
                     THEN [set |-> s, type |-> questions[q].type,
                           required |-> questions[q].required, active |-> TRUE]
                     ELSE IF q \notin questionsOf(s) THEN question[q]
                     ELSE IF answered(q) THEN [question[q] EXCEPT !.active = FALSE]
                     ELSE None
<1>1. ASSUME NEW q \in Questions
      PROVE  /\ new(q) \in QuestionRows \cup {None}
             /\ answered(q) => /\ new(q) # None /\ new(q).type = question[q].type
                               /\ new(q).set = question[q].set
  <2>1. question[q] \in QuestionRows \cup {None}
    BY DEF RegisterInv, NotesTypeOK
  <2>2. CASE q \in DOMAIN questions
    <3> PICK row : row = [set |-> s, type |-> questions[q].type,
                          required |-> questions[q].required, active |-> TRUE]
      OBVIOUS
    <3>1. row \in QuestionRows /\ row.set = s /\ row.type = questions[q].type
      BY <2>2, SentRows DEF QuestionRows
    <3>2. answered(q) => question[q].set = s /\ question[q].type = questions[q].type
      BY <2>2, AnsweredThere DEF replaceable
    <3>3. row # None
      BY <3>1, NotesAssumption
    <3>4. new(q) = row
      BY <2>2
    <3> QED  BY <3>1, <3>2, <3>3, <3>4
  <2>3. CASE q \notin DOMAIN questions /\ q \notin questionsOf(s)
    <3>1. new(q) = question[q]
      BY <2>3
    <3> QED  BY <2>1, <3>1, AnsweredThere
  <2>4. CASE q \notin DOMAIN questions /\ q \in questionsOf(s) /\ answered(q)
    <3> PICK row : row = [question[q] EXCEPT !.active = FALSE]
      OBVIOUS
    <3>1. question[q] \in QuestionRows
      BY <2>4, AnsweredThere
    <3>2. row \in QuestionRows /\ row.set = question[q].set /\ row.type = question[q].type
      BY <3>1 DEF QuestionRows
    <3>3. row # None
      BY <3>2, NotesAssumption
    <3>4. new(q) = row
      BY <2>4
    <3> QED  BY <3>2, <3>3, <3>4
  <2>5. CASE q \notin DOMAIN questions /\ q \in questionsOf(s) /\ ~answered(q)
    BY <2>5
  <2> QED  BY <2>2, <2>3, <2>4, <2>5
<1>2. replaceQuestions(s, questions) = [q \in Questions |-> new(q)]
  BY DEF replaceQuestions
<1> HIDE DEF new
<1> QED  BY <1>1, <1>2

LEMMA UpdateSetRegister ==
  ASSUME RegisterInv, NEW s \in Sets, NEW groups \in SUBSET Groups,
         NEW inUse \in BOOLEAN, NEW questions \in Sent \cup {None},
         updateSet(s, inUse, groups, questions)
  PROVE  RegisterInv'
<1> PICK row : row = [active |-> inUse, groups |-> groups]
  OBVIOUS
<1>1. /\ set[s] # None /\ lockable(s) /\ set' = [set EXCEPT ![s] = row]
      /\ IF questions = None THEN UNCHANGED question
         ELSE /\ replaceable(s, questions)
              /\ question' = replaceQuestions(s, questions)
      /\ unchangedRegister /\ UNCHANGED <<saving, answer>>
  BY DEF updateSet
<1>2. row \in SetRows /\ row # None
  BY NotesAssumption DEF SetRows
<1>3. /\ set' \in [Sets -> SetRows \cup {None}]
      /\ \A r \in Sets : set'[r] = IF r = s THEN row ELSE set[r]
  BY <1>1, <1>2 DEF RegisterInv, NotesTypeOK
<1>4. /\ question' \in [Questions -> QuestionRows \cup {None}]
      /\ \A q \in Questions : answered(q) =>
           /\ question'[q] # None /\ question'[q].type = question[q].type
           /\ question'[q].set = question[q].set
  <2>1. CASE questions = None
    BY <1>1, <2>1, AnsweredThere DEF RegisterInv, NotesTypeOK
  <2>2. CASE questions # None
    <3>1. questions \in Sent
      BY <2>2
    <3> QED  BY <1>1, <2>2, <3>1, Replaced
  <2> QED  BY <2>1, <2>2
<1> QED  BY <1>1, <1>2, <1>3, <1>4, SetsStep

LEMMA RemoveSetRegister ==
  ASSUME RegisterInv, NEW s \in Sets, removeSet(s)
  PROVE  RegisterInv'
<1>1. /\ set[s] # None /\ lockable(s) /\ set' = [set EXCEPT ![s] = None]
      /\ \A q \in questionsOf(s) : ~answered(q)
      /\ question' = [q \in Questions |->
           IF q \in questionsOf(s) THEN None ELSE question[q]]
      /\ unchangedRegister /\ UNCHANGED <<saving, answer>>
  BY DEF removeSet
<1>2. /\ set' \in [Sets -> SetRows \cup {None}]
      /\ \A r \in Sets : set'[r] = IF r = s THEN None ELSE set[r]
      /\ question' \in [Questions -> QuestionRows \cup {None}]
  BY <1>1 DEF RegisterInv, NotesTypeOK
<1>3. ASSUME NEW q \in Questions, answered(q)
      PROVE  question'[q] = question[q] /\ question[q] # None /\ question[q].set # s
  BY <1>1, <1>3, AnsweredThere DEF questionsOf
<1> QED  BY <1>1, <1>2, <1>3, SetsStep

-----------------------------------------------------------------------------
(* What is wanted replaces what is: some rows are voided, and each changed *)
(* thing gets a new row under an identity that was free.                   *)
LEMMA Replacing ==
  ASSUME NEW All, NEW Changed, NEW free \in SUBSET All, NEW voided \in SUBSET All,
         voided \cap free = {}, NEW id \in [Changed -> free],
         \A c, e \in Changed : id[c] = id[e] => c = e,
         NEW old, NEW row, NEW new,
         new = [m \in All |->
           IF m \in voided THEN [old[m] EXCEPT !.voided = TRUE]
           ELSE IF \E c \in Changed : id[c] = m
           THEN row[CHOOSE c \in Changed : id[c] = m]
           ELSE old[m]]
  PROVE  /\ \A m \in voided : new[m] = [old[m] EXCEPT !.voided = TRUE]
         /\ \A c \in Changed : id[c] \in free /\ new[id[c]] = row[c]
         /\ \A m \in All :
              \/ m \in voided
              \/ \E c \in Changed : id[c] = m
              \/ new[m] = old[m]
<1>1. \A m \in voided : new[m] = [old[m] EXCEPT !.voided = TRUE]
  OBVIOUS
<1>2. ASSUME NEW c \in Changed PROVE id[c] \in free /\ new[id[c]] = row[c]
  <2>1. id[c] \in free /\ id[c] \in All /\ id[c] \notin voided
    OBVIOUS
  <2>2. (CHOOSE e \in Changed : id[e] = id[c]) = c
    OBVIOUS
  <2> QED  BY <2>1, <2>2
<1>3. ASSUME NEW m \in All, m \notin voided, \A c \in Changed : id[c] # m
      PROVE  new[m] = old[m]
  BY <1>3
<1> QED  BY <1>1, <1>2, <1>3

-----------------------------------------------------------------------------
(* Saving marks                                                            *)

(* The parts of WriteMarks, by name.                                       *)
found(t, c) == {m \in saving[t].active : mark[m].child = c}

marked(t, c) ==
  [child |-> c, group |-> saving[t].group, date |-> saving[t].date,
   marking |-> saving[t].wanted[c], voided |-> FALSE]

changed(t) ==
  {c \in DOMAIN saving[t].wanted : \A m \in found(t, c) : mark[m] # marked(t, c)}

replaced(t) == UNION {found(t, c) : c \in changed(t)}

LEMMA WriteMarksParts ==
  ASSUME NEW t, WriteMarks(t)
  PROVE  \E id \in [changed(t) -> {m \in Marks : mark[m] = None}] :
           /\ \A c, e \in changed(t) : id[c] = id[e] => c = e
           /\ mark' = [m \in Marks |->
                IF m \in replaced(t) THEN [mark[m] EXCEPT !.voided = TRUE]
                ELSE IF \E c \in changed(t) : id[c] = m
                THEN marked(t, CHOOSE c \in changed(t) : id[c] = m)
                ELSE mark[m]]
BY DEF WriteMarks, changed, found, marked, replaced

(* The children whose marks a save changes are locked, and what it has     *)
(* found of them is all there is.                                          *)
LEMMA MarksFound ==
  ASSUME RegisterInv, NEW t \in Savers, WriteMarks(t)
  PROVE  /\ saving[t] \in MarksSaving
         /\ changed(t) \subseteq saving[t].locked /\ changed(t) \subseteq Children
         /\ \A c \in changed(t) : found(t, c) = activeMarks(c, saving[t].date)
         /\ \A c \in changed(t) :
              /\ marked(t, c) \in MarkRows /\ marked(t, c) # None
              /\ marked(t, c).child = c /\ marked(t, c).date = saving[t].date
              /\ ~marked(t, c).voided
<1>1. /\ saving[t] \in MarksSaving
      /\ saving[t].locked = DOMAIN saving[t].wanted
      /\ saving[t].active = UNION {activeMarks(c, saving[t].date) : c \in saving[t].locked}
  BY SavingRow DEF WriteMarks, Row, NotesSaving, MarksKnow
<1>2. changed(t) \subseteq saving[t].locked /\ changed(t) \subseteq Children
  BY <1>1, SavingRow DEF changed, WriteMarks
<1>3. \A c \in changed(t) : found(t, c) = activeMarks(c, saving[t].date)
  BY <1>1, <1>2 DEF found, activeMarks
<1>4. ASSUME NEW c \in changed(t)
      PROVE  /\ marked(t, c) \in MarkRows /\ marked(t, c) # None
             /\ marked(t, c).child = c /\ marked(t, c).date = saving[t].date
             /\ ~marked(t, c).voided
  <2>1. /\ saving[t].wanted[c] \in Markings /\ saving[t].group \in Groups
        /\ saving[t].date \in Dates
    BY <1>1, <1>2 DEF MarksSaving
  <2> PICK row : row = marked(t, c)
    OBVIOUS
  <2>2. /\ row \in MarkRows /\ row.child = c /\ row.date = saving[t].date /\ ~row.voided
    BY <2>1, <1>2 DEF marked, MarkRows
  <2> QED  BY <2>2, RegisterAssumption
<1> QED  BY <1>1, <1>2, <1>3, <1>4

(* A save voids the marks of the children it changes on its day, and gives *)
(* each of them one.                                                       *)
LEMMA MarksWritten ==
  ASSUME RegisterInv, NEW t \in Savers, WriteMarks(t)
  PROVE  \E id \in [changed(t) -> {m \in Marks : mark[m] = None}] :
           /\ \A m \in replaced(t) :
                /\ m \in Marks /\ mark[m] \in MarkRows /\ mark[m] # None
                /\ mark[m].date = saving[t].date /\ mark[m].child \in changed(t)
                /\ mark'[m] = [mark[m] EXCEPT !.voided = TRUE]
           /\ \A c \in changed(t) : mark'[id[c]] = marked(t, c)
           /\ \A m \in Marks :
                m \in replaced(t) \/ (\E c \in changed(t) : id[c] = m) \/ mark'[m] = mark[m]
<1> PICK free : free = {m \in Marks : mark[m] = None}
  OBVIOUS
<1> PICK id \in [changed(t) -> free] :
      /\ \A c, e \in changed(t) : id[c] = id[e] => c = e
      /\ mark' = [m \in Marks |->
           IF m \in replaced(t) THEN [mark[m] EXCEPT !.voided = TRUE]
           ELSE IF \E c \in changed(t) : id[c] = m
           THEN marked(t, CHOOSE c \in changed(t) : id[c] = m)
           ELSE mark[m]]
  BY WriteMarksParts
<1>1. \A m \in Marks : mark[m] \in MarkRows \cup {None}
  BY DEF RegisterInv, NotesTypeOK, RegisterTypeOK
<1>2. ASSUME NEW m \in replaced(t)
      PROVE  /\ m \in Marks /\ mark[m] \in MarkRows /\ mark[m] # None
             /\ mark[m].date = saving[t].date /\ mark[m].child \in changed(t)
  <2>1. PICK c \in changed(t) : m \in found(t, c)
    BY DEF replaced
  <2>2. m \in activeMarks(c, saving[t].date)
    BY <2>1, MarksFound
  <2> QED  BY <2>2, <1>1 DEF activeMarks
<1> PICK old : old = mark
  OBVIOUS
<1> PICK new : new = mark'
  OBVIOUS
<1> PICK voided : voided = replaced(t)
  OBVIOUS
<1> PICK Changed : Changed = changed(t)
  OBVIOUS
<1> PICK row : row = [c \in Changed |-> marked(t, c)]
  OBVIOUS
<1>3. free \in SUBSET Marks /\ voided \in SUBSET Marks /\ voided \cap free = {}
  BY <1>2
<1>4. new = [m \in Marks |->
        IF m \in voided THEN [old[m] EXCEPT !.voided = TRUE]
        ELSE IF \E c \in Changed : id[c] = m
        THEN row[CHOOSE c \in Changed : id[c] = m]
        ELSE old[m]]
  <2>1. ASSUME NEW m \in Marks, \E c \in Changed : id[c] = m
        PROVE  marked(t, CHOOSE c \in Changed : id[c] = m)
                 = row[CHOOSE c \in Changed : id[c] = m]
    <3>1. (CHOOSE c \in Changed : id[c] = m) \in Changed
      BY <2>1
    <3> QED  BY <3>1
  <2> QED  BY <2>1
<1>5. /\ \A m \in voided : new[m] = [old[m] EXCEPT !.voided = TRUE]
      /\ \A c \in Changed : id[c] \in free /\ new[id[c]] = row[c]
      /\ \A m \in Marks : m \in voided \/ (\E c \in Changed : id[c] = m) \/ new[m] = old[m]
  <2>1. id \in [Changed -> free] /\ \A c, e \in Changed : id[c] = id[e] => c = e
    OBVIOUS
  <2> QED  BY <1>3, <1>4, <2>1, Replacing
<1> QED  BY <1>2, <1>5

(* One mark is left of each child that is changed, the new one, and those  *)
(* of other children and days stay.                                        *)
LEMMA MarksLeft ==
  ASSUME RegisterInv, NEW t \in Savers, WriteMarks(t)
  PROVE  /\ mark' \in [Marks -> MarkRows \cup {None}]
         /\ \E id \in [changed(t) -> Marks] :
              \A c \in Children : \A d \in Dates : \A m \in Marks :
                m \in activeMarks(c, d)' <=>
                  IF c \in changed(t) /\ d = saving[t].date
                  THEN m = id[c] ELSE m \in activeMarks(c, d)
<1> PICK id \in [changed(t) -> {m \in Marks : mark[m] = None}] :
      /\ \A m \in replaced(t) :
           /\ m \in Marks /\ mark[m] \in MarkRows /\ mark[m] # None
           /\ mark[m].date = saving[t].date /\ mark[m].child \in changed(t)
           /\ mark'[m] = [mark[m] EXCEPT !.voided = TRUE]
      /\ \A c \in changed(t) : mark'[id[c]] = marked(t, c)
      /\ \A m \in Marks :
           m \in replaced(t) \/ (\E c \in changed(t) : id[c] = m) \/ mark'[m] = mark[m]
  BY MarksWritten
<1>1. ASSUME NEW m \in replaced(t)
      PROVE  mark'[m] \in MarkRows /\ mark'[m].voided
  <2> PICK was : was = mark[m]
    OBVIOUS
  <2>1. was \in MarkRows /\ mark'[m] = [was EXCEPT !.voided = TRUE]
    OBVIOUS
  <2> QED  BY <2>1 DEF MarkRows
<1>2. ASSUME NEW c \in changed(t)
      PROVE  /\ id[c] \in Marks /\ mark[id[c]] = None
             /\ mark'[id[c]] \in MarkRows /\ mark'[id[c]] # None
             /\ mark'[id[c]].child = c /\ mark'[id[c]].date = saving[t].date
             /\ ~mark'[id[c]].voided
  <2>1. mark'[id[c]] = marked(t, c)
    OBVIOUS
  <2>2. /\ marked(t, c) \in MarkRows /\ marked(t, c) # None
        /\ marked(t, c).child = c /\ marked(t, c).date = saving[t].date
        /\ ~marked(t, c).voided
    BY MarksFound
  <2>3. id[c] \in Marks /\ mark[id[c]] = None
    OBVIOUS
  <2> QED  BY <2>1, <2>2, <2>3
<1>3. mark' \in [Marks -> MarkRows \cup {None}]
  <2>1. \A m \in Marks : mark[m] \in MarkRows \cup {None}
    BY DEF RegisterInv, NotesTypeOK, RegisterTypeOK
  <2>2. \A m \in Marks : mark'[m] \in MarkRows \cup {None}
    BY <1>1, <1>2, <2>1
  <2>3. mark' = [m \in Marks |-> mark'[m]]
    BY WriteMarksParts
  <2> QED  BY <2>2, <2>3
<1>4. ASSUME NEW c \in Children, NEW d \in Dates, NEW m \in Marks
      PROVE  m \in activeMarks(c, d)' <=>
               IF c \in changed(t) /\ d = saving[t].date
               THEN m = id[c] ELSE m \in activeMarks(c, d)
  <2>1. CASE m \in replaced(t)
    <3>1. mark'[m].voided /\ mark[m] # None
      BY <1>1, <2>1
    <3>2. mark[m].date = saving[t].date /\ mark[m].child \in changed(t)
      BY <2>1
    <3>3. m \notin activeMarks(c, d)'
      BY <3>1 DEF activeMarks
    <3>4. c \in changed(t) => m # id[c]
      BY <3>1, <1>2
    <3>5. m \in activeMarks(c, d) => c \in changed(t) /\ d = saving[t].date
      BY <3>2 DEF activeMarks
    <3> QED  BY <3>3, <3>4, <3>5
  <2>2. CASE \E e \in changed(t) : id[e] = m
    <3> PICK e \in changed(t) : id[e] = m
      BY <2>2
    <3>1. m \in activeMarks(c, d)' <=> c = e /\ d = saving[t].date
      BY <1>2 DEF activeMarks
    <3>2. m \notin activeMarks(c, d)
      BY <1>2 DEF activeMarks
    <3>3. c \in changed(t) /\ m = id[c] => c = e
      BY <1>2
    <3> QED  BY <3>1, <3>2, <3>3
  <2>3. CASE m \notin replaced(t) /\ \A e \in changed(t) : id[e] # m
    <3>1. mark'[m] = mark[m]
      BY <2>3
    <3>2. m \in activeMarks(c, d)' <=> m \in activeMarks(c, d)
      BY <3>1 DEF activeMarks
    <3>3. c \in changed(t) /\ d = saving[t].date => m \notin activeMarks(c, d)
      BY <2>3, MarksFound DEF replaced
    <3> QED  BY <2>3, <3>2, <3>3
  <2> QED  BY <2>1, <2>2, <2>3
<1>5. id \in [changed(t) -> Marks]
  OBVIOUS
<1> QED  BY <1>3, <1>4, <1>5

LEMMA WriteMarksRegister ==
  ASSUME RegisterInv, NEW t \in Savers, WriteMarks(t), UNCHANGED <<set, question, answer>>
  PROVE  RegisterInv'
<1>1. /\ mark' \in [Marks -> MarkRows \cup {None}]
      /\ changed(t) \subseteq saving[t].locked /\ saving[t] \in MarksSaving
  BY MarksLeft, MarksFound
<1> PICK id \in [changed(t) -> Marks] :
      \A c \in Children : \A d \in Dates : \A m \in Marks :
        m \in activeMarks(c, d)' <=>
          IF c \in changed(t) /\ d = saving[t].date
          THEN m = id[c] ELSE m \in activeMarks(c, d)
  BY MarksLeft
<1>2. /\ saving' = [saving EXCEPT ![t] = None]
      /\ UNCHANGED <<today, editDays, member, calendar, notices, inactive>>
  BY DEF WriteMarks
<1>3. /\ saving' \in [Savers -> Row]
      /\ \A u \in Savers : saving'[u] = IF u = t THEN None ELSE saving[u]
  BY <1>2 DEF RegisterInv, NotesTypeOK, Row
<1>4. NotesTypeOK'
  BY <1>1, <1>2, <1>3 DEF RegisterInv, NotesTypeOK, RegisterTypeOK, Row
<1>5. LocksApart'
  BY <1>3 DEF RegisterInv, LocksApart
<1>6. OneMark'
  <2>1. ASSUME NEW c \in Children, NEW d \in Dates,
               NEW m \in activeMarks(c, d)', NEW n \in activeMarks(c, d)'
        PROVE  m = n
    <3>1. m \in Marks /\ n \in Marks
      BY DEF activeMarks
    <3>2. \A p, q \in activeMarks(c, d) : p = q
      BY DEF RegisterInv, OneMark
    <3> QED  BY <3>1, <3>2
  <2> QED  BY <2>1 DEF OneMark
<1>7. ASSUME NEW u \in Savers PROVE (MarksKnow(saving[u]) /\ NotesKnow(saving[u]))'
  <2> PICK row : row = saving'[u]
    OBVIOUS
  <2>1. CASE row = None
    BY <2>1 DEF MarksKnow, NotesKnow
  <2>2. CASE row # None
    <3>1. u # t /\ saving[u] = row
      BY <1>3, <2>2
    <3>2. saving[t].locked \cap row.locked = {}
      BY <1>1, <2>2, <3>1, RegisterAssumption DEF RegisterInv, LocksApart
    <3>3. row \in Row /\ row.locked \subseteq Children /\ MarksKnow(row) /\ NotesKnow(row)
      BY <2>2, <3>1, SavingRow
    <3>4. ASSUME row.op = "marks", NEW c \in row.locked
          PROVE  activeMarks(c, row.date)' = activeMarks(c, row.date)
      <4>1. row.date \in Dates /\ c \in Children /\ c \notin changed(t)
        BY <1>1, <2>2, <3>2, <3>3, <3>4 DEF Row, MarksSaving, NotesSaving
      <4>2. \A m \in Marks : m \in activeMarks(c, row.date)' <=> m \in activeMarks(c, row.date)
        BY <4>1
      <4> QED  BY <4>2 DEF activeMarks
    <3>5. MarksKnow(row)'
      BY <3>3, <3>4 DEF MarksKnow
    <3>6. NotesKnow(row)'
      BY <1>2, <3>3 DEF NotesKnow
    <3> QED  BY <3>5, <3>6
  <2> QED  BY <2>1, <2>2
<1>8. AnswersKeepTheirQuestions'
  BY DEF RegisterInv, AnswersKeepTheirQuestions
<1> QED  BY <1>4, <1>5, <1>6, <1>7, <1>8 DEF RegisterInv

-----------------------------------------------------------------------------
(* Saving notes                                                            *)

(* The parts of WriteNotes, by name.                                       *)
noteAnswers(t, p) ==
  {a \in activeAnswers(p[1], saving[t].date) : answer[a].question = p[2]}

unchangedNote(t, p) ==
  \E a \in noteAnswers(t, p) :
    answer[a].group = saving[t].group /\ answer[a].value = saving[t].wanted[p]

dropped(t) ==
  UNION {noteAnswers(t, p) : p \in {r \in DOMAIN saving[t].wanted : ~unchangedNote(t, r)}}

renewed(t) ==
  {p \in DOMAIN saving[t].wanted : saving[t].wanted[p] # None /\ ~unchangedNote(t, p)}

noted(t, p) ==
  [child |-> p[1], group |-> saving[t].group, question |-> p[2],
   date |-> saving[t].date, type |-> question[p[2]].type,
   value |-> saving[t].wanted[p], voided |-> FALSE]

LEMMA WriteNotesParts ==
  ASSUME NEW t, WriteNotes(t)
  PROVE  /\ \A p \in DOMAIN saving[t].wanted :
              \E s \in saving[t].shared : p[2] \in activeQuestions(s)
         /\ \E id \in [renewed(t) -> {a \in Answers : answer[a] = None}] :
              /\ \A p, r \in renewed(t) : id[p] = id[r] => p = r
              /\ answer' = [a \in Answers |->
                   IF a \in dropped(t) THEN [answer[a] EXCEPT !.voided = TRUE]
                   ELSE IF \E p \in renewed(t) : id[p] = a
                   THEN noted(t, CHOOSE p \in renewed(t) : id[p] = a)
                   ELSE answer[a]]
<1>1. \A p \in DOMAIN saving[t].wanted :
        p[2] \in UNION {activeQuestions(s) : s \in saving[t].shared}
  BY DEF WriteNotes
<1>2. \E id \in [renewed(t) -> {a \in Answers : answer[a] = None}] :
        /\ \A p, r \in renewed(t) : id[p] = id[r] => p = r
        /\ answer' = [a \in Answers |->
             IF a \in dropped(t) THEN [answer[a] EXCEPT !.voided = TRUE]
             ELSE IF \E p \in renewed(t) : id[p] = a
             THEN noted(t, CHOOSE p \in renewed(t) : id[p] = a)
             ELSE answer[a]]
  BY DEF WriteNotes, renewed, dropped, noteAnswers, unchangedNote, noted
<1> QED  BY <1>1, <1>2

(* A note is written for a child that is locked and in the group, to a     *)
(* question in use of a set that is locked and active.                     *)
LEMMA NotesAsked ==
  ASSUME RegisterInv, NEW t \in Savers, WriteNotes(t)
  PROVE  /\ saving[t] \in NotesSaving
         /\ DOMAIN saving[t].wanted \subseteq Children \X Questions
         /\ renewed(t) \subseteq DOMAIN saving[t].wanted
         /\ \A p \in renewed(t) :
              /\ noted(t, p) \in AnswerRows /\ noted(t, p) # None
              /\ noted(t, p).child = p[1] /\ noted(t, p).question = p[2]
              /\ noted(t, p).date = saving[t].date /\ ~noted(t, p).voided
              /\ noted(t, p).type = question[p[2]].type
              /\ noted(t, p).group = saving[t].group
              /\ member[p[1]] = saving[t].group
              /\ question[p[2]] # None /\ question[p[2]].active
              /\ set[question[p[2]].set] # None /\ set[question[p[2]].set].active
<1>1. saving[t] \in NotesSaving /\ saving[t].stage = "sets" /\ saving[t] # None
  BY SavingRow DEF WriteNotes, at, Row, MarksSaving
<1>2. /\ DOMAIN saving[t].wanted \subseteq Children \X Questions
      /\ \A p \in DOMAIN saving[t].wanted : saving[t].wanted[p] \in Given \cup {None}
      /\ saving[t].group \in Groups /\ saving[t].date \in Dates /\ saving[t].op = "notes"
  BY <1>1 DEF NotesSaving
<1>3. renewed(t) \subseteq DOMAIN saving[t].wanted
  BY DEF renewed
<1>4. /\ saving[t].locked = {p[1] : p \in DOMAIN saving[t].wanted}
      /\ \A c \in saving[t].locked : member[c] = saving[t].group
      /\ \A s \in saving[t].shared : set[s] # None /\ set[s].active
  BY <1>1, <1>2, SavingRow DEF NotesKnow
<1>5. ASSUME NEW p \in renewed(t)
      PROVE  /\ member[p[1]] = saving[t].group
             /\ question[p[2]] # None /\ question[p[2]].active
             /\ set[question[p[2]].set] # None /\ set[question[p[2]].set].active
  <2>1. p[1] \in saving[t].locked
    BY <1>3, <1>4
  <2>2. PICK s \in saving[t].shared : p[2] \in activeQuestions(s)
    BY <1>3, WriteNotesParts
  <2> QED  BY <2>1, <2>2, <1>4 DEF activeQuestions, questionsOf
<1>6. ASSUME NEW p \in renewed(t)
      PROVE  /\ noted(t, p) \in AnswerRows /\ noted(t, p) # None
             /\ noted(t, p).child = p[1] /\ noted(t, p).question = p[2]
             /\ noted(t, p).date = saving[t].date /\ ~noted(t, p).voided
             /\ noted(t, p).type = question[p[2]].type
             /\ noted(t, p).group = saving[t].group
  <2>1. p[1] \in Children /\ p[2] \in Questions
    BY <1>2, <1>3
  <2>2. question[p[2]] \in QuestionRows
    BY <2>1, <1>5 DEF RegisterInv, NotesTypeOK
  <2>3. question[p[2]].type \in Types
    BY <2>2 DEF QuestionRows
  <2>4. saving[t].wanted[p] \in Given
    BY <1>2 DEF renewed
  <2> PICK row : row = noted(t, p)
    OBVIOUS
  <2>5. /\ row \in AnswerRows
        /\ row.child = p[1] /\ row.question = p[2] /\ row.date = saving[t].date
        /\ ~row.voided /\ row.type = question[p[2]].type /\ row.group = saving[t].group
    BY <2>1, <2>3, <2>4, <1>2 DEF noted, AnswerRows
  <2> QED  BY <2>5, NotesAssumption
<1> QED  BY <1>1, <1>2, <1>3, <1>5, <1>6

LEMMA NotesWritten ==
  ASSUME RegisterInv, NEW t \in Savers, WriteNotes(t)
  PROVE  \E id \in [renewed(t) -> {a \in Answers : answer[a] = None}] :
           /\ \A a \in dropped(t) :
                /\ a \in Answers /\ answer[a] \in AnswerRows /\ answer[a] # None
                /\ answer'[a] = [answer[a] EXCEPT !.voided = TRUE]
           /\ \A p \in renewed(t) : answer'[id[p]] = noted(t, p)
           /\ \A a \in Answers :
                a \in dropped(t) \/ (\E p \in renewed(t) : id[p] = a) \/ answer'[a] = answer[a]
<1> PICK free : free = {a \in Answers : answer[a] = None}
  OBVIOUS
<1> PICK id \in [renewed(t) -> free] :
      /\ \A p, r \in renewed(t) : id[p] = id[r] => p = r
      /\ answer' = [a \in Answers |->
           IF a \in dropped(t) THEN [answer[a] EXCEPT !.voided = TRUE]
           ELSE IF \E p \in renewed(t) : id[p] = a
           THEN noted(t, CHOOSE p \in renewed(t) : id[p] = a)
           ELSE answer[a]]
  BY WriteNotesParts
<1>1. \A a \in Answers : answer[a] \in AnswerRows \cup {None}
  BY DEF RegisterInv, NotesTypeOK
<1>2. ASSUME NEW a \in dropped(t)
      PROVE  a \in Answers /\ answer[a] \in AnswerRows /\ answer[a] # None
  BY <1>1 DEF dropped, noteAnswers, activeAnswers
<1> PICK old : old = answer
  OBVIOUS
<1> PICK new : new = answer'
  OBVIOUS
<1> PICK voided : voided = dropped(t)
  OBVIOUS
<1> PICK Changed : Changed = renewed(t)
  OBVIOUS
<1> PICK row : row = [p \in Changed |-> noted(t, p)]
  OBVIOUS
<1>3. free \in SUBSET Answers /\ voided \in SUBSET Answers /\ voided \cap free = {}
  BY <1>2
<1>4. new = [a \in Answers |->
        IF a \in voided THEN [old[a] EXCEPT !.voided = TRUE]
        ELSE IF \E p \in Changed : id[p] = a
        THEN row[CHOOSE p \in Changed : id[p] = a]
        ELSE old[a]]
  <2>1. ASSUME NEW a \in Answers, \E p \in Changed : id[p] = a
        PROVE  noted(t, CHOOSE p \in Changed : id[p] = a)
                 = row[CHOOSE p \in Changed : id[p] = a]
    <3>1. (CHOOSE p \in Changed : id[p] = a) \in Changed
      BY <2>1
    <3> QED  BY <3>1
  <2> QED  BY <2>1
<1>5. /\ \A a \in voided : new[a] = [old[a] EXCEPT !.voided = TRUE]
      /\ \A p \in Changed : id[p] \in free /\ new[id[p]] = row[p]
      /\ \A a \in Answers : a \in voided \/ (\E p \in Changed : id[p] = a) \/ new[a] = old[a]
  <2>1. id \in [Changed -> free] /\ \A p, r \in Changed : id[p] = id[r] => p = r
    OBVIOUS
  <2> QED  BY <1>3, <1>4, <2>1, Replacing
<1> QED  BY <1>2, <1>5

LEMMA WriteNotesRegister ==
  ASSUME RegisterInv, NEW t \in Savers, WriteNotes(t)
  PROVE  RegisterInv'
<1> PICK id \in [renewed(t) -> {a \in Answers : answer[a] = None}] :
      /\ \A a \in dropped(t) :
           /\ a \in Answers /\ answer[a] \in AnswerRows /\ answer[a] # None
           /\ answer'[a] = [answer[a] EXCEPT !.voided = TRUE]
      /\ \A p \in renewed(t) : answer'[id[p]] = noted(t, p)
      /\ \A a \in Answers :
           a \in dropped(t) \/ (\E p \in renewed(t) : id[p] = a) \/ answer'[a] = answer[a]
  BY NotesWritten
<1>1. ASSUME NEW a \in dropped(t)
      PROVE  /\ answer'[a] \in AnswerRows /\ answer'[a].voided
             /\ answer'[a].question = answer[a].question
             /\ answer'[a].type = answer[a].type
  <2> PICK was : was = answer[a]
    OBVIOUS
  <2>1. was \in AnswerRows /\ answer'[a] = [was EXCEPT !.voided = TRUE]
    OBVIOUS
  <2> QED  BY <2>1 DEF AnswerRows
<1>2. ASSUME NEW p \in renewed(t)
      PROVE  /\ id[p] \in Answers /\ answer[id[p]] = None
             /\ answer'[id[p]] \in AnswerRows /\ answer'[id[p]] # None
             /\ answer'[id[p]].child = p[1] /\ answer'[id[p]].question = p[2]
             /\ answer'[id[p]].date = saving[t].date
             /\ answer'[id[p]].type = question[p[2]].type
             /\ question[p[2]] # None /\ set[question[p[2]].set] # None
             /\ p \in Children \X Questions
  <2>1. answer'[id[p]] = noted(t, p)
    OBVIOUS
  <2>2. /\ noted(t, p) \in AnswerRows /\ noted(t, p) # None
        /\ noted(t, p).child = p[1] /\ noted(t, p).question = p[2]
        /\ noted(t, p).date = saving[t].date
        /\ noted(t, p).type = question[p[2]].type
        /\ question[p[2]] # None /\ set[question[p[2]].set] # None
        /\ p \in Children \X Questions
    BY NotesAsked
  <2>3. id[p] \in Answers /\ answer[id[p]] = None
    OBVIOUS
  <2> QED  BY <2>1, <2>2, <2>3
<1>3. /\ saving' = [saving EXCEPT ![t] = None]
      /\ unchangedRegister /\ UNCHANGED <<set, question>>
  BY DEF WriteNotes
<1>4. answer' \in [Answers -> AnswerRows \cup {None}]
  <2>1. \A a \in Answers : answer[a] \in AnswerRows \cup {None}
    BY DEF RegisterInv, NotesTypeOK
  <2>2. \A a \in Answers : answer'[a] \in AnswerRows \cup {None}
    BY <1>1, <1>2, <2>1
  <2>3. answer' = [a \in Answers |-> answer'[a]]
    BY WriteNotesParts
  <2> QED  BY <2>2, <2>3
<1>5. /\ saving' \in [Savers -> Row]
      /\ \A u \in Savers : saving'[u] = IF u = t THEN None ELSE saving[u]
  BY <1>3 DEF RegisterInv, NotesTypeOK, Row
<1>6. NotesTypeOK'
  BY <1>3, <1>4, <1>5 DEF RegisterInv, NotesTypeOK, RegisterTypeOK, Row, unchangedRegister
<1>7. LocksApart'
  BY <1>5 DEF RegisterInv, LocksApart
<1>8. ASSUME NEW u \in Savers PROVE (MarksKnow(saving[u]) /\ NotesKnow(saving[u]))'
  <2> PICK row : row = saving'[u]
    OBVIOUS
  <2>1. row = None \/ row = saving[u]
    BY <1>5
  <2>2. MarksKnow(row) /\ NotesKnow(row)
    BY <2>1, SavingRow DEF MarksKnow, NotesKnow
  <2>3. (MarksKnow(row) /\ NotesKnow(row))'
    BY <2>2, <1>3 DEF MarksKnow, NotesKnow, activeMarks, unchangedRegister
  <2> QED  BY <2>3
<1>9. OneMark'
  BY <1>3 DEF RegisterInv, OneMark, activeMarks, unchangedRegister
<1>10. AnswersKeepTheirQuestions'
  <2>1. ASSUME NEW a \in Answers, answer'[a] # None, ~answer'[a].voided
        PROVE  \/ \E p \in renewed(t) : id[p] = a
               \/ a \notin dropped(t) /\ answer'[a] = answer[a]
    BY <2>1, <1>1
  <2>2. ASSUME NEW p \in renewed(t), NEW a \in Answers,
               answer[a] # None, ~answer[a].voided, answer[a].child = p[1],
               answer[a].question = p[2], answer[a].date = saving[t].date
        PROVE  a \in dropped(t)
    BY <2>2 DEF dropped, noteAnswers, activeAnswers, renewed
  <2>3. ASSUME NEW a \in Answers, NEW b \in Answers,
               answer'[a] # None, ~answer'[a].voided,
               answer'[b] # None, ~answer'[b].voided,
               answer'[a].child = answer'[b].child,
               answer'[a].question = answer'[b].question,
               answer'[a].date = answer'[b].date
        PROVE  a = b
    <3>1. CASE (\E p \in renewed(t) : id[p] = a) /\ (\E p \in renewed(t) : id[p] = b)
      <4> PICK p \in renewed(t) : id[p] = a
        BY <3>1
      <4> PICK r \in renewed(t) : id[r] = b
        BY <3>1
      <4>1. p[1] = r[1] /\ p[2] = r[2] /\ p \in Children \X Questions /\ r \in Children \X Questions
        BY <2>3, <1>2
      <4> QED  BY <4>1
    <3>2. CASE \E p \in renewed(t) : id[p] = a /\ b \notin dropped(t) /\ answer'[b] = answer[b]
      BY <3>2, <2>2, <2>3, <1>2
    <3>3. CASE \E p \in renewed(t) : id[p] = b /\ a \notin dropped(t) /\ answer'[a] = answer[a]
      BY <3>3, <2>2, <2>3, <1>2
    <3>4. CASE answer'[a] = answer[a] /\ answer'[b] = answer[b]
      BY <3>4, <2>3 DEF RegisterInv, AnswersKeepTheirQuestions
    <3> QED  BY <3>1, <3>2, <3>3, <3>4, <2>1, <2>3
  <2>4. ASSUME NEW a \in Answers, answer'[a] # None
        PROVE  LET q == answer'[a].question IN
               /\ question[q] # None /\ question[q].type = answer'[a].type
               /\ set[question[q].set] # None
    <3>1. CASE \E p \in renewed(t) : id[p] = a
      BY <3>1, <1>2
    <3>2. CASE a \in dropped(t)
      <4>1. /\ answer[a] # None /\ a \in Answers
            /\ answer'[a].question = answer[a].question /\ answer'[a].type = answer[a].type
        BY <3>2, <1>1
      <4>2. LET q == answer[a].question IN
            /\ question[q] # None /\ question[q].type = answer[a].type
            /\ set[question[q].set] # None
        BY <4>1 DEF RegisterInv, AnswersKeepTheirQuestions
      <4> QED  BY <4>1, <4>2
    <3>3. CASE answer'[a] = answer[a]
      BY <3>3, <2>4 DEF RegisterInv, AnswersKeepTheirQuestions
    <3> QED  BY <3>1, <3>2, <3>3
  <2> QED  BY <2>3, <2>4, <1>3 DEF AnswersKeepTheirQuestions
<1> QED  BY <1>6, <1>7, <1>8, <1>9, <1>10 DEF RegisterInv

-----------------------------------------------------------------------------
LEMMA NextRegister == RegisterInv /\ [NotesNext]_notesVars => RegisterInv'
<1> SUFFICES ASSUME RegisterInv, [NotesNext]_notesVars PROVE RegisterInv'
  OBVIOUS
<1>1. CASE NotesStep
  BY <1>1, BeginNotesRegister, LockNotedRegister, LockSetsRegister, WriteNotesRegister,
     CreateSetRegister, UpdateSetRegister, RemoveSetRegister DEF NotesStep
<1>2. CASE RegisterNext /\ UNCHANGED <<set, question, answer>>
  <2>1. ASSUME NEW t \in Savers, NEW g \in Groups, NEW d \in Dates,
               NEW some \in (SUBSET Children) \ {{}}, NEW wanted \in [some -> Markings],
               BeginMarks(t, g, d, wanted)
        PROVE  RegisterInv'
    BY <1>2, <2>1, BeginMarksRegister
  <2>2. ASSUME NEW t \in Savers, LockMarked(t) \/ WriteMarks(t) \/ Abandon(t)
        PROVE  RegisterInv'
    BY <1>2, <2>2, LockMarkedRegister, WriteMarksRegister, AbandonRegister
  <2>3. ASSUME NEW e \in CalendarRows, createEntry(e) \/ voidEntry(e) PROVE RegisterInv'
    BY <1>2, <2>3, ElsewhereRegister
       DEF createEntry, voidEntry, RegisterInv, NotesTypeOK, RegisterTypeOK
  <2>4. ASSUME NEW n \in NoticeRows, decideNotice(n) PROVE RegisterInv'
    BY <1>2, <2>4, ElsewhereRegister DEF decideNotice, RegisterInv, NotesTypeOK, RegisterTypeOK
  <2>5. ASSUME NEW r \in Reasons, updateReason(r) PROVE RegisterInv'
    BY <1>2, <2>5, ElsewhereRegister DEF updateReason, RegisterInv, NotesTypeOK, RegisterTypeOK
  <2>6. ASSUME NEW n \in 0..LastDay, setEditDays(n) PROVE RegisterInv'
    BY <1>2, <2>6, ElsewhereRegister DEF setEditDays, RegisterInv, NotesTypeOK, RegisterTypeOK
  <2>7. ASSUME NEW c \in Children, NEW g \in Groups, moveChild(c, g) PROVE RegisterInv'
    BY <1>2, <2>7, MoveChildRegister
  <2>8. ASSUME NextDay PROVE RegisterInv'
    <3>1. today' \in Dates
      BY <2>8, RegisterAssumption DEF NextDay, Dates, RegisterInv, NotesTypeOK, RegisterTypeOK
    <3> QED  BY <1>2, <2>8, <3>1, ElsewhereRegister
             DEF NextDay, RegisterInv, NotesTypeOK, RegisterTypeOK
  <2> QED  BY <1>2, <2>1, <2>2, <2>3, <2>4, <2>5, <2>6, <2>7, <2>8 DEF RegisterNext
<1>3. CASE UNCHANGED notesVars
  BY <1>3, ElsewhereRegister
     DEF notesVars, registerVars, RegisterInv, NotesTypeOK, RegisterTypeOK
<1> QED  BY <1>1, <1>2, <1>3 DEF NotesNext

(* The rows, the sets and the saves keep their types.                      *)
THEOREM NotesTypeCorrect == NotesSpec => []NotesTypeOK
<1>1. RegisterInv => NotesTypeOK
  BY DEF RegisterInv
<1> QED  BY <1>1, InitRegister, NextRegister, PTL DEF NotesSpec

(* Every answer ever given keeps its question, in a set and of the type it *)
(* was answered with, and a question has one standing answer for a child   *)
(* on a day: of what notes lock, edits of a set leave the answered         *)
(* questions alone.                                                        *)
THEOREM AnswersKept == NotesSpec => []AnswersKeepTheirQuestions
<1>1. RegisterInv => AnswersKeepTheirQuestions
  BY DEF RegisterInv
<1> QED  BY <1>1, InitRegister, NextRegister, PTL DEF NotesSpec

-----------------------------------------------------------------------------
(* The views of a day                                                      *)

(* A mark decides its day, whoever's calendar is looked up.                *)
LEMMA MarkDecides ==
  ASSUME NotesTypeOK, NEW c, NEW d, activeMarks(c, d) # {}
  PROVE  /\ groupOn(c, d) \in Groups
         /\ \E status \in {"present", "absent"} :
              \A works : resolveDay(c, d, works) = status
<1> PICK m : m = CHOOSE n \in activeMarks(c, d) : TRUE
  OBVIOUS
<1>1. m \in activeMarks(c, d)
  OBVIOUS
<1>2. mark[m] \in MarkRows
  BY <1>1 DEF activeMarks, NotesTypeOK, RegisterTypeOK
<1>3. mark[m].group \in Groups /\ mark[m].marking.status \in {"present", "absent"}
  BY <1>2 DEF MarkRows, Markings
<1>4. groupOn(c, d) = mark[m].group
  BY DEF groupOn
<1>5. \A works : resolveDay(c, d, works) = mark[m].marking.status
  BY DEF resolveDay
<1> QED  BY <1>3, <1>4, <1>5

LEMMA UnmarkedDay ==
  ASSUME NEW c, NEW d, activeMarks(c, d) = {}
  PROVE  /\ groupOn(c, d) = member[c]
         /\ \A works : resolveDay(c, d, works) =
              IF ~works THEN "non_working"
              ELSE IF noticesOf(c, d) # {} THEN "expected_absent" ELSE "unmarked"
BY DEF groupOn, resolveDay

LEMMA ExpectedPresence ==
  ASSUME NotesTypeOK, NEW c \in Children, NEW d \in Dates,
         resolveDay(c, d, working(d, groupOn(c, d))) \in {"present", "unmarked"}
  PROVE  <<c, d>> \in expectedPresence
<1>1. groupOn(c, d) \in Groups
  BY MarkDecides, UnmarkedDay DEF NotesTypeOK, RegisterTypeOK
<1>2. groupOn(c, d) # None
  BY <1>1, RegisterAssumption
<1>3. childDays(c)[d] \in {"present", "unmarked"}
  BY DEF childDays
<1> QED  BY <1>2, <1>3 DEF expectedPresence

LEMMA OneState ==
  ASSUME NotesTypeOK, NEW g \in Groups, NEW d \in Dates, NEW c \in childrenOf(g, d, d)
  PROVE  /\ day(g, d)[c] = childDays(c)[d]
         /\ day(g, d)[c] \in {"present", "unmarked"} => <<c, d>> \in expectedPresence
<1>1. c \in Children
  BY DEF childrenOf
<1>2. day(g, d)[c] = resolveDay(c, d, working(d, g))
  BY DEF day
<1>3. childDays(c)[d] = resolveDay(c, d, working(d, groupOn(c, d)))
  BY DEF childDays
<1>4. resolveDay(c, d, working(d, g)) = resolveDay(c, d, working(d, groupOn(c, d)))
  <2>1. CASE activeMarks(c, d) # {}
    BY <2>1, MarkDecides
  <2>2. CASE activeMarks(c, d) = {}
    <3>1. d..d = {d}
      BY DEF Dates
    <3>2. member[c] = g
      BY <2>2, <3>1 DEF childrenOf
    <3>3. groupOn(c, d) = g
      BY <2>2, <3>2, UnmarkedDay
    <3> QED  BY <3>3
  <2> QED  BY <2>1, <2>2
<1> QED  BY <1>1, <1>2, <1>3, <1>4, ExpectedPresence

LEMMA NotesFollow ==
  ASSUME NotesTypeOK, NEW g \in Groups, NEW d \in Dates, NEW c \in expected(g, d)
  PROVE  <<c, d>> \in expectedPresence
<1>1. /\ c \in Children /\ member[c] = g /\ working(d, g)
      /\ resolveDay(c, d, working(d, g)) \notin {"absent", "expected_absent"}
  BY DEF expected, isAbsent
<1>2. resolveDay(c, d, working(d, groupOn(c, d))) \in {"present", "unmarked"}
  <2>1. CASE activeMarks(c, d) # {}
    BY <2>1, <1>1, MarkDecides
  <2>2. CASE activeMarks(c, d) = {}
    <3>1. groupOn(c, d) = g
      BY <1>1, <2>2, UnmarkedDay
    <3>2. resolveDay(c, d, working(d, g)) = "unmarked"
      BY <1>1, <2>2, UnmarkedDay
    <3> QED  BY <3>1, <3>2
  <2> QED  BY <2>1, <2>2
<1> QED  BY <1>1, <1>2, ExpectedPresence

(* A child has one standing mark a day, because a save voids all it finds  *)
(* of the children it has locked; every view tells the same of the day;    *)
(* and notes are expected only where the register expects the child.       *)
THEOREM ViewsOfADayAgree == NotesSpec => []ViewsAgree
<1>1. RegisterInv => OneMarkPerDay
  <2> SUFFICES ASSUME RegisterInv, NEW c \in Children, NEW d \in Dates
               PROVE  Cardinality(activeMarks(c, d)) <= 1
    BY DEF OneMarkPerDay
  <2>1. activeMarks(c, d) = {} \/ \E m : activeMarks(c, d) = {m}
    BY DEF RegisterInv, OneMark
  <2> QED  BY <2>1, FS_EmptySet, FS_Singleton
<1>2. RegisterInv => OneStateOfADay
  BY OneState DEF RegisterInv, OneStateOfADay
<1>3. RegisterInv => NotesFollowTheRegister
  BY NotesFollow DEF RegisterInv, NotesFollowTheRegister
<1>4. RegisterInv => ViewsAgree
  BY <1>1, <1>2, <1>3 DEF ViewsAgree
<1> QED  BY <1>4, InitRegister, NextRegister, PTL DEF NotesSpec

-----------------------------------------------------------------------------
(* What a step may not do                                                  *)

MarkedDays ==
  \A c \in Children : \A d \in Dates :
    childDays(c)[d] \in {"present", "absent"} <=> activeMarks(c, d) # {}

LEMMA MarkedAreMarked == RegisterInv => MarkedDays
<1> SUFFICES ASSUME RegisterInv, NEW c \in Children, NEW d \in Dates
             PROVE  childDays(c)[d] \in {"present", "absent"} <=> activeMarks(c, d) # {}
  BY DEF MarkedDays
<1>1. childDays(c)[d] = resolveDay(c, d, working(d, groupOn(c, d)))
  BY DEF childDays
<1>2. CASE activeMarks(c, d) # {}
  BY <1>1, <1>2, MarkDecides DEF RegisterInv
<1>3. CASE activeMarks(c, d) = {}
  BY <1>1, <1>3, UnmarkedDay
<1> QED  BY <1>2, <1>3

LEMMA MarksStay ==
  ASSUME RegisterInv, [NotesNext]_notesVars, NEW c \in Children, NEW d \in Dates,
         activeMarks(c, d) # {}
  PROVE  activeMarks(c, d)' # {}
<1>1. CASE mark' = mark
  BY <1>1 DEF activeMarks
<1>2. ASSUME NEW t \in Savers, WriteMarks(t) PROVE activeMarks(c, d)' # {}
  <2> PICK id \in [changed(t) -> Marks] :
        \A m \in Marks : m \in activeMarks(c, d)' <=>
          IF c \in changed(t) /\ d = saving[t].date
          THEN m = id[c] ELSE m \in activeMarks(c, d)
    BY <1>2, MarksLeft
  <2>1. activeMarks(c, d) \subseteq Marks
    BY DEF activeMarks
  <2> QED  BY <2>1
<1>3. \/ mark' = mark
      \/ \E t \in Savers : WriteMarks(t)
  <2>1. CASE NotesStep
    BY <2>1 DEF NotesStep, BeginNotes, LockNoted, LockSets, WriteNotes, createSet,
                updateSet, removeSet, unchangedRegister
  <2>2. CASE RegisterNext
    BY <2>2 DEF RegisterNext, BeginMarks, LockMarked, Abandon, createEntry, voidEntry,
                decideNotice, updateReason, setEditDays, moveChild, NextDay
  <2>3. CASE UNCHANGED notesVars
    BY <2>3 DEF notesVars, registerVars
  <2> QED  BY <2>1, <2>2, <2>3 DEF NotesNext
<1> QED  BY <1>1, <1>2, <1>3

(* A day that was marked stays marked, as present or absent: a save gives  *)
(* a mark to every child of which it voids one.                            *)
THEOREM MarkedStays == NotesSpec => MarkedStaysMarked
<1>1. RegisterInv /\ RegisterInv' /\ [NotesNext]_notesVars
        => [\A c \in Children : \A d \in Dates :
              childDays(c)[d] \in {"present", "absent"} =>
                childDays(c)'[d] \in {"present", "absent"}]_registerVars
  <2> SUFFICES ASSUME RegisterInv, RegisterInv', [NotesNext]_notesVars,
                      NEW c \in Children, NEW d \in Dates,
                      childDays(c)[d] \in {"present", "absent"}
               PROVE  childDays(c)'[d] \in {"present", "absent"}
    OBVIOUS
  <2>1. MarkedDays
    BY MarkedAreMarked
  <2>2. MarkedDays'
    BY MarkedAreMarked, PTL
  <2>3. activeMarks(c, d)' # {}
    BY <2>1, MarksStay DEF MarkedDays
  <2> QED  BY <2>2, <2>3 DEF MarkedDays
<1> QED  BY <1>1, InitRegister, NextRegister, PTL DEF NotesSpec, MarkedStaysMarked

(* An answer is given only to a question that is asked and for a child     *)
(* that is in the group at that moment: both are locked since they were    *)
(* looked up.                                                              *)
THEOREM AnsweredAsked == NotesSpec => AnsweredWhileAsked
<1>1. RegisterInv /\ [NotesNext]_notesVars
        => [\A a \in Answers : answer[a] = None /\ answer'[a] # None =>
              LET q == answer'[a].question IN
              /\ question[q].active /\ set[question[q].set].active
              /\ member[answer'[a].child] = answer'[a].group]_notesVars
  <2> SUFFICES ASSUME RegisterInv, [NotesNext]_notesVars, NEW a \in Answers,
                      answer[a] = None, answer'[a] # None
               PROVE  LET q == answer'[a].question IN
                      /\ question[q].active /\ set[question[q].set].active
                      /\ member[answer'[a].child] = answer'[a].group
    OBVIOUS
  <2>1. \/ answer' = answer
        \/ \E t \in Savers : WriteNotes(t)
    BY DEF NotesNext, NotesStep, BeginNotes, LockNoted, LockSets, createSet,
           updateSet, removeSet, notesVars
  <2>2. PICK t \in Savers : WriteNotes(t)
    BY <2>1
  <2> PICK id \in [renewed(t) -> {b \in Answers : answer[b] = None}] :
        /\ \A b \in dropped(t) :
             /\ b \in Answers /\ answer[b] \in AnswerRows /\ answer[b] # None
             /\ answer'[b] = [answer[b] EXCEPT !.voided = TRUE]
        /\ \A p \in renewed(t) : answer'[id[p]] = noted(t, p)
        /\ \A b \in Answers :
             b \in dropped(t) \/ (\E p \in renewed(t) : id[p] = b) \/ answer'[b] = answer[b]
    BY <2>2, NotesWritten
  <2>3. a \notin dropped(t) /\ answer'[a] # answer[a]
    OBVIOUS
  <2>4. PICK p \in renewed(t) : id[p] = a
    BY <2>3
  <2>5. answer'[a] = noted(t, p)
    BY <2>4
  <2> QED  BY <2>2, <2>5, NotesAsked
<1> QED  BY <1>1, InitRegister, NextRegister, PTL DEF NotesSpec, AnsweredWhileAsked

-----------------------------------------------------------------------------
(* Meals                                                                   *)

(* The columns, without what the requests are about.                       *)
Tables ==
  /\ menu \in [Days -> MenuRow \cup {None}]
  /\ rows \in 0..MaxRows
  /\ order \in [Orders -> OrderRow \cup {None}]
  /\ notice \in [Notices -> NoticeRow \cup {None}]
  /\ deadline \in Cuts /\ now \in Instants

Requests ==
  OrderTx \cup CancelTx \cup NoticeTx \cup SaveTx \cup FillTx \cup UnpublishTx
  \cup DeleteTx

(* A request that has locked the child, and one that has chosen.           *)
Ordering(t) == Doing(t, "order") /\ tx[t].step # "child"
Writing(t) == Doing(t, "order") /\ tx[t].step = "write"

(* What is chosen is chosen for the days of the wish.                      *)
TxTypes ==
  /\ tx \in [Txs -> Requests \cup {None}]
  /\ \A t \in Txs : Writing(t) => DOMAIN tx[t].chosen = DOMAIN tx[t].wish

MealTypes == Tables /\ TxTypes

-----------------------------------------------------------------------------
(* A request that orders, or reports an absence, is one.                   *)
LEMMA OrderType ==
  ASSUME MealTypes, NEW t \in Txs, Doing(t, "order")
  PROVE  tx[t] \in OrderTx
BY DEF MealTypes, TxTypes, Requests, Doing, OrderTx, CancelTx, NoticeTx, SaveTx, FillTx,
       UnpublishTx, DeleteTx

LEMMA CancelType ==
  ASSUME MealTypes, NEW t \in Txs, Doing(t, "cancel")
  PROVE  tx[t] \in CancelTx
BY DEF MealTypes, TxTypes, Requests, Doing, OrderTx, CancelTx, NoticeTx, SaveTx, FillTx,
       UnpublishTx, DeleteTx

LEMMA NoticeType ==
  ASSUME MealTypes, NEW t \in Txs, Doing(t, "notice")
  PROVE  tx[t] \in NoticeTx
BY DEF MealTypes, TxTypes, Requests, Doing, OrderTx, CancelTx, NoticeTx, SaveTx, FillTx,
       UnpublishTx, DeleteTx

LEMMA SaveType ==
  ASSUME MealTypes, NEW t \in Txs, Doing(t, "save")
  PROVE  tx[t] \in SaveTx
BY DEF MealTypes, TxTypes, Requests, Doing, OrderTx, CancelTx, NoticeTx, SaveTx, FillTx,
       UnpublishTx, DeleteTx

LEMMA FillType ==
  ASSUME MealTypes, NEW t \in Txs, Doing(t, "fill")
  PROVE  tx[t] \in FillTx
BY DEF MealTypes, TxTypes, Requests, Doing, OrderTx, CancelTx, NoticeTx, SaveTx, FillTx,
       UnpublishTx, DeleteTx

LEMMA UnpublishType ==
  ASSUME MealTypes, NEW t \in Txs, Doing(t, "unpublish")
  PROVE  tx[t] \in UnpublishTx
BY DEF MealTypes, TxTypes, Requests, Doing, OrderTx, CancelTx, NoticeTx, SaveTx, FillTx,
       UnpublishTx, DeleteTx

LEMMA DeleteType ==
  ASSUME MealTypes, NEW t \in Txs, Doing(t, "delete")
  PROVE  tx[t] \in DeleteTx
BY DEF MealTypes, TxTypes, Requests, Doing, OrderTx, CancelTx, NoticeTx, SaveTx, FillTx,
       UnpublishTx, DeleteTx

(* What a wish says of a day of it.                                        *)
LEMMA WishType ==
  ASSUME NEW wish \in UNION {[D -> Wish] : D \in SUBSET Days}
  PROVE  /\ DOMAIN wish \in SUBSET Days
         /\ \A d \in DOMAIN wish : wish[d] \in Wish
OBVIOUS

LEMMA PlanType ==
  ASSUME NEW plan \in UNION {[D -> SUBSET Dishes] : D \in SUBSET Days}
  PROVE  /\ DOMAIN plan \in SUBSET Days
         /\ \A d \in DOMAIN plan : plan[d] \in SUBSET Dishes
OBVIOUS

LEMMA ChosenType ==
  ASSUME NEW chosen \in UNION {[D -> Choice] : D \in SUBSET Days}
  PROVE  \A d \in DOMAIN chosen : chosen[d] \in Choice
OBVIOUS

(* A dish for every course is of the menu.                                 *)
LEMMA ChosenFromMenu ==
  ASSUME NEW courses, NEW dishes, NEW picked, validChoice(courses, dishes, picked)
  PROVE  resolveChoices(courses, dishes, picked) \subseteq dishes
BY DEF validChoice, resolveChoices, options

-----------------------------------------------------------------------------
(* What a request may become: any request that has not chosen, or nothing. *)
LEMMA RequestTyped ==
  ASSUME MealTypes, NEW t \in Txs, NEW r \in Requests \cup {None},
         tx' = [tx EXCEPT ![t] = r],
         r # None => r.op # "order" \/ r.step # "write" \/ DOMAIN r.chosen = DOMAIN r.wish
  PROVE  TxTypes'
<1>1. tx' \in [Txs -> Requests \cup {None}]
  BY DEF MealTypes, TxTypes
<1>2. ASSUME NEW u \in Txs, Writing(u)'
      PROVE  DOMAIN tx'[u].chosen = DOMAIN tx'[u].wish
  <2>1. CASE u = t
    BY <1>2, <2>1 DEF Writing, Doing, MealTypes, TxTypes
  <2>2. CASE u # t
    <3>1. tx'[u] = tx[u]
      BY <2>2 DEF MealTypes, TxTypes
    <3> QED
      BY <1>2, <3>1 DEF Writing, Doing, MealTypes, TxTypes
  <2> QED
    BY <2>1, <2>2
<1> QED
  BY <1>1, <1>2 DEF TxTypes

LEMMA EndTyped ==
  ASSUME MealTypes, NEW t \in Txs, End(t)
  PROVE  TxTypes'
BY RequestTyped DEF End

LEMMA SameTxTyped ==
  ASSUME MealTypes, UNCHANGED tx
  PROVE  TxTypes'
BY DEF MealTypes, TxTypes, Writing, Doing

LEMMA MenuIdsType ==
  ASSUME MealTypes, NEW D
  PROVE  /\ MenuIds(D) \subseteq Ids
         /\ \A d \in D : d \in Days /\ menu[d] # None => menu[d].id \in MenuIds(D)
BY DEF MealTypes, Tables, MenuIds, Rows, MenuRow

LEMMA CancelTyped ==
  ASSUME MealTypes, NEW os \in SUBSET Rows(order)
  PROVE  cancelOrders(os) \in [Orders -> OrderRow \cup {None}]
<1>1. ASSUME NEW o \in os
      PROVE  [order[o] EXCEPT !.cancelled = TRUE, !.charge = "voided"] \in OrderRow
  <2>1. order[o] \in OrderRow
    BY DEF MealTypes, Tables, Rows
  <2> QED
    BY <2>1 DEF OrderRow
<1> QED
  BY <1>1 DEF MealTypes, Tables, cancelOrders

(* Ordering.                                                               *)
LEMMA OrderTypes ==
  ASSUME MealTypes, OrderNext
  PROVE  MealTypes'
<1>1. ASSUME NEW t \in Txs, NEW c \in Children, NEW wish \in Wishes,
             NEW parent \in BOOLEAN, BeginOrder(t, c, wish, parent)
      PROVE  MealTypes'
  <2> DEFINE none == [d \in {} |-> None]
  <2>1. wish \in UNION {[D -> Wish] : D \in SUBSET Days}
    BY InputAssumption
  <2>2. DOMAIN wish \in SUBSET Days
    BY <2>1, WishType
  <2>3. none \in UNION {[D -> Choice] : D \in SUBSET Days}
    <3>1. none \in [{} -> Choice]
      OBVIOUS
    <3> QED
      BY <3>1
  <2> DEFINE early == {d \in DOMAIN wish : isBeforeDeadline(d, deadline, now)}
  <2>4. early \in SUBSET Days
    BY <2>2
  <2> HIDE DEF none, early
  <2> DEFINE r == [op |-> "order", child |-> c, wish |-> wish, parent |-> parent,
                   early |-> early, step |-> "child", found |-> {}, knew |-> {},
                   chosen |-> none]
  <2>5. r \in OrderTx
    BY <2>1, <2>3, <2>4 DEF OrderTx
  <2>6. tx' = [tx EXCEPT ![t] = r]
    BY <1>1 DEF BeginOrder, Begin, none, early
  <2> HIDE DEF r
  <2>7. TxTypes'
    <3>1. r.step # "write"
      BY DEF r
    <3> QED
      BY <2>5, <2>6, <3>1, RequestTyped DEF Requests
  <2> QED
    BY <1>1, <2>7 DEF BeginOrder, MealTypes, Tables, menus, clock
<1>2. ASSUME NEW t \in Txs, LockChild(t)
      PROVE  MealTypes'
  <2>1. tx[t] \in OrderTx
    BY <1>2, OrderType DEF LockChild
  <2>2. /\ MenuIds(DOMAIN tx[t].wish) \in SUBSET Ids
        /\ approved \in SUBSET Notices
    BY MenuIdsType DEF approved, Rows, MealTypes, Tables
  <2>3. Locked(t) \in OrderTx
    BY <2>1, <2>2 DEF Locked, OrderTx
  <2>4. Locked(t).step # "write"
    BY <2>1 DEF Locked, OrderTx
  <2>5. TxTypes'
    BY <1>2, <2>3, <2>4, RequestTyped DEF LockChild, Continue, Requests
  <2> QED
    BY <1>2, <2>5 DEF LockChild, MealTypes, Tables, menus, clock
<1>3. ASSUME NEW t \in Txs, Choose(t)
      PROVE  MealTypes'
  <2> DEFINE D == DOMAIN tx[t].wish
  <2> DEFINE chosen == [d \in D |-> chosenOn(t, d)]
  <2>1. tx[t] \in OrderTx
    BY <1>3, OrderType DEF Choose
  <2>2. tx[t].wish \in UNION {[E -> Wish] : E \in SUBSET Days}
    BY <2>1 DEF OrderTx
  <2>3. D \in SUBSET Days /\ \A d \in D : tx[t].wish[d] \in Wish
    BY <2>2, WishType
  <2>4. ASSUME NEW d \in D
        PROVE  chosenOn(t, d) \in Choice
    <3>1. Orderable(t, d)
      BY <1>3 DEF Choose
    <3>2. menu[d] \in MenuRow
      BY <2>3, <3>1 DEF Orderable, MealTypes, Tables
    <3>3. resolveChoices(tx[t].wish[d].courses, menu[d].dishes,
                         tx[t].wish[d].dishes) \subseteq menu[d].dishes
      BY <3>1, ChosenFromMenu DEF Orderable
    <3> QED
      BY <3>2, <3>3 DEF chosenOn, MenuRow, Choice
  <2>5. chosen \in UNION {[E -> Choice] : E \in SUBSET Days}
    <3>1. chosen \in [D -> Choice]
      BY <2>4
    <3> QED
      BY <2>3, <3>1
  <2>6. tx' = [tx EXCEPT ![t] = [tx[t] EXCEPT !.step = "write", !.chosen = chosen]]
    BY <1>3 DEF Choose, Continue
  <2> HIDE DEF chosen
  <2> DEFINE r == [tx[t] EXCEPT !.step = "write", !.chosen = chosen]
  <2>7. r \in OrderTx /\ r.chosen = chosen /\ r.wish = tx[t].wish
    BY <2>1, <2>5 DEF OrderTx
  <2> HIDE DEF r
  <2>8. TxTypes'
    <3>1. tx' = [tx EXCEPT ![t] = r]
      BY <2>6 DEF r
    <3>2. DOMAIN chosen = DOMAIN tx[t].wish
      BY DEF chosen
    <3> QED
      BY <2>7, <3>1, <3>2, RequestTyped DEF Requests
  <2> QED
    BY <1>3, <2>8 DEF Choose, MealTypes, Tables, menus, clock
<1>4. ASSUME NEW t \in Txs, Write(t)
      PROVE  MealTypes'
  <2>1. tx[t] \in OrderTx /\ DOMAIN tx[t].chosen = DOMAIN tx[t].wish
    BY <1>4, OrderType DEF Write, MealTypes, TxTypes, Writing
  <2>2. tx[t].wish \in UNION {[E -> Wish] : E \in SUBSET Days}
        /\ tx[t].chosen \in UNION {[E -> Choice] : E \in SUBSET Days}
    BY <2>1 DEF OrderTx
  <2>3. \A d \in DOMAIN tx[t].wish : d \in Days /\ tx[t].chosen[d] \in Choice
    BY <2>1, <2>2, WishType, ChosenType
  <2>4. \A d \in DOMAIN tx[t].wish : newOrder(t, d) \in OrderRow
    BY <2>1, <2>3 DEF newOrder, OrderTx, OrderRow, Choice
  <2>5. order' \in [Orders -> OrderRow \cup {None}]
    BY <1>4, <2>4 DEF Write, MealTypes, Tables
  <2>6. TxTypes'
    BY <1>4, EndTyped DEF Write
  <2> QED
    BY <1>4, <2>5, <2>6 DEF Write, MealTypes, Tables, menus, clock
<1>5. ASSUME NEW t \in Txs, NEW o \in Orders, NEW parent \in BOOLEAN,
             BeginCancel(t, o, parent)
      PROVE  MealTypes'
  <2> DEFINE r == [op |-> "cancel", order |-> o]
  <2>1. r \in CancelTx /\ r.op # "order"
    BY DEF CancelTx
  <2>2. tx' = [tx EXCEPT ![t] = r]
    BY <1>5 DEF BeginCancel, Begin
  <2> HIDE DEF r
  <2>3. TxTypes'
    BY <2>1, <2>2, RequestTyped DEF Requests
  <2> QED
    BY <1>5, <2>3 DEF BeginCancel, MealTypes, Tables, menus, clock
<1>6. ASSUME NEW t \in Txs, Cancel(t)
      PROVE  MealTypes'
  <2>1. order' \in [Orders -> OrderRow \cup {None}]
    BY <1>6, CancelTyped DEF Cancel, active
  <2>2. TxTypes'
    BY <1>6, EndTyped DEF Cancel
  <2> QED
    BY <1>6, <2>1, <2>2 DEF Cancel, MealTypes, Tables, menus, clock
<1>7. ASSUME NEW o \in Orders, VoidCharge(o)
      PROVE  MealTypes'
  <2>1. [order[o] EXCEPT !.charge = "voided"] \in OrderRow
    BY <1>7 DEF VoidCharge, Rows, MealTypes, Tables, OrderRow
  <2>2. order' \in [Orders -> OrderRow \cup {None}]
    BY <1>7, <2>1 DEF VoidCharge, MealTypes, Tables
  <2>3. TxTypes'
    BY <1>7, SameTxTyped DEF VoidCharge
  <2> QED
    BY <1>7, <2>2, <2>3 DEF VoidCharge, MealTypes, Tables, menus, clock
<1> QED
  BY <1>1, <1>2, <1>3, <1>4, <1>5, <1>6, <1>7 DEF OrderNext

(* The kitchen.                                                            *)
LEMMA MenuTypes ==
  ASSUME MealTypes, MenuNext
  PROVE  MealTypes'
<1>1. ASSUME NEW t \in Txs, NEW d \in Days, NEW dishes \in Plates,
             BeginSave(t, d, dishes)
      PROVE  MealTypes'
  <2> DEFINE r == [op |-> "save", date |-> d, dishes |-> dishes, id |-> idOn(d)]
  <2>1. r \in SaveTx /\ r.op # "order"
    BY InputAssumption DEF SaveTx, idOn, MealTypes, Tables, MenuRow
  <2>2. tx' = [tx EXCEPT ![t] = r]
    BY <1>1 DEF BeginSave, Begin
  <2> HIDE DEF r
  <2>3. TxTypes'
    BY <2>1, <2>2, RequestTyped DEF Requests
  <2> QED
    BY <1>1, <2>3 DEF BeginSave, MealTypes, Tables, menus, clock
<1>2. ASSUME NEW t \in Txs, SaveExisting(t) \/ SaveOther(t) \/ SaveNew(t)
      PROVE  MealTypes'
  <2>1. tx[t] \in SaveTx
    BY <1>2, SaveType DEF SaveExisting, SaveOther, SaveNew
  <2>2. TxTypes'
    BY <1>2, EndTyped DEF SaveExisting, SaveOther, SaveNew
  <2>3. CASE SaveExisting(t) \/ SaveOther(t)
    <3>1. menu[tx[t].date] \in MenuRow
      BY <2>1, <2>3 DEF SaveExisting, SaveOther, idOn, SaveTx, MealTypes, Tables
    <3>2. menu' \in [Days -> MenuRow \cup {None}]
      BY <2>1, <2>3, <3>1 DEF SaveExisting, SaveOther, SaveTx, MenuRow, MealTypes, Tables
    <3> QED
      BY <2>2, <2>3, <3>2 DEF SaveExisting, SaveOther, MealTypes, Tables, clock
  <2>4. CASE SaveNew(t)
    <3>1. rows + 1 \in Ids
      BY <2>4, InputAssumption DEF SaveNew, MealTypes, Tables, Ids
    <3>2. Draft(rows + 1, tx[t].dishes) \in MenuRow
      BY <2>1, <3>1 DEF Draft, MenuRow, SaveTx, MenuStatus
    <3>3. menu' \in [Days -> MenuRow \cup {None}]
      BY <2>1, <2>4, <3>2 DEF SaveNew, SaveTx, MealTypes, Tables
    <3>4. rows' \in 0..MaxRows
      BY <2>4, InputAssumption DEF SaveNew, MealTypes, Tables
    <3> QED
      BY <2>2, <2>4, <3>3, <3>4 DEF SaveNew, MealTypes, Tables, clock
  <2> QED
    BY <1>2, <2>3, <2>4
<1>3. ASSUME NEW D \in SUBSET Days, Publish(D)
      PROVE  MealTypes'
  <2>1. \A d \in publishable(D) :
          d \in Days /\ [menu[d] EXCEPT !.status = "published"] \in MenuRow
    BY DEF publishable, Rows, MenuRow, MenuStatus, MealTypes, Tables
  <2>2. menu' \in [Days -> MenuRow \cup {None}]
    BY <1>3, <2>1 DEF Publish, MealTypes, Tables
  <2>3. TxTypes'
    BY <1>3, SameTxTyped DEF Publish
  <2> QED
    BY <1>3, <2>2, <2>3 DEF Publish, MealTypes, Tables, clock
<1>4. ASSUME NEW t \in Txs, NEW D \in SUBSET Days, BeginUnpublish(t, D)
      PROVE  MealTypes'
  <2> DEFINE ids == {menu[d].id : d \in {d \in D \cap Rows(menu) : menu[d].status = "published"}}
  <2> DEFINE r == [op |-> "unpublish", ids |-> ids]
  <2>1. ids \in SUBSET Ids
    BY DEF Rows, MenuRow, MealTypes, Tables
  <2>2. tx' = [tx EXCEPT ![t] = r]
    BY <1>4 DEF BeginUnpublish, Begin
  <2> HIDE DEF ids
  <2>3. r \in UnpublishTx /\ r.op # "order"
    BY <2>1 DEF UnpublishTx
  <2> HIDE DEF r
  <2>4. TxTypes'
    BY <2>2, <2>3, RequestTyped DEF Requests
  <2> QED
    BY <1>4, <2>4 DEF BeginUnpublish, MealTypes, Tables, menus, clock
<1>5. ASSUME NEW t \in Txs, Unpublish(t)
      PROVE  MealTypes'
  <2>1. \A d \in Rows(menu) :
          d \in Days /\ [menu[d] EXCEPT !.status = "draft"] \in MenuRow
    BY DEF Rows, MenuRow, MenuStatus, MealTypes, Tables
  <2>2. menu' \in [Days -> MenuRow \cup {None}]
    BY <1>5, <2>1 DEF Unpublish, MealTypes, Tables
  <2>3. TxTypes'
    BY <1>5, EndTyped DEF Unpublish
  <2> QED
    BY <1>5, <2>2, <2>3 DEF Unpublish, MealTypes, Tables, clock
<1>6. ASSUME NEW t \in Txs, NEW D \in SUBSET Days, NEW overwrite \in BOOLEAN,
             NEW plan \in [D -> Plates], BeginFill(t, plan, overwrite)
      PROVE  MealTypes'
  <2> DEFINE seen == seenFor(DOMAIN plan)
  <2> DEFINE r == [op |-> "fill", plan |-> plan, overwrite |-> overwrite, seen |-> seen]
  <2>1. plan \in UNION {[E -> SUBSET Dishes] : E \in SUBSET Days}
    <3>1. plan \in [D -> SUBSET Dishes]
      BY InputAssumption
    <3> QED
      BY <3>1
  <2>2. seen \in [Days -> MenuRow \cup {None}]
    BY DEF seenFor, MealTypes, Tables
  <2>3. tx' = [tx EXCEPT ![t] = r]
    BY <1>6 DEF BeginFill, Begin
  <2> HIDE DEF seen
  <2>4. r \in FillTx /\ r.op # "order"
    BY <2>1, <2>2 DEF FillTx
  <2> HIDE DEF r
  <2>5. TxTypes'
    BY <2>3, <2>4, RequestTyped DEF Requests
  <2> QED
    BY <1>6, <2>5 DEF BeginFill, MealTypes, Tables, menus, clock
<1>7. ASSUME NEW t \in Txs, Fill(t)
      PROVE  MealTypes'
  <2> DEFINE n == Cardinality(created(t))
  <2>1. tx[t] \in FillTx
    BY <1>7, FillType DEF Fill
  <2>2. tx[t].plan \in UNION {[E -> SUBSET Dishes] : E \in SUBSET Days}
    BY <2>1 DEF FillTx
  <2>3. \A d \in DOMAIN tx[t].plan : d \in Days /\ tx[t].plan[d] \in SUBSET Dishes
    BY <2>2, PlanType
  <2>4. n \in Nat
    <3>1. created(t) \in SUBSET Days
      BY <2>3 DEF created
    <3> QED
      BY <3>1, FS_Subset, FS_CardinalityType, InputAssumption
  <2>5. PICK id \in [created(t) -> rows + 1 .. rows + n] :
          menu' = [d \in Days |->
                     IF d \in created(t) THEN Draft(id[d], tx[t].plan[d])
                     ELSE IF d \in overwritten(t)
                     THEN [menu[d] EXCEPT !.dishes = tx[t].plan[d]]
                     ELSE menu[d]]
    BY <1>7 DEF Fill
  <2>6. rows + 1 .. rows + n \subseteq Ids /\ rows' \in 0..MaxRows
    <3>1. rows \in Nat /\ rows + n <= MaxRows /\ rows' = rows + n /\ MaxRows \in Nat
      BY <1>7, InputAssumption DEF Fill, MealTypes, Tables
    <3> HIDE DEF n
    <3> QED
      BY <2>4, <3>1 DEF Ids
  <2> HIDE DEF n
  <2>7. \A d \in created(t) : Draft(id[d], tx[t].plan[d]) \in MenuRow
    <3>1. \A d \in created(t) : id[d] \in Ids /\ tx[t].plan[d] \in SUBSET Dishes
      BY <2>3, <2>5, <2>6 DEF created
    <3> QED
      BY <3>1 DEF Draft, MenuRow, MenuStatus
  <2>8. \A d \in overwritten(t) : [menu[d] EXCEPT !.dishes = tx[t].plan[d]] \in MenuRow
    <3>1. ASSUME NEW d \in overwritten(t)
          PROVE  d \in Days /\ menu[d] \in MenuRow /\ tx[t].plan[d] \in SUBSET Dishes
      <4>1. d \in DOMAIN tx[t].plan /\ d \in Rows(tx[t].seen)
        BY DEF overwritten, seenDrafts
      <4>2. tx[t].seen[d] \in MenuRow
        BY <2>1, <4>1 DEF Rows, FillTx
      <4>3. idOn(d) \in Ids
        BY <1>7, <4>2 DEF Fill, MenuRow
      <4> QED
        BY <2>3, <4>1, <4>3, NoneAssumption DEF idOn, MealTypes, Tables
    <3> QED
      BY <3>1 DEF MenuRow
  <2>9. menu' \in [Days -> MenuRow \cup {None}]
    BY <2>5, <2>7, <2>8 DEF MealTypes, Tables
  <2>10. TxTypes'
    BY <1>7, EndTyped DEF Fill
  <2> QED
    BY <1>7, <2>6, <2>9, <2>10 DEF Fill, MealTypes, Tables, clock
<1>8. ASSUME NEW t \in Txs, NEW d \in Days, BeginDelete(t, d)
      PROVE  MealTypes'
  <2> DEFINE r == [op |-> "delete", date |-> d, id |-> menu[d].id]
  <2>1. r \in DeleteTx /\ r.op # "order"
    BY <1>8 DEF BeginDelete, DeleteTx, MealTypes, Tables, MenuRow
  <2>2. tx' = [tx EXCEPT ![t] = r]
    BY <1>8 DEF BeginDelete, Begin
  <2> HIDE DEF r
  <2>3. TxTypes'
    BY <2>1, <2>2, RequestTyped DEF Requests
  <2> QED
    BY <1>8, <2>3 DEF BeginDelete, MealTypes, Tables, menus, clock
<1>9. ASSUME NEW t \in Txs, Delete(t)
      PROVE  MealTypes'
  <2>1. menu' \in [Days -> MenuRow \cup {None}]
    BY <1>9 DEF Delete, MealTypes, Tables
  <2>2. TxTypes'
    BY <1>9, EndTyped DEF Delete
  <2> QED
    BY <1>9, <2>1, <2>2 DEF Delete, MealTypes, Tables, clock
<1> QED
  BY <1>1, <1>2, <1>3, <1>4, <1>5, <1>6, <1>7, <1>8, <1>9 DEF MenuNext

(* The notices, the setting, the clock and requests that fail.             *)
LEMMA NoticeTypes ==
  ASSUME MealTypes, NoticeNext
  PROVE  MealTypes'
<1>1. ASSUME NEW t \in Txs, NEW c \in Children, NEW from \in Days, NEW to \in Days,
             BeginNotice(t, c, from, to)
      PROVE  MealTypes'
  <2> DEFINE r == [op |-> "notice", child |-> c, start |-> from, end |-> to]
  <2>1. r \in NoticeTx /\ r.op # "order"
    BY DEF NoticeTx
  <2>2. tx' = [tx EXCEPT ![t] = r]
    BY <1>1 DEF BeginNotice, Begin
  <2> HIDE DEF r
  <2>3. TxTypes'
    BY <2>1, <2>2, RequestTyped DEF Requests
  <2> QED
    BY <1>1, <2>3 DEF BeginNotice, MealTypes, Tables, menus, clock
<1>2. ASSUME NEW t \in Txs, NEW n \in Notices, CreateNotice(t, n)
      PROVE  MealTypes'
  <2>1. tx[t] \in NoticeTx
    BY <1>2, NoticeType DEF CreateNotice
  <2>2. notice' \in [Notices -> NoticeRow \cup {None}]
    BY <1>2, <2>1 DEF CreateNotice, NoticeTx, NoticeRow, NoticeStatus, MealTypes, Tables
  <2>3. TxTypes'
    BY <1>2, EndTyped DEF CreateNotice
  <2> QED
    BY <1>2, <2>2, <2>3 DEF CreateNotice, MealTypes, Tables, menus, clock
<1>3. ASSUME NEW n \in Notices, Approve(n)
      PROVE  MealTypes'
  <2>1. notice[n] \in NoticeRow /\ inTime(n) \in SUBSET Days
    BY <1>3 DEF Approve, Rows, inTime, MealTypes, Tables
  <2>2. notice' = [notice EXCEPT ![n] = [notice[n] EXCEPT !.status = "approved",
                                                          !.cleared = inTime(n)]]
    BY <1>3 DEF Approve, MealTypes, Tables
  <2>3. notice' \in [Notices -> NoticeRow \cup {None}]
    BY <2>1, <2>2 DEF NoticeRow, NoticeStatus, MealTypes, Tables
  <2>4. order' \in [Orders -> OrderRow \cup {None}]
    BY <1>3, CancelTyped DEF Approve, active
  <2>5. TxTypes'
    BY <1>3, SameTxTyped DEF Approve
  <2> QED
    BY <1>3, <2>3, <2>4, <2>5 DEF Approve, MealTypes, Tables, menus, clock
<1>4. ASSUME NEW n \in Notices, NEW from, NEW to \in NoticeStatus, Decide(n, from, to)
      PROVE  MealTypes'
  <2>1. notice[n] \in NoticeRow
    BY <1>4 DEF Decide, Rows, MealTypes, Tables
  <2>2. notice' \in [Notices -> NoticeRow \cup {None}]
    BY <1>4, <2>1 DEF Decide, NoticeRow, MealTypes, Tables
  <2>3. TxTypes'
    BY <1>4, SameTxTyped DEF Decide
  <2> QED
    BY <1>4, <2>2, <2>3 DEF Decide, MealTypes, Tables, menus, clock
<1> QED
  BY <1>1, <1>2, <1>3, <1>4 DEF NoticeNext, NoticeStatus

LEMMA ElsewhereTypes ==
  ASSUME MealTypes, Elsewhere
  PROVE  MealTypes'
<1>1. ASSUME NEW t \in Txs, Fail(t)
      PROVE  MealTypes'
  BY <1>1, EndTyped DEF Fail, MealTypes, Tables, menus, clock
<1>2. CASE Tick
  BY <1>2, SameTxTyped, InputAssumption DEF Tick, MealTypes, Tables, menus, Instants
<1>3. CASE \E cut \in Cuts : SetDeadline(cut)
  BY <1>3, SameTxTyped DEF SetDeadline, MealTypes, Tables, menus
<1> QED
  BY <1>1, <1>2, <1>3 DEF Elsewhere

LEMMA TypesInvariant == Spec => []MealTypes
<1>1. Init => MealTypes
  BY InputAssumption DEF Init, MealTypes, Tables, TxTypes, Instants, Writing, Doing
<1>2. ASSUME MealTypes, [Next]_vars
      PROVE  MealTypes'
  <2>1. CASE UNCHANGED vars
    BY <1>2, <2>1, SameTxTyped DEF vars, MealTypes, Tables
  <2> QED
    BY <1>2, <2>1, OrderTypes, MenuTypes, NoticeTypes, ElsewhereTypes DEF Next
<1> QED
  BY <1>1, <1>2, PTL DEF Spec

(* Whatever the children, days, dishes and requests: menus, orders,        *)
(* notices and requests keep their types.                                  *)
THEOREM TypeCorrect == Spec => []TypeOK
<1>1. MealTypes => TypeOK
  BY DEF MealTypes, Tables, TxTypes, Requests, TypeOK
<1> QED
  BY <1>1, TypesInvariant, PTL

-----------------------------------------------------------------------------
(* Why one order, one notice and no forgotten order.                       *)

(* The child is locked by one request at a time.                           *)
ChildLocked ==
  \A t, u \in Txs, c \in Children : holdsChild(t, c) /\ holdsChild(u, c) => t = u

(* What a request has checked under this lock is still so.                 *)
NoOrderYet ==
  \A t \in Txs : Writing(t) =>
    \A d \in DOMAIN tx[t].wish, o \in active :
      ~(order[o].child = tx[t].child /\ order[o].date = d)

NoNoticeYet ==
  \A t \in Txs : Doing(t, "notice") =>
    \A n \in Rows(notice) :
      ~(/\ notice[n].child = tx[t].child /\ standing(n)
        /\ notice[n].start <= tx[t].end /\ tx[t].start <= notice[n].end)

(* No notice of the child is approved behind the back of its order.        *)
KnowsApproved ==
  \A t \in Txs : Ordering(t) =>
    \A n \in approved : notice[n].child = tx[t].child => n \in tx[t].knew

CancelledIsFree ==
  \A o \in Rows(order) : order[o].cancelled => order[o].charge = "voided"

Checked ==
  /\ ChildLocked
  /\ NoOrderYet
  /\ NoNoticeYet
  /\ KnowsApproved
  /\ CancelledIsFree
  /\ OneOrderPerDay
  /\ NoticesDoNotOverlap
  /\ ApprovalClearsOrders

(* A step that locks no child, and one that writes nothing either.         *)
LocksNone ==
  \A u \in Txs : /\ Ordering(u)' => Ordering(u) /\ tx'[u] = tx[u]
                 /\ Doing(u, "notice")' => Doing(u, "notice") /\ tx'[u] = tx[u]

Quiet == UNCHANGED <<order, notice>> /\ LocksNone

LEMMA QuietKeeps ==
  ASSUME Checked, Quiet
  PROVE  Checked'
<1>1. active' = active /\ approved' = approved /\ Rows(order)' = Rows(order)
      /\ Rows(notice)' = Rows(notice) /\ \A n : standing(n)' <=> standing(n)
  BY DEF Quiet, LocksNone, active, approved, Rows, standing
<1>2. \A u \in Txs : \A c : holdsChild(u, c)' => holdsChild(u, c)
  BY DEF Quiet, LocksNone, holdsChild, Ordering, Doing
<1>3. ChildLocked'
  BY <1>2 DEF Checked, ChildLocked
<1>4. \A u \in Txs : Writing(u)' => Writing(u) /\ tx'[u] = tx[u]
  BY DEF Quiet, LocksNone, Writing, Ordering, Doing
<1>5. NoOrderYet'
  BY <1>1, <1>4 DEF Checked, NoOrderYet, Quiet, LocksNone
<1>6. NoNoticeYet'
  BY <1>1 DEF Checked, NoNoticeYet, Quiet, LocksNone
<1>7. KnowsApproved'
  BY <1>1 DEF Checked, KnowsApproved, Quiet, LocksNone
<1>8. CancelledIsFree' /\ OneOrderPerDay'
  BY <1>1 DEF Checked, CancelledIsFree, OneOrderPerDay, Quiet, LocksNone
<1>9. NoticesDoNotOverlap'
  BY <1>1 DEF Checked, NoticesDoNotOverlap, Quiet, LocksNone
<1>10. ApprovalClearsOrders'
  BY <1>1 DEF Checked, ApprovalClearsOrders, Quiet, LocksNone
<1> QED
  BY <1>3, <1>5, <1>6, <1>7, <1>8, <1>9, <1>10 DEF Checked

(* A request that begins otherwise than by locking a child, or ends.       *)
LEMMA OtherRequest ==
  ASSUME MealTypes, NEW t \in Txs, NEW r, tx' = [tx EXCEPT ![t] = r],
         r # None => /\ r.op # "notice"
                     /\ r.op = "order" => r.step = "child",
         UNCHANGED <<order, notice>>
  PROVE  Quiet
<1>1. \A u \in Txs : u # t => tx'[u] = tx[u]
  BY DEF MealTypes, TxTypes
<1>2. tx'[t] = r
  BY DEF MealTypes, TxTypes
<1> QED
  BY <1>1, <1>2 DEF Quiet, LocksNone, Ordering, Doing

LEMMA MenuQuiet ==
  ASSUME MealTypes, MenuNext
  PROVE  Quiet
<1>1. ASSUME NEW t \in Txs, NEW d \in Days, NEW dishes \in Plates,
             BeginSave(t, d, dishes)
      PROVE  Quiet
  BY <1>1, OtherRequest DEF BeginSave, Begin
<1>2. ASSUME NEW t \in Txs, SaveExisting(t) \/ SaveNew(t) \/ SaveOther(t)
      PROVE  Quiet
  BY <1>2, OtherRequest DEF SaveExisting, SaveNew, SaveOther, End
<1>3. ASSUME NEW t \in Txs, NEW D \in SUBSET Days, BeginUnpublish(t, D)
      PROVE  Quiet
  BY <1>3, OtherRequest DEF BeginUnpublish, Begin
<1>4. ASSUME NEW t \in Txs, Unpublish(t) \/ Fill(t) \/ Delete(t)
      PROVE  Quiet
  BY <1>4, OtherRequest DEF Unpublish, Fill, Delete, End
<1>5. ASSUME NEW t \in Txs, NEW plan, NEW overwrite, BeginFill(t, plan, overwrite)
      PROVE  Quiet
  BY <1>5, OtherRequest DEF BeginFill, Begin
<1>6. ASSUME NEW t \in Txs, NEW d \in Days, BeginDelete(t, d)
      PROVE  Quiet
  BY <1>6, OtherRequest DEF BeginDelete, Begin
<1>7. ASSUME NEW D \in SUBSET Days, Publish(D)
      PROVE  Quiet
  BY <1>7 DEF Publish, Quiet, LocksNone, Ordering, Doing
<1> QED
  BY <1>1, <1>2, <1>3, <1>4, <1>5, <1>6, <1>7 DEF MenuNext

LEMMA ElsewhereQuiet ==
  ASSUME MealTypes, Elsewhere
  PROVE  Quiet
<1>1. ASSUME NEW t \in Txs, Fail(t)
      PROVE  Quiet
  BY <1>1, OtherRequest DEF Fail, End
<1>2. CASE Tick \/ \E cut \in Cuts : SetDeadline(cut)
  BY <1>2 DEF Tick, SetDeadline, Quiet, LocksNone, Ordering, Doing
<1> QED
  BY <1>1, <1>2 DEF Elsewhere

(* The steps of an order.                                                  *)
LEMMA LockChildChecked ==
  ASSUME MealTypes, Checked, NEW t \in Txs, LockChild(t)
  PROVE  Checked'
<1>1. /\ tx'[t] = Locked(t) /\ \A u \in Txs : u # t => tx'[u] = tx[u]
      /\ UNCHANGED <<order, notice>> /\ Doing(t, "order") /\ ChildFree(tx[t].child)
  BY DEF LockChild, Continue, MealTypes, TxTypes
<1>2. tx[t] \in OrderTx
  BY <1>1, OrderType
<1>3. /\ Locked(t).op = "order" /\ Locked(t).step = "menus"
      /\ Locked(t).child = tx[t].child /\ Locked(t).knew = approved
  BY <1>2 DEF Locked, OrderTx
<1>4. active' = active /\ approved' = approved /\ Rows(order)' = Rows(order)
      /\ Rows(notice)' = Rows(notice) /\ \A n : standing(n)' <=> standing(n)
  BY <1>1 DEF active, approved, Rows, standing
<1>5. \A u \in Txs \ {t} : /\ Ordering(u)' <=> Ordering(u)
                           /\ Writing(u)' <=> Writing(u)
                           /\ Doing(u, "notice")' <=> Doing(u, "notice")
                           /\ \A c : holdsChild(u, c)' <=> holdsChild(u, c)
  BY <1>1 DEF Ordering, Writing, Doing, holdsChild
<1>6. ~Writing(t)' /\ ~Doing(t, "notice")'
      /\ \A c : holdsChild(t, c)' => c = tx[t].child
  BY <1>1, <1>3 DEF Writing, Doing, holdsChild
<1>7. ChildLocked'
  BY <1>1, <1>5, <1>6 DEF Checked, ChildLocked, ChildFree
<1>8. NoOrderYet'
  BY <1>1, <1>4, <1>5, <1>6 DEF Checked, NoOrderYet
<1>9. NoNoticeYet'
  BY <1>1, <1>4, <1>5, <1>6 DEF Checked, NoNoticeYet
<1>10. KnowsApproved'
  BY <1>1, <1>3, <1>4, <1>5 DEF Checked, KnowsApproved
<1>11. CancelledIsFree' /\ OneOrderPerDay' /\ NoticesDoNotOverlap' /\ ApprovalClearsOrders'
  BY <1>1, <1>4 DEF Checked, CancelledIsFree, OneOrderPerDay, NoticesDoNotOverlap,
                    ApprovalClearsOrders
<1> QED
  BY <1>7, <1>8, <1>9, <1>10, <1>11 DEF Checked

LEMMA ChooseChecked ==
  ASSUME MealTypes, Checked, NEW t \in Txs, Choose(t)
  PROVE  Checked'
<1> DEFINE chosen == [d \in DOMAIN tx[t].wish |-> chosenOn(t, d)]
<1>1. tx[t] \in OrderTx /\ Ordering(t)
  BY OrderType DEF Choose, Ordering
<1>2. tx'[t] = [tx[t] EXCEPT !.step = "write", !.chosen = chosen]
      /\ \A u \in Txs : u # t => tx'[u] = tx[u]
  BY DEF Choose, Continue, MealTypes, TxTypes
<1> HIDE DEF chosen
<1>3. /\ tx'[t].op = "order" /\ tx'[t].step = "write" /\ tx'[t].child = tx[t].child
      /\ tx'[t].knew = tx[t].knew /\ tx'[t].wish = tx[t].wish
      /\ tx[t].op = "order" /\ tx[t] # None
  BY <1>1, <1>2 DEF OrderTx, Ordering, Doing
<1>4. UNCHANGED <<order, notice>>
  BY DEF Choose
<1>5. active' = active /\ approved' = approved /\ Rows(order)' = Rows(order)
      /\ Rows(notice)' = Rows(notice) /\ \A n : standing(n)' <=> standing(n)
  BY <1>4 DEF active, approved, Rows, standing
<1>6. \A u \in Txs \ {t} : /\ Ordering(u)' <=> Ordering(u)
                           /\ Writing(u)' <=> Writing(u)
                           /\ Doing(u, "notice")' <=> Doing(u, "notice")
  BY <1>2 DEF Ordering, Writing, Doing
<1>7. \A u \in Txs : \A c : holdsChild(u, c)' => holdsChild(u, c)
  BY <1>1, <1>2, <1>3 DEF Ordering, Doing, holdsChild
<1>8. ChildLocked'
  BY <1>7 DEF Checked, ChildLocked
<1>9. NoOrderYet'
  <2>1. \A d \in DOMAIN tx[t].wish, o \in active :
          ~(order[o].child = tx[t].child /\ order[o].date = d)
    BY DEF Choose, Orderable
  <2> SUFFICES ASSUME NEW u \in Txs, Writing(u)', NEW d \in DOMAIN tx'[u].wish,
                      NEW o \in active
               PROVE  ~(order[o].child = tx'[u].child /\ order[o].date = d)
    BY <1>4, <1>5 DEF NoOrderYet
  <2>2. CASE u = t
    BY <1>3, <2>1, <2>2
  <2>3. CASE u # t
    BY <1>2, <1>6, <2>3 DEF Checked, NoOrderYet
  <2> QED
    BY <2>2, <2>3
<1>10. NoNoticeYet'
  <2>1. ~Doing(t, "notice")'
    BY <1>3 DEF Doing
  <2> QED
    BY <1>2, <1>4, <1>5, <1>6, <2>1 DEF Checked, NoNoticeYet
<1>11. KnowsApproved'
  BY <1>1, <1>2, <1>3, <1>4, <1>5, <1>6 DEF Checked, KnowsApproved
<1>12. CancelledIsFree' /\ OneOrderPerDay' /\ NoticesDoNotOverlap' /\ ApprovalClearsOrders'
  BY <1>4, <1>5 DEF Checked, CancelledIsFree, OneOrderPerDay, NoticesDoNotOverlap,
                    ApprovalClearsOrders
<1> QED
  BY <1>8, <1>9, <1>10, <1>11, <1>12 DEF Checked

LEMMA WriteChecked ==
  ASSUME MealTypes, Checked, NEW t \in Txs, Write(t)
  PROVE  Checked'
<1> DEFINE D == DOMAIN tx[t].wish
<1>1. tx[t] \in OrderTx /\ Writing(t) /\ Ordering(t) /\ holdsChild(t, tx[t].child)
  BY OrderType DEF Write, Ordering, Writing, holdsChild
<1>2. PICK place \in [D -> Orders \ Rows(order)] :
        order' = [o \in Orders |->
                   IF \E d \in D : place[d] = o
                   THEN newOrder(t, CHOOSE d \in D : place[d] = o) ELSE order[o]]
  BY DEF Write
<1>3. \A o \in Orders :
        \/ order'[o] = order[o]
        \/ /\ o \notin Rows(order)
           /\ \E d \in D : place[d] = o /\ order'[o] = newOrder(t, d)
  BY <1>2
<1>0. DOMAIN order' = Orders /\ DOMAIN order = Orders
  BY <1>2 DEF MealTypes, Tables
<1>4. \A d \in D : /\ newOrder(t, d).child = tx[t].child /\ newOrder(t, d).date = d
                   /\ ~newOrder(t, d).cancelled /\ newOrder(t, d).knew = tx[t].knew
  BY DEF newOrder
<1>5. tx'[t] = None /\ (\A u \in Txs : u # t => tx'[u] = tx[u]) /\ UNCHANGED notice
  BY DEF Write, End, MealTypes, TxTypes
<1>6. approved' = approved /\ Rows(notice)' = Rows(notice)
      /\ \A n : standing(n)' <=> standing(n)
  BY <1>5 DEF approved, Rows, standing
<1>7. \A o \in active' :
        \/ o \in active /\ order'[o] = order[o]
        \/ \E d \in D : place[d] = o /\ order'[o] = newOrder(t, d)
  BY <1>0, <1>3 DEF active, Rows
<1>8. ~Ordering(t)' /\ ~Writing(t)' /\ ~Doing(t, "notice")'
      /\ \A c : ~holdsChild(t, c)'
  BY <1>5 DEF Ordering, Writing, Doing, holdsChild
<1>9. \A u \in Txs \ {t} : /\ Ordering(u)' <=> Ordering(u)
                           /\ Writing(u)' <=> Writing(u)
                           /\ Doing(u, "notice")' <=> Doing(u, "notice")
                           /\ \A c : holdsChild(u, c)' <=> holdsChild(u, c)
  BY <1>5 DEF Ordering, Writing, Doing, holdsChild
<1>10. ChildLocked'
  BY <1>8, <1>9 DEF Checked, ChildLocked
<1>11. NoOrderYet'
  <2> SUFFICES ASSUME NEW u \in Txs, Writing(u)', NEW d \in DOMAIN tx'[u].wish,
                      NEW o \in active'
               PROVE  ~(order'[o].child = tx'[u].child /\ order'[o].date = d)
    BY DEF NoOrderYet
  <2>1. u # t /\ Writing(u) /\ tx'[u] = tx[u]
    BY <1>5, <1>8, <1>9
  <2>2. tx[u].child # tx[t].child
    <3>1. holdsChild(u, tx[u].child) /\ tx[u] \in OrderTx
      BY <2>1, OrderType DEF Writing, holdsChild
    <3> QED
      BY <1>1, <2>1, <3>1 DEF Checked, ChildLocked, OrderTx
  <2> QED
    BY <1>4, <1>7, <2>1, <2>2 DEF Checked, NoOrderYet
<1>12. NoNoticeYet'
  BY <1>5, <1>6, <1>8, <1>9 DEF Checked, NoNoticeYet
<1>13. KnowsApproved'
  BY <1>5, <1>6, <1>8, <1>9 DEF Checked, KnowsApproved
<1>14. CancelledIsFree'
  BY <1>0, <1>3, <1>4 DEF Checked, CancelledIsFree, Rows
<1>15. OneOrderPerDay'
  <2>1. \A o \in active, d \in D : ~(order[o].child = tx[t].child /\ order[o].date = d)
    BY <1>1 DEF Checked, NoOrderYet
  <2> QED
    BY <1>4, <1>7, <2>1 DEF Checked, OneOrderPerDay
<1>16. NoticesDoNotOverlap'
  BY <1>5, <1>6 DEF Checked, NoticesDoNotOverlap
<1>17. ApprovalClearsOrders'
  <2> SUFFICES ASSUME NEW n \in approved, NEW o \in Rows(order)',
                      order'[o].child = notice[n].child,
                      order'[o].date \in notice[n].cleared,
                      n \notin order'[o].knew
               PROVE  order'[o].cancelled /\ order'[o].charge = "voided"
    BY <1>5, <1>6 DEF ApprovalClearsOrders
  <2>1. order'[o] = order[o] /\ o \in Rows(order)
    BY <1>0, <1>1, <1>3, <1>4 DEF Checked, KnowsApproved, Rows
  <2> QED
    BY <2>1 DEF Checked, ApprovalClearsOrders
<1> QED
  BY <1>10, <1>11, <1>12, <1>13, <1>14, <1>15, <1>16, <1>17 DEF Checked

(* Orders lose their standing, and keep what they are: cancelled, or their *)
(* charge voided.                                                          *)
OrdersEnd ==
  /\ DOMAIN order' = DOMAIN order
  /\ Rows(order)' = Rows(order)
  /\ \A o \in Rows(order) :
       /\ order'[o].child = order[o].child /\ order'[o].date = order[o].date
       /\ order'[o].menu = order[o].menu /\ order'[o].dishes = order[o].dishes
       /\ order'[o].knew = order[o].knew
       /\ order[o].cancelled => order'[o].cancelled
       /\ order[o].charge = "voided" => order'[o].charge = "voided"
       /\ order'[o].cancelled => order'[o].charge = "voided"

LEMMA OrdersEndActive ==
  ASSUME OrdersEnd
  PROVE  active' \subseteq active
BY DEF OrdersEnd, active

LEMMA CancelEnds ==
  ASSUME MealTypes, CancelledIsFree, NEW os \in SUBSET active, order' = cancelOrders(os)
  PROVE  OrdersEnd /\ \A o \in os : order'[o].cancelled
<1>1. \A o \in Rows(order) : order[o] \in OrderRow /\ o \in Orders
  BY DEF Rows, MealTypes, Tables
<1>2. \A o \in os : o \in Rows(order)
        /\ order'[o] = [order[o] EXCEPT !.cancelled = TRUE, !.charge = "voided"]
  BY <1>1 DEF cancelOrders, active
<1>3. \A o \in Orders \ os : order'[o] = order[o]
  BY DEF cancelOrders
<1>4. ASSUME NEW o \in os
      PROVE  /\ order'[o] \in OrderRow
             /\ order'[o].child = order[o].child /\ order'[o].date = order[o].date
             /\ order'[o].menu = order[o].menu /\ order'[o].dishes = order[o].dishes
             /\ order'[o].knew = order[o].knew
             /\ order'[o].cancelled /\ order'[o].charge = "voided"
  <2>1. /\ order[o] \in OrderRow
        /\ order'[o] = [order[o] EXCEPT !.cancelled = TRUE, !.charge = "voided"]
    BY <1>1, <1>2
  <2> QED
    BY <2>1 DEF OrderRow
<1>5. DOMAIN order' = Orders /\ DOMAIN order = Orders
  BY DEF cancelOrders, MealTypes, Tables
<1>6. Rows(order)' = Rows(order)
  <2>1. \A o \in os : o \in Orders /\ order'[o] # None /\ order[o] # None
    BY <1>1, <1>2, <1>4, NoneAssumption DEF Rows
  <2>2. \A o \in Orders : (order'[o] # None) <=> (order[o] # None)
    BY <1>3, <2>1
  <2> QED
    BY <1>5, <2>2 DEF Rows
<1>7. ASSUME NEW o \in Rows(order), o \notin os
      PROVE  order'[o] = order[o] /\ (order[o].cancelled => order[o].charge = "voided")
  BY <1>1, <1>3, <1>7 DEF CancelledIsFree
<1> QED
  BY <1>4, <1>5, <1>6, <1>7 DEF OrdersEnd

LEMMA VoidEnds ==
  ASSUME MealTypes, CancelledIsFree, NEW o \in Orders, VoidCharge(o)
  PROVE  OrdersEnd
<1>1. order[o] \in OrderRow /\ o \in Rows(order)
  BY DEF VoidCharge, Rows, MealTypes, Tables
<1>2. /\ DOMAIN order' = Orders /\ DOMAIN order = Orders
      /\ order'[o] = [order[o] EXCEPT !.charge = "voided"]
      /\ \A p \in Orders : p # o => order'[p] = order[p]
  BY DEF VoidCharge, MealTypes, Tables
<1>3. /\ order'[o] \in OrderRow /\ order'[o].child = order[o].child
      /\ order'[o].date = order[o].date /\ order'[o].knew = order[o].knew
      /\ order'[o].menu = order[o].menu /\ order'[o].dishes = order[o].dishes
      /\ order'[o].cancelled = order[o].cancelled /\ order'[o].charge = "voided"
  BY <1>1, <1>2 DEF OrderRow
<1>4. Rows(order)' = Rows(order)
  BY <1>1, <1>2, <1>3, NoneAssumption DEF Rows
<1> QED
  BY <1>2, <1>3, <1>4 DEF OrdersEnd, CancelledIsFree, Rows

LEMMA OrdersEndChecked ==
  ASSUME MealTypes, Checked, OrdersEnd, UNCHANGED notice, LocksNone
  PROVE  Checked'
<1>1. /\ active' \subseteq active /\ active \subseteq Rows(order)
      /\ Rows(order)' = Rows(order)
  BY OrdersEndActive DEF OrdersEnd, active
<1>2. approved' = approved /\ Rows(notice)' = Rows(notice)
      /\ \A n : standing(n)' <=> standing(n)
  BY DEF approved, Rows, standing
<1>3. \A u \in Txs : \A c : holdsChild(u, c)' => holdsChild(u, c)
  BY DEF holdsChild, Ordering, Doing, LocksNone
<1>4. \A u \in Txs : Writing(u)' => Writing(u) /\ tx'[u] = tx[u]
  BY DEF Writing, Ordering, Doing, LocksNone
<1>5. ChildLocked'
  BY <1>3 DEF Checked, ChildLocked
<1>6. NoOrderYet'
  BY <1>1, <1>4 DEF Checked, NoOrderYet, OrdersEnd
<1>7. NoNoticeYet' /\ KnowsApproved'
  BY <1>2 DEF Checked, NoNoticeYet, KnowsApproved, LocksNone
<1>8. CancelledIsFree' /\ OneOrderPerDay'
  BY <1>1 DEF Checked, CancelledIsFree, OneOrderPerDay, OrdersEnd
<1>9. NoticesDoNotOverlap'
  BY <1>2 DEF Checked, NoticesDoNotOverlap
<1>10. ApprovalClearsOrders'
  BY <1>1, <1>2 DEF Checked, ApprovalClearsOrders, OrdersEnd
<1> QED
  BY <1>5, <1>6, <1>7, <1>8, <1>9, <1>10 DEF Checked

LEMMA OrderChecked ==
  ASSUME MealTypes, Checked, OrderNext
  PROVE  Checked'
<1>1. ASSUME NEW t \in Txs, NEW c \in Children, NEW wish \in Wishes,
             NEW parent \in BOOLEAN, BeginOrder(t, c, wish, parent)
      PROVE  Checked'
  BY <1>1, OtherRequest, QuietKeeps DEF BeginOrder, Begin
<1>2. ASSUME NEW t \in Txs, NEW o \in Orders, NEW parent \in BOOLEAN,
             BeginCancel(t, o, parent)
      PROVE  Checked'
  BY <1>2, OtherRequest, QuietKeeps DEF BeginCancel, Begin
<1>3. ASSUME NEW t \in Txs, Cancel(t)
      PROVE  Checked'
  <2>1. OrdersEnd /\ UNCHANGED notice
    BY <1>3, CancelEnds DEF Cancel, Checked
  <2>2. tx'[t] = None /\ \A u \in Txs : u # t => tx'[u] = tx[u]
    BY <1>3 DEF Cancel, End, MealTypes, TxTypes
  <2> QED
    BY <2>1, <2>2, OrdersEndChecked DEF Ordering, Doing, LocksNone
<1>4. ASSUME NEW o \in Orders, VoidCharge(o)
      PROVE  Checked'
  <2> QED
    BY <1>4, VoidEnds, OrdersEndChecked DEF Checked, VoidCharge, Ordering, Doing, LocksNone
<1> QED
  BY <1>1, <1>2, <1>3, <1>4, LockChildChecked, ChooseChecked, WriteChecked DEF OrderNext

(* The steps of a notice.                                                  *)
LEMMA BeginNoticeChecked ==
  ASSUME MealTypes, Checked, NEW t \in Txs, NEW c \in Children, NEW from \in Days,
         NEW to \in Days, BeginNotice(t, c, from, to)
  PROVE  Checked'
<1>1. /\ tx'[t].op = "notice" /\ tx'[t].child = c
      /\ tx'[t].start = from /\ tx'[t].end = to
      /\ \A u \in Txs : u # t => tx'[u] = tx[u]
      /\ UNCHANGED <<order, notice>> /\ ChildFree(c)
  BY DEF BeginNotice, Begin, MealTypes, TxTypes
<1>2. active' = active /\ approved' = approved /\ Rows(order)' = Rows(order)
      /\ Rows(notice)' = Rows(notice) /\ \A n : standing(n)' <=> standing(n)
  BY <1>1 DEF active, approved, Rows, standing
<1>3. \A u \in Txs \ {t} : /\ Ordering(u)' <=> Ordering(u)
                           /\ Writing(u)' <=> Writing(u)
                           /\ Doing(u, "notice")' <=> Doing(u, "notice")
                           /\ \A d : holdsChild(u, d)' <=> holdsChild(u, d)
  BY <1>1 DEF Ordering, Writing, Doing, holdsChild
<1>4. ~Ordering(t)' /\ ~Writing(t)' /\ \A d : holdsChild(t, d)' => d = c
  BY <1>1 DEF Ordering, Writing, Doing, holdsChild
<1>5. ChildLocked'
  BY <1>1, <1>3, <1>4 DEF Checked, ChildLocked, ChildFree
<1>6. NoOrderYet' /\ KnowsApproved'
  BY <1>1, <1>2, <1>3, <1>4 DEF Checked, NoOrderYet, KnowsApproved
<1>7. NoNoticeYet'
  <2>1. \A n \in Rows(notice) :
          ~(notice[n].child = c /\ standing(n) /\ notice[n].start <= to /\ from <= notice[n].end)
    BY DEF BeginNotice
  <2> QED
    BY <1>1, <1>2, <1>3, <2>1 DEF Checked, NoNoticeYet
<1>8. CancelledIsFree' /\ OneOrderPerDay' /\ NoticesDoNotOverlap' /\ ApprovalClearsOrders'
  BY <1>1, <1>2 DEF Checked, CancelledIsFree, OneOrderPerDay, NoticesDoNotOverlap,
                    ApprovalClearsOrders
<1> QED
  BY <1>5, <1>6, <1>7, <1>8 DEF Checked

LEMMA CreateNoticeChecked ==
  ASSUME MealTypes, Checked, NEW t \in Txs, NEW n \in Notices, CreateNotice(t, n)
  PROVE  Checked'
<1>1. tx[t] \in NoticeTx /\ Doing(t, "notice") /\ holdsChild(t, tx[t].child)
  BY NoticeType DEF CreateNotice, holdsChild
<1>2. /\ DOMAIN notice' = Notices /\ DOMAIN notice = Notices
      /\ notice'[n].child = tx[t].child /\ notice'[n].start = tx[t].start
      /\ notice'[n].end = tx[t].end /\ notice'[n].status = "pending"
      /\ \A m \in Notices \ {n} : notice'[m] = notice[m]
      /\ UNCHANGED order /\ n \notin Rows(notice)
  BY DEF CreateNotice, MealTypes, Tables, Rows
<1>3. tx'[t] = None /\ \A u \in Txs : u # t => tx'[u] = tx[u]
  BY DEF CreateNotice, End, MealTypes, TxTypes
<1>4. active' = active /\ Rows(order)' = Rows(order)
  BY <1>2 DEF active, Rows
<1>5. /\ Rows(notice)' \subseteq Rows(notice) \cup {n} /\ n \notin approved'
      /\ approved' \subseteq approved
      /\ \A m \in Rows(notice) : m # n /\ notice'[m] = notice[m]
      /\ \A m \in Rows(notice) : standing(m)' <=> standing(m)
  BY <1>2 DEF approved, Rows, standing
<1>6. \A u \in Txs :
        /\ Ordering(u)' => Ordering(u) /\ u # t /\ tx'[u] = tx[u]
        /\ Writing(u)' => Writing(u) /\ u # t /\ tx'[u] = tx[u]
        /\ Doing(u, "notice")' => Doing(u, "notice") /\ u # t /\ tx'[u] = tx[u]
        /\ \A d : holdsChild(u, d)' => holdsChild(u, d)
  BY <1>3 DEF Ordering, Writing, Doing, holdsChild
<1>7. ChildLocked'
  BY <1>6 DEF Checked, ChildLocked
<1>8. NoOrderYet'
  BY <1>2, <1>4, <1>6 DEF Checked, NoOrderYet
<1>9. NoNoticeYet'
  <2> SUFFICES ASSUME NEW u \in Txs, Doing(u, "notice")', NEW m \in Rows(notice)'
               PROVE  ~(/\ notice'[m].child = tx'[u].child /\ standing(m)'
                        /\ notice'[m].start <= tx'[u].end
                        /\ tx'[u].start <= notice'[m].end)
    BY DEF NoNoticeYet
  <2>1. Doing(u, "notice") /\ u # t /\ tx'[u] = tx[u]
    BY <1>6
  <2>2. tx[u].child # tx[t].child
    <3>1. holdsChild(u, tx[u].child) /\ tx[u] \in NoticeTx
      BY <2>1, NoticeType DEF holdsChild
    <3> QED
      BY <1>1, <2>1, <3>1 DEF Checked, ChildLocked, NoticeTx
  <2>3. CASE m = n
    BY <1>2, <2>1, <2>2, <2>3
  <2>4. CASE m \in Rows(notice)
    BY <1>5, <2>1, <2>4 DEF Checked, NoNoticeYet
  <2> QED
    BY <1>5, <2>3, <2>4
<1>10. KnowsApproved'
  BY <1>5, <1>6 DEF Checked, KnowsApproved, approved
<1>11. CancelledIsFree' /\ OneOrderPerDay'
  BY <1>2, <1>4 DEF Checked, CancelledIsFree, OneOrderPerDay
<1>12. NoticesDoNotOverlap'
  <2>1. \A m \in Rows(notice) : notice[m].child = tx[t].child /\ standing(m)
          => ~(notice[m].start <= tx[t].end /\ tx[t].start <= notice[m].end)
    BY <1>1 DEF Checked, NoNoticeYet
  <2>2. \A m \in Rows(notice) : notice[m].start \in Nat /\ notice[m].end \in Nat
    BY InputAssumption DEF Rows, MealTypes, Tables, NoticeRow
  <2>3. tx[t].start \in Nat /\ tx[t].end \in Nat
    BY <1>1, InputAssumption DEF NoticeTx
  <2>4. \A m \in Rows(notice) : notice[m].child = tx[t].child /\ standing(m)
          => notice[m].end < tx[t].start \/ tx[t].end < notice[m].start
    BY <2>1, <2>2, <2>3
  <2> QED
    BY <1>2, <1>5, <2>4 DEF Checked, NoticesDoNotOverlap
<1>13. ApprovalClearsOrders'
  BY <1>2, <1>4, <1>5 DEF Checked, ApprovalClearsOrders, approved
<1> QED
  BY <1>7, <1>8, <1>9, <1>10, <1>11, <1>12, <1>13 DEF Checked

(* A decision changes a status; the requests go on as they were.           *)
NoticeDecided(n) ==
  /\ UNCHANGED tx /\ DOMAIN notice' = DOMAIN notice /\ n \in Rows(notice)
  /\ Rows(notice)' = Rows(notice)
  /\ \A m \in Rows(notice) :
       /\ m # n => notice'[m] = notice[m]
       /\ notice'[m].child = notice[m].child
       /\ notice'[m].start = notice[m].start /\ notice'[m].end = notice[m].end
       /\ standing(m)' => standing(m)

LEMMA DecidedChecked ==
  ASSUME MealTypes, Checked, NEW n, NoticeDecided(n), OrdersEnd
  PROVE  /\ ChildLocked' /\ NoOrderYet' /\ NoNoticeYet' /\ CancelledIsFree'
         /\ OneOrderPerDay' /\ NoticesDoNotOverlap'
<1>1. /\ active' \subseteq active /\ active \subseteq Rows(order)
      /\ Rows(order)' = Rows(order)
  BY OrdersEndActive DEF OrdersEnd, active
<1>2. \A u \in Txs :
        /\ Writing(u)' <=> Writing(u)
        /\ Doing(u, "notice")' <=> Doing(u, "notice")
        /\ \A d : holdsChild(u, d)' <=> holdsChild(u, d)
  BY DEF NoticeDecided, Writing, Doing, holdsChild
<1>3. ChildLocked'
  BY <1>2 DEF Checked, ChildLocked
<1>4. NoOrderYet'
  BY <1>1, <1>2 DEF Checked, NoOrderYet, OrdersEnd, NoticeDecided
<1>5. NoNoticeYet'
  BY <1>2 DEF Checked, NoNoticeYet, NoticeDecided
<1>6. CancelledIsFree' /\ OneOrderPerDay'
  BY <1>1 DEF Checked, CancelledIsFree, OneOrderPerDay, OrdersEnd
<1>7. NoticesDoNotOverlap'
  BY DEF Checked, NoticesDoNotOverlap, NoticeDecided
<1> QED
  BY <1>3, <1>4, <1>5, <1>6, <1>7

LEMMA ApproveChecked ==
  ASSUME MealTypes, Checked, NEW n \in Notices, Approve(n)
  PROVE  Checked'
<1> DEFINE os == {o \in active : order[o].child = notice[n].child /\ order[o].date \in inTime(n)}
<1>1. OrdersEnd /\ \A o \in os : order'[o].cancelled
  <2>1. os \in SUBSET active
    OBVIOUS
  <2>2. order' = cancelOrders(os)
    BY DEF Approve
  <2> HIDE DEF os
  <2> QED
    BY <2>1, <2>2, CancelEnds DEF Checked
<1>2. notice[n] \in NoticeRow /\ n \in Rows(notice) /\ notice[n].status = "pending"
  BY DEF Approve, Rows, MealTypes, Tables
<1>3. /\ DOMAIN notice' = Notices /\ DOMAIN notice = Notices
      /\ notice'[n] = [notice[n] EXCEPT !.status = "approved", !.cleared = inTime(n)]
      /\ \A m \in Notices \ {n} : notice'[m] = notice[m]
  BY DEF Approve, MealTypes, Tables
<1>4. inTime(n) \in SUBSET Days
  BY DEF inTime
<1>5. /\ notice'[n] \in NoticeRow /\ notice'[n].status = "approved"
      /\ notice'[n].cleared = inTime(n) /\ notice'[n].child = notice[n].child
      /\ notice'[n].start = notice[n].start /\ notice'[n].end = notice[n].end
  BY <1>2, <1>3, <1>4 DEF NoticeRow, NoticeStatus
<1>6. NoticeDecided(n)
  <2>1. Rows(notice)' = Rows(notice)
    BY <1>2, <1>3, <1>5, NoneAssumption DEF Rows
  <2> QED
    BY <1>2, <1>3, <1>5, <2>1 DEF NoticeDecided, standing, Approve, Rows
<1>7. approved' = approved \cup {n} /\ n \notin approved
  BY <1>2, <1>3, <1>5, <1>6 DEF approved, NoticeDecided, Rows
<1>8. KnowsApproved'
  <2> SUFFICES ASSUME NEW t \in Txs, Ordering(t), NEW m \in approved',
                      notice'[m].child = tx[t].child
               PROVE  m \in tx[t].knew
    BY <1>6 DEF KnowsApproved, NoticeDecided, Ordering, Doing
  <2>1. CASE m = n
    <3>1. ChildFree(notice[n].child)
      BY DEF Approve
    <3>2. holdsChild(t, notice[n].child)
      BY <1>5, <2>1 DEF Ordering, holdsChild
    <3> QED
      BY <3>1, <3>2 DEF ChildFree
  <2>2. CASE m \in approved
    <3>1. notice'[m] = notice[m]
      BY <1>3, <1>7, <2>2 DEF approved, Rows
    <3> QED
      BY <2>2, <3>1 DEF Checked, KnowsApproved
  <2> QED
    BY <1>7, <2>1, <2>2
<1>9. ApprovalClearsOrders'
  <2> SUFFICES ASSUME NEW m \in approved', NEW o \in Rows(order)',
                      order'[o].child = notice'[m].child,
                      order'[o].date \in notice'[m].cleared, m \notin order'[o].knew
               PROVE  order'[o].cancelled /\ order'[o].charge = "voided"
    BY DEF ApprovalClearsOrders
  <2>1. o \in Rows(order) /\ order'[o].child = order[o].child
        /\ order'[o].date = order[o].date /\ order'[o].knew = order[o].knew
    BY <1>1 DEF OrdersEnd
  <2>2. CASE m = n
    <3>1. order[o].cancelled \/ o \in os
      BY <1>5, <2>1, <2>2 DEF active
    <3> QED
      BY <1>1, <2>1, <3>1 DEF OrdersEnd
  <2>3. CASE m \in approved
    <3>1. notice'[m] = notice[m]
      BY <1>3, <1>7, <2>3 DEF approved, Rows
    <3> QED
      BY <1>1, <2>1, <2>3, <3>1 DEF Checked, ApprovalClearsOrders, OrdersEnd
  <2> QED
    BY <1>7, <2>2, <2>3
<1> QED
  BY <1>1, <1>6, <1>8, <1>9, DecidedChecked DEF Checked

LEMMA DecideChecked ==
  ASSUME MealTypes, Checked, NEW n \in Notices, NEW from \in {"pending", "approved"},
         NEW to \in {"rejected", "cancelled"}, Decide(n, from, to)
  PROVE  Checked'
<1>1. OrdersEnd
  BY DEF Decide, OrdersEnd, Checked, CancelledIsFree, Rows
<1>2. notice[n] \in NoticeRow /\ n \in Rows(notice) /\ notice[n].status = from
  BY DEF Decide, Rows, MealTypes, Tables
<1>3. /\ DOMAIN notice' = Notices /\ DOMAIN notice = Notices
      /\ notice'[n] = [notice[n] EXCEPT !.status = to]
      /\ \A m \in Notices \ {n} : notice'[m] = notice[m]
  BY DEF Decide, MealTypes, Tables
<1>4. /\ notice'[n] \in NoticeRow /\ notice'[n].status = to
      /\ notice'[n].child = notice[n].child
      /\ notice'[n].start = notice[n].start /\ notice'[n].end = notice[n].end
  BY <1>2, <1>3 DEF NoticeRow, NoticeStatus
<1>5. NoticeDecided(n)
  <2>1. Rows(notice)' = Rows(notice)
    BY <1>2, <1>3, <1>4, NoneAssumption DEF Rows
  <2> QED
    BY <1>2, <1>3, <1>4, <2>1 DEF NoticeDecided, standing, Decide, Rows
<1>6. \A m \in approved' : m \in approved /\ notice'[m] = notice[m]
  BY <1>3, <1>4, <1>5 DEF approved, NoticeDecided, Rows
<1>7. KnowsApproved'
  BY <1>5, <1>6 DEF Checked, KnowsApproved, NoticeDecided, Ordering, Doing
<1>8. ApprovalClearsOrders'
  BY <1>6, <1>1 DEF Checked, ApprovalClearsOrders, OrdersEnd
<1> QED
  BY <1>1, <1>5, <1>7, <1>8, DecidedChecked DEF Checked

LEMMA NoticeChecked ==
  ASSUME MealTypes, Checked, NoticeNext
  PROVE  Checked'
BY BeginNoticeChecked, CreateNoticeChecked, ApproveChecked, DecideChecked DEF NoticeNext

LEMMA CheckedInvariant == Spec => [](MealTypes /\ Checked)
<1>1. Init => Checked
  BY DEF Init, Checked, ChildLocked, NoOrderYet, NoNoticeYet, KnowsApproved,
         CancelledIsFree, OneOrderPerDay, NoticesDoNotOverlap, ApprovalClearsOrders,
         holdsChild, Writing, Ordering, Doing, Rows, active, approved
<1>2. ASSUME MealTypes, Checked, [Next]_vars
      PROVE  Checked'
  <2>1. CASE UNCHANGED vars
    <3>1. Quiet
      BY <2>1 DEF vars, Quiet, LocksNone, Ordering, Doing
    <3> QED
      BY <1>2, <3>1, QuietKeeps
  <2>2. CASE MenuNext \/ Elsewhere
    BY <1>2, <2>2, MenuQuiet, ElsewhereQuiet, QuietKeeps
  <2> QED
    BY <1>2, <2>1, <2>2, OrderChecked, NoticeChecked DEF Next
<1> QED
  BY <1>1, <1>2, TypesInvariant, PTL DEF Spec

(* Whoever asks for a child at the same time, one order of a day stands    *)
(* and no day is in two notices that stand.                                *)
THEOREM AskedTwiceHadOnce == Spec => []NothingTwice
BY CheckedInvariant, PTL DEF Checked, NothingTwice

(* An approved notice leaves no order of its days uncancelled that was not *)
(* begun after the approval.                                               *)
THEOREM AbsentNotServed == Spec => []ApprovalClearsOrders
BY CheckedInvariant, PTL DEF Checked

-----------------------------------------------------------------------------
(* Why what is ordered is served: what a request has chosen under the lock *)
(* of the menus stays on them until it is written.                         *)
Held ==
  \A t \in Txs : Writing(t) =>
    \A d \in DOMAIN tx[t].wish :
      /\ menu[d] # None /\ menu[d].id = tx[t].chosen[d].menu
      /\ menu[d].id \in tx[t].found /\ menu[d].status = "published"
      /\ tx[t].chosen[d].dishes \subseteq menu[d].dishes \/ menu[d].blind

Served == Held /\ OrdersAreServed

(* A step with which no request has chosen.                                *)
WritesNone == \A u \in Txs : Writing(u)' => Writing(u) /\ tx'[u] = tx[u]

(* The rows a request may not touch while another one holds them, and      *)
(* what an order needs of the menu of its day.                             *)
HeldRow(d) == \E t \in Txs : Writing(t) /\ d \in DOMAIN tx[t].wish

KeptRow(d) ==
  /\ menu'[d] # None /\ menu'[d].id = menu[d].id /\ menu'[d].status = menu[d].status
  /\ menu[d].dishes \subseteq menu'[d].dishes \/ menu'[d].blind
  /\ menu[d].blind => menu'[d].blind

ServedAfter(o) ==
  LET m == menu'[order[o].date]
  IN  /\ m # None /\ m.id = order[o].menu /\ m.status = "published"
      /\ order[o].dishes \subseteq m.dishes \/ m.blind

LEMMA LocksWrites ==
  ASSUME LocksNone
  PROVE  WritesNone
BY DEF LocksNone, WritesNone, Writing, Ordering, Doing

LEMMA WishDays ==
  ASSUME MealTypes, NEW t \in Txs, Writing(t)
  PROVE  DOMAIN tx[t].wish \subseteq Days
<1>1. tx[t] \in OrderTx
  BY OrderType DEF Writing
<1>2. tx[t].wish \in UNION {[D -> Wish] : D \in SUBSET Days}
  BY <1>1 DEF OrderTx
<1> QED
  BY <1>2, WishType

LEMMA FreeNotHeld ==
  ASSUME Served, NEW ids, MenusFree(ids), NEW d, menu[d].id \in ids
  PROVE  ~HeldRow(d)
BY DEF Served, Held, HeldRow, MenusFree, sharesMenu, Writing

(* A day without a published menu has nobody waiting for it.               *)
LEMMA UnpublishedDay ==
  ASSUME Served, NEW d, menu[d] = None \/ menu[d].status # "published"
  PROVE  ~HeldRow(d) /\ \A o \in active : order[o].date # d
BY DEF Served, Held, HeldRow, OrdersAreServed

(* A step of the kitchen keeps the row of a day, or nobody holds it and    *)
(* who has ordered is served.                                              *)
LEMMA KitchenServed ==
  ASSUME MealTypes, Served, UNCHANGED order, WritesNone,
         \A d \in Days :
           \/ menu'[d] = menu[d]
           \/ menu[d] # None /\ KeptRow(d)
           \/ ~HeldRow(d) /\ \A o \in active : order[o].date = d => ServedAfter(o)
  PROVE  Served'
<1>1. active' = active /\ \A o \in active : order[o].date \in Days
  BY DEF active, Rows, MealTypes, Tables, OrderRow
<1>2. OrdersAreServed'
  <2> SUFFICES ASSUME NEW o \in active
               PROVE  ServedAfter(o)
    BY <1>1 DEF OrdersAreServed, ServedAfter
  <2> DEFINE d == order[o].date
  <2>1. d \in Days
    BY <1>1
  <2>2. CASE menu'[d] = menu[d] \/ KeptRow(d)
    BY <2>2 DEF Served, OrdersAreServed, ServedAfter, KeptRow
  <2> QED
    BY <2>1, <2>2
<1>3. Held'
  <2> SUFFICES ASSUME NEW t \in Txs, Writing(t)', NEW d \in DOMAIN tx'[t].wish
               PROVE  /\ menu'[d] # None /\ menu'[d].id = tx'[t].chosen[d].menu
                      /\ menu'[d].id \in tx'[t].found /\ menu'[d].status = "published"
                      /\ \/ tx'[t].chosen[d].dishes \subseteq menu'[d].dishes
                         \/ menu'[d].blind
    BY DEF Held
  <2>1. Writing(t) /\ tx'[t] = tx[t]
    BY DEF WritesNone
  <2>2. d \in Days /\ HeldRow(d)
    BY <2>1, WishDays DEF HeldRow
  <2>3. menu'[d] = menu[d] \/ KeptRow(d)
    BY <2>2
  <2> QED
    BY <2>1, <2>3 DEF Served, Held, KeptRow
<1> QED
  BY <1>2, <1>3 DEF Served

(* Steps that leave the menus alone.                                       *)
LEMMA MenusSameServed ==
  ASSUME MealTypes, Served, UNCHANGED menu, OrdersEnd, WritesNone
  PROVE  Served'
<1>1. active' \subseteq active /\ active \subseteq Rows(order)
  BY OrdersEndActive DEF active
<1>2. OrdersAreServed'
  BY <1>1 DEF Served, OrdersAreServed, OrdersEnd
<1>3. Held'
  BY DEF WritesNone, Served, Held
<1> QED
  BY <1>2, <1>3 DEF Served

LEMMA OrdersSame ==
  ASSUME CancelledIsFree, UNCHANGED order
  PROVE  OrdersEnd
BY DEF OrdersEnd, CancelledIsFree, Rows

(* A request other than the choice of the dishes goes on, or ends.         *)
LEMMA NoWrite ==
  ASSUME MealTypes, NEW t \in Txs, NEW r, tx' = [tx EXCEPT ![t] = r],
         r # None /\ r.op = "order" => r.step # "write"
  PROVE  WritesNone
<1>1. \A u \in Txs : u # t => tx'[u] = tx[u]
  BY DEF MealTypes, TxTypes
<1>2. tx'[t] = r
  BY DEF MealTypes, TxTypes
<1> QED
  BY <1>1, <1>2 DEF WritesNone, Writing, Doing

(* The kitchen, one step at a time.                                        *)
LEMMA SaveServed ==
  ASSUME MealTypes, Checked, Served, NEW t \in Txs,
         SaveExisting(t) \/ SaveNew(t) \/ SaveOther(t)
  PROVE  Served'
<1> DEFINE d == tx[t].date
<1>1. UNCHANGED order /\ WritesNone
  BY NoWrite DEF SaveExisting, SaveNew, SaveOther, End
<1>2. tx[t] \in SaveTx /\ d \in Days
  BY SaveType DEF SaveExisting, SaveNew, SaveOther, SaveTx
<1>3. \A e \in Days : e # d => menu'[e] = menu[e]
  BY <1>2 DEF SaveExisting, SaveNew, SaveOther, MealTypes, Tables
<1>4. CASE SaveExisting(t)
  <2>1. menu[d] # None /\ menu[d] \in MenuRow /\ tx[t].id = menu[d].id
    BY <1>2, <1>4 DEF SaveExisting, idOn, MealTypes, Tables
  <2>2. ~HeldRow(d)
    BY <1>4, <2>1, FreeNotHeld DEF SaveExisting
  <2>3. menu'[d] = [menu[d] EXCEPT !.dishes = tx[t].dishes]
    BY <1>2, <1>4 DEF SaveExisting, MealTypes, Tables
  <2>4. /\ menu'[d] \in MenuRow /\ menu'[d].id = menu[d].id
        /\ menu'[d].status = menu[d].status /\ menu'[d].blind = menu[d].blind
        /\ menu'[d].dishes = tx[t].dishes
    BY <1>2, <2>1, <2>3 DEF MenuRow, SaveTx
  <2>5. ASSUME NEW o \in active, order[o].date = d
        PROVE  ServedAfter(o)
    <3>1. /\ menu[d].id = order[o].menu /\ menu[d].status = "published"
          /\ order[o].dishes \subseteq menu[d].dishes \/ menu[d].blind
      BY <2>5 DEF Served, OrdersAreServed
    <3>2. order[o].dishes \cap (menu[d].dishes \ tx[t].dishes) = {}
      BY <1>4, <2>1, <3>1 DEF SaveExisting, ordersOf
    <3> QED
      BY <2>4, <2>5, <3>1, <3>2, NoneAssumption DEF ServedAfter
  <2> QED
    BY <1>1, <1>3, <2>2, <2>5, KitchenServed
<1>5. CASE SaveNew(t)
  <2>1. menu[d] = None
    BY <1>5 DEF SaveNew
  <2>2. ~HeldRow(d) /\ \A o \in active : order[o].date # d
    BY <2>1, UnpublishedDay
  <2> QED
    BY <1>1, <1>3, <2>2, KitchenServed
<1>6. CASE SaveOther(t)
  <2>1. menu[d] # None /\ menu[d] \in MenuRow
    BY <1>2, <1>6 DEF SaveOther, MealTypes, Tables
  <2>2. menu'[d] = [menu[d] EXCEPT !.dishes = tx[t].dishes, !.blind = TRUE]
    BY <1>2, <1>6, <2>1 DEF SaveOther, MealTypes, Tables, MenuRow
  <2>3. KeptRow(d)
    <3>1. /\ menu'[d] \in MenuRow /\ menu'[d].id = menu[d].id
          /\ menu'[d].status = menu[d].status /\ menu'[d].blind
      BY <1>2, <2>1, <2>2 DEF MenuRow, SaveTx
    <3> QED
      BY <3>1, NoneAssumption DEF KeptRow
  <2> QED
    BY <1>1, <1>3, <2>1, <2>3, KitchenServed
<1> QED
  BY <1>4, <1>5, <1>6

LEMMA PublishServed ==
  ASSUME MealTypes, Served, NEW D \in SUBSET Days, Publish(D)
  PROVE  Served'
<1>1. UNCHANGED order /\ WritesNone
  BY DEF Publish, WritesNone, Writing, Doing
<1>2. ASSUME NEW d \in Days
      PROVE  menu'[d] = menu[d] \/ (~HeldRow(d) /\ \A o \in active : order[o].date # d)
  <2>1. CASE d \in publishable(D)
    <3>1. menu[d].status # "published"
      BY <2>1 DEF publishable
    <3> QED
      BY <3>1, UnpublishedDay
  <2>2. CASE d \notin publishable(D)
    BY <2>2 DEF Publish
  <2> QED
    BY <2>1, <2>2
<1> QED
  BY <1>1, <1>2, KitchenServed

LEMMA UnpublishServed ==
  ASSUME MealTypes, Served, NEW t \in Txs, Unpublish(t)
  PROVE  Served'
<1>1. UNCHANGED order /\ WritesNone
  BY NoWrite DEF Unpublish, End
<1>2. ASSUME NEW d \in Days
      PROVE  menu'[d] = menu[d] \/ (~HeldRow(d) /\ \A o \in active : order[o].date # d)
  <2>1. CASE d \in Rows(menu) /\ menu[d].id \in tx[t].ids
    <3>1. ~HeldRow(d)
      BY <2>1, FreeNotHeld DEF Unpublish
    <3>2. ASSUME NEW o \in active, order[o].date = d
          PROVE  FALSE
      <4>1. menu[d].id = order[o].menu
        BY <3>2 DEF Served, OrdersAreServed
      <4>2. o \in ordersOf(menu[d].id)
        BY <4>1 DEF ordersOf
      <4> QED
        BY <2>1, <4>2 DEF Unpublish
    <3> QED
      BY <3>1, <3>2
  <2>2. CASE ~(d \in Rows(menu) /\ menu[d].id \in tx[t].ids)
    BY <2>2 DEF Unpublish
  <2> QED
    BY <2>1, <2>2
<1> QED
  BY <1>1, <1>2, KitchenServed

LEMMA FillServed ==
  ASSUME MealTypes, Served, NEW t \in Txs, Fill(t)
  PROVE  Served'
<1>1. UNCHANGED order /\ WritesNone
  BY NoWrite DEF Fill, End
<1>2. ASSUME NEW d \in Days
      PROVE  menu'[d] = menu[d] \/ (~HeldRow(d) /\ \A o \in active : order[o].date # d)
  <2>1. CASE d \in created(t)
    <3>1. menu[d] = None
      BY <2>1 DEF Fill
    <3> QED
      BY <3>1, UnpublishedDay
  <2>2. CASE d \in overwritten(t)
    <3>1. d \in seenDrafts(t) /\ d \notin blocked(t) /\ idOn(d) = tx[t].seen[d].id
      BY <2>2 DEF Fill, overwritten
    <3>2. menu[d] = None \/ menu[d].id = tx[t].seen[d].id
      BY <3>1 DEF idOn
    <3>3. menu[d] = None \/ menu[d].status # "published"
      BY <3>1, <3>2 DEF blocked
    <3> QED
      BY <3>3, UnpublishedDay
  <2>3. CASE d \notin created(t) /\ d \notin overwritten(t)
    BY <2>3 DEF Fill
  <2> QED
    BY <2>1, <2>2, <2>3
<1> QED
  BY <1>1, <1>2, KitchenServed

LEMMA DeleteServed ==
  ASSUME MealTypes, Served, NEW t \in Txs, Delete(t)
  PROVE  Served'
<1> DEFINE d == tx[t].date
<1>1. UNCHANGED order /\ WritesNone
  BY NoWrite DEF Delete, End
<1>2. ~HeldRow(d) /\ \A o \in active : order[o].date # d
  BY UnpublishedDay DEF Delete
<1>3. \A e \in Days : e # d => menu'[e] = menu[e]
  BY DEF Delete, MealTypes, Tables
<1> QED
  BY <1>1, <1>2, <1>3, KitchenServed

LEMMA MenuServed ==
  ASSUME MealTypes, Checked, Served, MenuNext
  PROVE  Served'
<1>1. WritesNone /\ UNCHANGED order
  BY MenuQuiet, LocksWrites DEF Quiet
<1>2. ASSUME UNCHANGED menu
      PROVE  Served'
  BY <1>1, <1>2, OrdersSame, MenusSameServed DEF Checked
<1> QED
  BY <1>2, SaveServed, PublishServed, UnpublishServed, FillServed, DeleteServed
     DEF MenuNext, BeginSave, BeginUnpublish, BeginFill, BeginDelete, menus

(* Families and the office.                                                *)
LEMMA ChooseServed ==
  ASSUME MealTypes, Checked, Served, NEW t \in Txs, Choose(t)
  PROVE  Served'
<1> DEFINE chosen == [d \in DOMAIN tx[t].wish |-> chosenOn(t, d)]
<1>1. tx[t] \in OrderTx
  BY OrderType DEF Choose
<1>2. tx'[t] = [tx[t] EXCEPT !.step = "write", !.chosen = chosen]
      /\ \A u \in Txs : u # t => tx'[u] = tx[u]
  BY DEF Choose, Continue, MealTypes, TxTypes
<1>3. UNCHANGED <<menu, order>>
  BY DEF Choose, menus
<1>4. OrdersAreServed'
  BY <1>3 DEF Served, OrdersAreServed, active, Rows
<1>5. ASSUME NEW d \in DOMAIN tx[t].wish
      PROVE  /\ menu[d] # None /\ menu[d].id = chosen[d].menu
             /\ menu[d].id \in tx[t].found /\ menu[d].status = "published"
             /\ chosen[d].dishes \subseteq menu[d].dishes
  <2>1. Orderable(t, d)
    BY DEF Choose
  <2>2. resolveChoices(tx[t].wish[d].courses, menu[d].dishes, tx[t].wish[d].dishes)
          \subseteq menu[d].dishes
    BY <2>1, ChosenFromMenu DEF Orderable
  <2> QED
    BY <2>1, <2>2 DEF Orderable, chosenOn
<1> HIDE DEF chosen
<1>6. tx'[t].chosen = chosen /\ tx'[t].wish = tx[t].wish /\ tx'[t].found = tx[t].found
  BY <1>1, <1>2 DEF OrderTx
<1>7. Held'
  <2> SUFFICES ASSUME NEW u \in Txs, Writing(u)', NEW d \in DOMAIN tx'[u].wish
               PROVE  /\ menu[d] # None /\ menu[d].id = tx'[u].chosen[d].menu
                      /\ menu[d].id \in tx'[u].found /\ menu[d].status = "published"
                      /\ \/ tx'[u].chosen[d].dishes \subseteq menu[d].dishes
                         \/ menu[d].blind
    BY <1>3 DEF Held
  <2>1. CASE u = t
    BY <1>5, <1>6, <2>1
  <2>2. CASE u # t
    BY <1>2, <2>2 DEF Served, Held, Writing, Doing
  <2> QED
    BY <2>1, <2>2
<1> QED
  BY <1>4, <1>7 DEF Served

LEMMA WriteServed ==
  ASSUME MealTypes, Checked, Served, NEW t \in Txs, Write(t)
  PROVE  Served'
<1> DEFINE D == DOMAIN tx[t].wish
<1>1. Writing(t) /\ WritesNone
  BY NoWrite DEF Write, Writing, End
<1>2. PICK place \in [D -> Orders \ Rows(order)] :
        order' = [o \in Orders |->
                   IF \E d \in D : place[d] = o
                   THEN newOrder(t, CHOOSE d \in D : place[d] = o) ELSE order[o]]
  BY DEF Write
<1>3. DOMAIN order' = Orders /\ DOMAIN order = Orders /\ UNCHANGED menu
  BY <1>2 DEF MealTypes, Tables, Write, menus
<1>4. \A o \in Orders :
        \/ order'[o] = order[o]
        \/ \E d \in D : order'[o] = newOrder(t, d)
  BY <1>2
<1>5. OrdersAreServed'
  <2> SUFFICES ASSUME NEW o \in active'
               PROVE  LET m == menu[order'[o].date]
                      IN  /\ m # None /\ m.id = order'[o].menu
                          /\ m.status = "published"
                          /\ order'[o].dishes \subseteq m.dishes \/ m.blind
    BY <1>3 DEF OrdersAreServed
  <2>1. CASE order'[o] = order[o]
    <3>1. o \in active
      BY <1>3, <2>1 DEF active, Rows
    <3> QED
      BY <2>1, <3>1 DEF Served, OrdersAreServed
  <2>2. CASE \E d \in D : order'[o] = newOrder(t, d)
    <3>1. PICK d \in D : order'[o] = newOrder(t, d)
      BY <2>2
    <3>2. /\ order'[o].date = d /\ order'[o].menu = tx[t].chosen[d].menu
          /\ order'[o].dishes = tx[t].chosen[d].dishes
      BY <3>1 DEF newOrder
    <3> QED
      BY <1>1, <3>2 DEF Served, Held
  <2> QED
    BY <1>3, <1>4, <2>1, <2>2 DEF active, Rows
<1>6. Held'
  BY <1>1, <1>3 DEF Served, Held, WritesNone
<1> QED
  BY <1>5, <1>6 DEF Served

LEMMA OrderServed ==
  ASSUME MealTypes, Checked, Served, OrderNext
  PROVE  Served'
<1>1. ASSUME NEW t \in Txs, NEW c \in Children, NEW wish \in Wishes,
             NEW parent \in BOOLEAN, BeginOrder(t, c, wish, parent)
      PROVE  Served'
  BY <1>1, NoWrite, OrdersSame, MenusSameServed DEF BeginOrder, Begin, Checked, menus
<1>2. ASSUME NEW t \in Txs, LockChild(t)
      PROVE  Served'
  <2>1. tx[t] \in OrderTx
    BY <1>2, OrderType DEF LockChild
  <2>2. Locked(t).step # "write"
    BY <2>1 DEF Locked, OrderTx
  <2>3. WritesNone
    BY <1>2, <2>2, NoWrite DEF LockChild, Continue
  <2> QED
    BY <1>2, <2>3, OrdersSame, MenusSameServed DEF LockChild, Checked, menus
<1>3. ASSUME NEW t \in Txs, NEW o \in Orders, NEW parent \in BOOLEAN,
             BeginCancel(t, o, parent)
      PROVE  Served'
  BY <1>3, NoWrite, OrdersSame, MenusSameServed DEF BeginCancel, Begin, Checked, menus
<1>4. ASSUME NEW t \in Txs, Cancel(t)
      PROVE  Served'
  <2>1. OrdersEnd
    BY <1>4, CancelEnds DEF Cancel, Checked
  <2>2. WritesNone
    BY <1>4, NoWrite DEF Cancel, End
  <2> QED
    BY <1>4, <2>1, <2>2, MenusSameServed DEF Cancel, menus
<1>5. ASSUME NEW o \in Orders, VoidCharge(o)
      PROVE  Served'
  <2>1. OrdersEnd
    BY <1>5, VoidEnds DEF Checked
  <2>2. WritesNone
    BY <1>5 DEF VoidCharge, WritesNone, Writing, Doing
  <2> QED
    BY <1>5, <2>1, <2>2, MenusSameServed DEF VoidCharge, menus
<1> QED
  BY <1>1, <1>2, <1>3, <1>4, <1>5, ChooseServed, WriteServed DEF OrderNext

LEMMA NoticeServed ==
  ASSUME MealTypes, Checked, Served, NoticeNext
  PROVE  Served'
<1>1. ASSUME NEW t \in Txs, NEW c \in Children, NEW from \in Days, NEW to \in Days,
             BeginNotice(t, c, from, to)
      PROVE  Served'
  BY <1>1, NoWrite, OrdersSame, MenusSameServed DEF BeginNotice, Begin, Checked, menus
<1>2. ASSUME NEW t \in Txs, NEW n \in Notices, CreateNotice(t, n)
      PROVE  Served'
  BY <1>2, NoWrite, OrdersSame, MenusSameServed DEF CreateNotice, End, Checked, menus
<1>3. ASSUME NEW n \in Notices, Approve(n)
      PROVE  Served'
  <2> DEFINE os == {o \in active : order[o].child = notice[n].child /\ order[o].date \in inTime(n)}
  <2>1. os \in SUBSET active /\ order' = cancelOrders(os)
    BY <1>3 DEF Approve
  <2> HIDE DEF os
  <2>2. OrdersEnd
    BY <2>1, CancelEnds DEF Checked
  <2>3. WritesNone
    BY <1>3 DEF Approve, WritesNone, Writing, Doing
  <2> QED
    BY <1>3, <2>2, <2>3, MenusSameServed DEF Approve, menus
<1>4. ASSUME NEW n \in Notices, NEW from, NEW to, Decide(n, from, to)
      PROVE  Served'
  <2>1. WritesNone
    BY <1>4 DEF Decide, WritesNone, Writing, Doing
  <2> QED
    BY <1>4, <2>1, OrdersSame, MenusSameServed DEF Decide, Checked, menus
<1> QED
  BY <1>1, <1>2, <1>3, <1>4 DEF NoticeNext

LEMMA ServedInvariant == Spec => [](MealTypes /\ Checked /\ Served)
<1>1. Init => Served
  BY DEF Init, Served, Held, OrdersAreServed, Writing, Doing, active, Rows
<1>2. ASSUME MealTypes, Checked, Served, [Next]_vars
      PROVE  Served'
  <2>1. CASE UNCHANGED vars
    <3>1. WritesNone /\ OrdersEnd /\ UNCHANGED menu
      BY <1>2, <2>1, OrdersSame DEF vars, WritesNone, Writing, Doing, Checked
    <3> QED
      BY <1>2, <3>1, MenusSameServed
  <2>2. CASE Elsewhere
    <3>1. WritesNone /\ OrdersEnd
      BY <1>2, <2>2, ElsewhereQuiet, LocksWrites, OrdersSame DEF Quiet, Checked
    <3>2. UNCHANGED menu
      BY <2>2 DEF Elsewhere, SetDeadline, Tick, Fail, menus
    <3> QED
      BY <1>2, <3>1, <3>2, MenusSameServed
  <2> QED
    BY <1>2, <2>1, <2>2, OrderServed, MenuServed, NoticeServed DEF Next
<1> QED
  BY <1>1, <1>2, CheckedInvariant, PTL DEF Spec

(* Whatever the kitchen does meanwhile, what was ordered is on a published *)
(* menu, or a save has replaced the dishes without the lock of the row.    *)
THEOREM OrderedIsServed == Spec => []OrdersAreServed
BY ServedInvariant, PTL DEF Served

(* A fill changes no menu that is out or ordered from, whatever it saw     *)
(* before its transaction.                                                 *)
THEOREM FillSpares == Spec => FillSparesPublished
<1>1. ASSUME NEW t \in Txs, NEW d \in Days, Fill(t), menu[d] # None, menu'[d] # menu[d]
      PROVE  menu[d].status # "published" /\ ordersOf(menu[d].id) = {}
  <2>1. d \notin created(t)
    BY <1>1 DEF Fill
  <2>2. d \in overwritten(t)
    BY <1>1, <2>1 DEF Fill
  <2>3. d \in seenDrafts(t) /\ d \notin blocked(t) /\ idOn(d) = tx[t].seen[d].id
    BY <1>1, <2>2 DEF Fill, overwritten
  <2>4. menu[d].id = tx[t].seen[d].id
    BY <1>1, <2>3 DEF idOn
  <2> QED
    BY <1>1, <2>3, <2>4 DEF blocked
<1>2. ASSUME [Next]_vars
      PROVE  [\A t \in Txs, d \in Days :
                (/\ menu[d] # None /\ menu'[d] # menu[d]
                 /\ menu[d].status = "published" \/ ordersOf(menu[d].id) # {})
                => ~Fill(t)]_vars
  BY <1>1
<1> QED
  BY <1>2, PTL DEF Spec, FillSparesPublished

=============================================================================
