----------------------------- MODULE DailyNotes -----------------------------
(***************************************************************************)
(* The notes of a day (daily-notes/): sets of questions given to groups,   *)
(* and the answers teachers save for each child.  It shares the children   *)
(* and their locks with the register, whose marks and notices tell whom    *)
(* notes are expected for.                                                 *)
(*                                                                         *)
(* A save locks the children, then the active sets of the group, shared;   *)
(* changing or removing a set takes the same lock alone.  An answer keeps  *)
(* the type its question had.                                              *)
(***************************************************************************)
EXTENDS Register

CONSTANTS
  Sets,        \* identities of sets of questions,
  Questions,   \* of questions
  Answers,     \* and of answers
  Types,       \* of questions
  Values       \* Values[y]: the answers a question of the type takes

SetRows == [active : BOOLEAN, groups : SUBSET Groups]

QuestionRows ==
  [set : Sets, type : Types, required : BOOLEAN, active : BOOLEAN]

Given == UNION {Values[y] : y \in Types}

AnswerRows ==
  [child : Children, group : Groups, question : Questions, date : Dates,
   type : Types, value : Given, voided : BOOLEAN]

(* A save: the sets it has found, and those of them it has locked.         *)
NotesSaving ==
  [op : {"notes"}, group : Groups, date : Dates,
   wanted : UNION {[asked -> Given \cup {None}] :
                     asked \in (SUBSET (Children \X Questions)) \ {{}}},
   locked : SUBSET Children, asked : SUBSET Sets, shared : SUBSET Sets,
   stage : {"begun", "children", "sets"}]

ASSUME NotesAssumption ==
  /\ None \notin SetRows /\ None \notin QuestionRows /\ None \notin AnswerRows
  /\ None \notin NotesSaving

VARIABLES
  set,         \* set -> [active, groups], or None
  question,    \* question -> [set, type, required, active], or None
  answer       \* answer -> its row, or None

notesVars == <<registerVars, set, question, answer>>

unchangedRegister ==
  UNCHANGED <<today, editDays, member, calendar, notices, inactive, mark>>

questionsOf(s) == {q \in Questions : question[q] # None /\ question[q].set = s}

activeQuestions(s) == {q \in questionsOf(s) : question[q].active}

activeSets(g) ==
  {s \in Sets : set[s] # None /\ set[s].active /\ g \in set[s].groups}

activeAnswers(c, d) ==
  {a \in Answers : answer[a] # None /\ ~answer[a].voided
                   /\ answer[a].child = c /\ answer[a].date = d}

(* Mutant of answered: a voided answer no longer counts.                   *)
answeredNow(q) ==
  \E a \in Answers :
    answer[a] # None /\ ~answer[a].voided /\ answer[a].question = q

(* Any answer, voided ones included, keeps a question from being deleted.  *)
answered(q) == \E a \in Answers : answer[a] # None /\ answer[a].question = q

-----------------------------------------------------------------------------
(* notes-calc.ts; DailyNotesService.day, pending                           *)

isComplete(questions, given) ==
  LET required == {q \in questions : question[q].required} IN
  IF questions = {} THEN TRUE
  ELSE IF required = {} THEN questions \cap given # {}
  ELSE required \subseteq given

given(c, d) == {answer[a].question : a \in activeAnswers(c, d)}

isAbsent(c, d, works) ==
  resolveDay(c, d, works) \in {"absent", "expected_absent"}

expected(g, d) ==
  {c \in Children :
     member[c] = g /\ working(d, g) /\ ~isAbsent(c, d, working(d, g))}

(* The children whose notes of the day still lack something.               *)
pending(g, d) ==
  {c \in expected(g, d) :
     \E s \in activeSets(g) : ~isComplete(activeQuestions(s), given(c, d))}

-----------------------------------------------------------------------------
(* DailyNotesService.save                                                  *)

(* None clears an answer.                                                  *)
BeginNotes(t, g, d, wanted) ==
  /\ saving[t] = None
  /\ d <= today
  /\ inWindow(d) \/ t \in Managers
  /\ saving' = [saving EXCEPT ![t] =
       [op |-> "notes", group |-> g, date |-> d, wanted |-> wanted,
        locked |-> {}, asked |-> {}, shared |-> {}, stage |-> "begun"]]
  /\ unchangedRegister
  /\ UNCHANGED <<set, question, answer>>

at(t, stage) == saving[t] # None /\ saving[t].op = "notes" /\ saving[t].stage = stage

LockNoted(t) ==
  /\ at(t, "begun")
  /\ LET children == {p[1] : p \in DOMAIN saving[t].wanted} IN
     /\ \A c \in children : ~lockedByOther(t, c) /\ member[c] = saving[t].group
     /\ saving' = [saving EXCEPT ![t].locked = children,
                         ![t].asked = activeSets(saving[t].group),
                         ![t].stage = "children"]
  /\ unchangedRegister
  /\ UNCHANGED <<set, question, answer>>

(* The sets found are locked, if they still are there and active; whether  *)
(* they are still given to the group is not looked at again.               *)
LockSets(t) ==
  /\ at(t, "children")
  /\ saving' = [saving EXCEPT ![t].shared =
                        {s \in saving[t].asked : set[s] # None /\ set[s].active},
                      ![t].stage = "sets"]
  /\ unchangedRegister
  /\ UNCHANGED <<set, question, answer>>

(* normalizeAnswer                                                         *)
valid(q, value) == value = None \/ value \in Values[question[q].type]

WriteNotes(t) ==
  /\ at(t, "sets")
  /\ LET wanted == saving[t].wanted
         questions == UNION {activeQuestions(s) : s \in saving[t].shared}
         existing(p) ==
           {a \in activeAnswers(p[1], saving[t].date) : answer[a].question = p[2]}
         same(p) == \E a \in existing(p) :
                      answer[a].group = saving[t].group /\ answer[a].value = wanted[p]
         voided == UNION {existing(p) : p \in {r \in DOMAIN wanted : ~same(r)}}
         new == {p \in DOMAIN wanted : wanted[p] # None /\ ~same(p)}
         row(p) == [child |-> p[1], group |-> saving[t].group, question |-> p[2],
                    date |-> saving[t].date, type |-> question[p[2]].type,
                    value |-> wanted[p], voided |-> FALSE]
     IN /\ \A p \in DOMAIN wanted : p[2] \in questions /\ valid(p[2], wanted[p])
        /\ \E id \in [new -> {a \in Answers : answer[a] = None}] :
             /\ \A p, r \in new : id[p] = id[r] => p = r
             /\ answer' = [a \in Answers |->
                  IF a \in voided THEN [answer[a] EXCEPT !.voided = TRUE]
                  ELSE IF \E p \in new : id[p] = a
                  THEN row(CHOOSE p \in new : id[p] = a)
                  ELSE answer[a]]
  /\ saving' = [saving EXCEPT ![t] = None]
  /\ unchangedRegister
  /\ UNCHANGED <<set, question>>

-----------------------------------------------------------------------------
(* NoteSetsService.create, update, remove.  What is locked alone is read,  *)
(* changed and let go in one step.                                         *)

(* Mutant of lockable: a set is changed under the notes that are being     *)
(* saved.                                                                  *)
lockableAlways(s) == s \in Sets

lockable(s) ==
  \A t \in Savers : saving[t] # None /\ saving[t].op = "notes" => s \notin saving[t].shared

createSet(s, groups, questions) ==
  /\ set[s] = None
  /\ set' = [set EXCEPT ![s] = [active |-> TRUE, groups |-> groups]]
  /\ \A q \in DOMAIN questions : question[q] = None
  /\ question' = [q \in Questions |->
       IF q \in DOMAIN questions
       THEN [set |-> s, type |-> questions[q].type,
             required |-> questions[q].required, active |-> TRUE]
       ELSE question[q]]
  /\ unchangedRegister
  /\ UNCHANGED <<saving, answer>>

replaceable(s, questions) ==
  \A q \in DOMAIN questions :
    question[q] # None =>
      /\ question[q].set = s
      /\ answered(q) => question[q].type = questions[q].type

(* Of the questions left out, the answered ones are put aside and the      *)
(* others deleted; those sent again are in use from now on.                *)
replaceQuestions(s, questions) ==
  [q \in Questions |->
     IF q \in DOMAIN questions
     THEN [set |-> s, type |-> questions[q].type,
           required |-> questions[q].required, active |-> TRUE]
     ELSE IF q \notin questionsOf(s) THEN question[q]
     ELSE IF answered(q) THEN [question[q] EXCEPT !.active = FALSE]
     ELSE None]

(* None sends no questions.                                                *)
updateSet(s, active, groups, questions) ==
  /\ set[s] # None /\ lockable(s)
  /\ set' = [set EXCEPT ![s] = [active |-> active, groups |-> groups]]
  /\ IF questions = None THEN UNCHANGED question
     ELSE /\ replaceable(s, questions)
          /\ question' = replaceQuestions(s, questions)
  /\ unchangedRegister
  /\ UNCHANGED <<saving, answer>>

removeSet(s) ==
  /\ set[s] # None /\ lockable(s)
  /\ \A q \in questionsOf(s) : ~answered(q)
  /\ set' = [set EXCEPT ![s] = None]
  /\ question' = [q \in Questions |->
       IF q \in questionsOf(s) THEN None ELSE question[q]]
  /\ unchangedRegister
  /\ UNCHANGED <<saving, answer>>

-----------------------------------------------------------------------------
NotesInit ==
  /\ RegisterInit
  /\ set = [s \in Sets |-> None]
  /\ question = [q \in Questions |-> None]
  /\ answer = [a \in Answers |-> None]

Sent == UNION {[some -> [type : Types, required : BOOLEAN]] :
               some \in SUBSET Questions}

NotesStep ==
  \/ \E t \in Savers :
       \/ \E g \in Groups : \E d \in Dates :
            \E asked \in (SUBSET (Children \X Questions)) \ {{}} :
              \E wanted \in [asked -> Given \cup {None}] :
                BeginNotes(t, g, d, wanted)
       \/ LockNoted(t) \/ LockSets(t) \/ WriteNotes(t)
  \/ \E s \in Sets :
       \/ \E groups \in SUBSET Groups :
            \/ \E questions \in Sent : createSet(s, groups, questions)
            \/ \E active \in BOOLEAN : \E questions \in Sent \cup {None} :
                 updateSet(s, active, groups, questions)
       \/ removeSet(s)

NotesNext ==
  \/ NotesStep
  \/ RegisterNext /\ UNCHANGED <<set, question, answer>>

NotesSpec == NotesInit /\ [][NotesNext]_notesVars

-----------------------------------------------------------------------------
NotesTypeOK ==
  /\ RegisterTypeOK
  /\ set \in [Sets -> SetRows \cup {None}]
  /\ question \in [Questions -> QuestionRows \cup {None}]
  /\ answer \in [Answers -> AnswerRows \cup {None}]
  /\ saving \in [Savers -> MarksSaving \cup NotesSaving \cup {None}]

(* A question has one standing answer for a child on a day, and the notes  *)
(* parents have seen keep making sense: the question of every answer ever  *)
(* given is still there, asks for the type it was answered with, and       *)
(* belongs to a set, whatever was edited or removed while it was saved.    *)
AnswersKeepTheirQuestions ==
  /\ \A a, b \in Answers :
       /\ answer[a] # None /\ ~answer[a].voided
       /\ answer[b] # None /\ ~answer[b].voided
       /\ <<answer[a].child, answer[a].question, answer[a].date>>
            = <<answer[b].child, answer[b].question, answer[b].date>>
       => a = b
  /\ \A a \in Answers : answer[a] # None =>
       LET q == answer[a].question IN
       question[q] # None /\ question[q].type = answer[a].type
         /\ set[question[q].set] # None

(* An answer is saved only while its question is asked, and for a child    *)
(* that is in the group at that moment, although both were looked up       *)
(* before: the child cannot be moved, nor the set closed, in between.      *)
AnsweredWhileAsked ==
  [][\A a \in Answers : answer[a] = None /\ answer'[a] # None =>
       LET q == answer'[a].question IN
       /\ question[q].active /\ set[question[q].set].active
       /\ member[answer'[a].child] = answer'[a].group]_notesVars

(* Notes are expected only for children the register counts on: the two    *)
(* tell alike whether a child is absent.                                   *)
NotesFollowTheRegister ==
  \A g \in Groups : \A d \in Dates : \A c \in expected(g, d) :
    <<c, d>> \in expectedPresence

(* The views of a day agree: a child has one mark, one state whoever       *)
(* looks, and is expected in the notes only if the register expects it.    *)
ViewsAgree == OneMarkPerDay /\ OneStateOfADay /\ NotesFollowTheRegister

=============================================================================
