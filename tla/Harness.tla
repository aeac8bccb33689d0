------------------------------ MODULE Harness ------------------------------
(***************************************************************************)
(* The grading programs test-se.c and test-csim.c with the processes they  *)
(* start through system(): the reference and the student's program, which  *)
(* talk to them through files.                                             *)
(*                                                                         *)
(* A file holds the output of a program for a test: the test, and how many *)
(* of its PARTS parts agree with the reference.  Outputs of different      *)
(* tests are taken to have nothing in common.                              *)
(***************************************************************************)
EXTENDS Integers, Sequences, FiniteSetsExt

CONSTANTS
  Tests,         \* for each tool its tests in order, each with directory and name
  Weight,        \* for each tool the weights of its directories
  Agreements,    \* how many parts of an output the student may get right
  MaxSessions    \* bound on the sessions

Tools == {"test-se", "test-csim"}
PARTS == 4    \* the four counters of a trace

ASSUME HarnessAssumption ==
  /\ \A t \in Tools :
       /\ Tests[t] \in Seq([dir : DOMAIN Weight[t], name : STRING])
       /\ \A d \in DOMAIN Weight[t] :
            Weight[t][d] \in Nat /\ \E n \in DOMAIN Tests[t] : Tests[t][n].dir = d
  /\ Agreements \subseteq 0 .. PARTS /\ MaxSessions \in Nat

VARIABLES
  agree,       \* how good the student's programs are, by tool and test
  files,       \* checkpoints/*.out and .csim_results
  session, sessions, tool, strays,
  test, at,    \* the test, and the step of run_test or runtrace
  child,       \* the process system() waits for
  pass, seen,  \* the local results of a test
  verdicts, score,
  delivered,   \* history: what the student's process of this test has written,
  undisturbed, \* no process of an earlier session was alive when this one began,
  quiet        \* and nothing has failed since
vars == <<agree, files, session, sessions, tool, strays, test, at, child, pass, seen,
          verdicts, score, delivered, undisturbed, quiet>>

Output(n, k) == [test |-> n, agree |-> k]
NoFile == Output(0, 0)
Cut == Output(0, 1)        \* opened for writing, and no more
NoChild == [prog |-> "none", tool |-> "none", test |-> 0]
Idle == [n \in {"ref", "student"} |-> NoFile]

Cases == UNION {{t} \X DOMAIN Tests[t] : t \in Tools}
FileOf(t, prog, n) ==
  IF t = "test-se" THEN [prog |-> prog, name |-> Tests[t][n].name]
                   ELSE [prog |-> "any", name |-> ".csim_results"]
FileNames == {FileOf(c[1], p, c[2]) : c \in Cases, p \in {"ref", "student"}}

\* What is left of an output is its agreement with the reference's.
Agreement(ref, student) ==
  IF ref = Output(student.test, PARTS) THEN student.agree ELSE 0

\* Mutant: the results of the reference stay.
Script_mutant(t) ==
  IF t = "test-se" THEN <<"ref", "student", "diff", "rm ref", "rm student">>
  ELSE <<"rm", "ref", "read ref", "student", "read student", "rm">>

\* The steps of run_test and of runtrace.
Script(t) ==
  IF t = "test-se" THEN <<"ref", "student", "diff", "rm ref", "rm student">>
  ELSE <<"rm", "ref", "read ref", "rm", "student", "read student", "rm">>

Init ==
  /\ agree \in [Cases -> Agreements]
  /\ files = [f \in FileNames |-> NoFile]
  /\ session = "off" /\ sessions = 0 /\ tool = "test-se" /\ strays = {}
  /\ test = 1 /\ at = 1 /\ child = NoChild
  /\ pass = 0 /\ seen = Idle
  /\ verdicts = <<>> /\ score = 0
  /\ delivered = NoFile /\ undisturbed = TRUE /\ quiet = TRUE

\* main() installs the handler and sets the alarm.
Begin ==
  /\ session # "running" /\ sessions < MaxSessions
  /\ session' = "running" /\ sessions' = sessions + 1 /\ tool' \in Tools
  /\ test' = 1 /\ at' = 1 /\ verdicts' = <<>> /\ score' = 0
  /\ pass' = 0 /\ seen' = Idle /\ delivered' = NoFile
  /\ undisturbed' = (strays = {}) /\ quiet' = (strays = {})
  /\ UNCHANGED <<agree, files, strays, child>>

Waiting == child # NoChild
Testing == session = "running" /\ test <= Len(Tests[tool]) /\ ~Waiting
Command == IF at \in DOMAIN Script(tool) THEN Script(tool)[at] ELSE "return"
Session == UNCHANGED <<agree, session, sessions, tool, score, undisturbed>>

\* Mutant: a test that earns nothing is tried again.
Return_mutant(v) ==
  /\ verdicts' = IF v = 0 THEN verdicts
                 ELSE Append(verdicts, [given |-> v, own |-> delivered])
  /\ test' = (IF v = 0 THEN test ELSE test + 1) /\ at' = 1
  /\ pass' = 0 /\ seen' = Idle /\ delivered' = NoFile

Return(v) ==
  /\ verdicts' = Append(verdicts, [given |-> v, own |-> delivered])
  /\ test' = test + 1 /\ at' = 1
  /\ pass' = 0 /\ seen' = Idle /\ delivered' = NoFile

Advance == at' = at + 1 /\ UNCHANGED <<test, verdicts>>
Local == UNCHANGED <<pass, seen>>

\* system() cannot start a shell; only diff's failure is not the end of the test.
SystemFails ==
  /\ Testing /\ Command \notin {"read ref", "read student", "return"}
  /\ IF Command = "diff" THEN Advance /\ pass' = 0 /\ UNCHANGED <<seen, delivered>>
                         ELSE Return(0)
  /\ quiet' = FALSE
  /\ Session /\ UNCHANGED <<files, strays, child>>

\* The emulator opens its checkpoint first; csim opens its file at the end.
Launch ==
  /\ Testing /\ Command \in {"ref", "student"}
  /\ child' = [prog |-> Command, tool |-> tool, test |-> test]
  /\ files' = IF tool = "test-se" THEN [files EXCEPT ![FileOf(tool, Command, test)] = Cut]
                                  ELSE files
  /\ delivered' = IF Command = "student" THEN NoFile ELSE delivered
  /\ Session /\ UNCHANGED <<strays, test, at, pass, seen, verdicts, quiet>>

OutputOf(c) == Output(c.test, IF c.prog = "ref" THEN PARTS ELSE agree[<<c.tool, c.test>>])
Write(c, o) == files' = [files EXCEPT ![FileOf(c.tool, c.prog, c.test)] = o]
Delivers(o) == delivered' = IF child.prog = "student" THEN o ELSE delivered

Finish ==
  /\ Waiting /\ Write(child, OutputOf(child)) /\ Delivers(OutputOf(child))
  /\ Advance /\ child' = NoChild
  /\ Session /\ Local /\ UNCHANGED <<strays, quiet>>

\* Exit with a status other than 0.
Fail ==
  /\ Waiting
  /\ Return(0) /\ child' = NoChild /\ quiet' = FALSE
  /\ Session /\ UNCHANGED <<files, strays>>

\* Death by a signal, which WIFEXITED does not see; csim may die with its
\* file open.
Crash ==
  /\ Waiting /\ child.prog = "student"
  /\ \/ UNCHANGED <<files, delivered>>
     \/ Write(child, Cut) /\ Delivers(Cut)
  /\ Advance /\ child' = NoChild /\ quiet' = FALSE
  /\ Session /\ UNCHANGED <<strays, pass, seen>>

Diff ==
  /\ Testing /\ Command = "diff"
  /\ pass' = IF Agreement(files[FileOf(tool, "ref", test)],
                          files[FileOf(tool, "student", test)]) = PARTS THEN PARTS ELSE 0
  /\ Advance
  /\ Session /\ UNCHANGED <<files, strays, child, seen, delivered, quiet>>

Remove ==
  /\ Testing /\ Command \in {"rm", "rm ref", "rm student"}
  /\ files' = [files EXCEPT ![FileOf(tool, IF Command = "rm ref" THEN "ref" ELSE "student",
                                     test)] = NoFile]
  /\ Advance
  /\ Session /\ UNCHANGED <<strays, child, pass, seen, delivered, quiet>>

\* fscanf's result is not looked at: an empty file leaves the counters what
\* they were, uninitialized.
Read ==
  /\ Testing /\ Command \in {"read ref", "read student"}
  /\ LET prog == IF Command = "read ref" THEN "ref" ELSE "student"
         o == files[FileOf(tool, prog, test)]
         counters == IF o = Cut THEN {Output(test, k) : k \in Agreements} ELSE {o}
     IN  IF o = NoFile
         THEN Return(0)
         ELSE /\ \E c \in counters : seen' = [seen EXCEPT ![prog] = c]
              /\ Advance /\ UNCHANGED <<pass, delivered>>
  /\ Session /\ UNCHANGED <<files, strays, child, quiet>>

EndTest ==
  /\ Testing /\ Command = "return"
  /\ Return(IF tool = "test-se" THEN pass ELSE Agreement(seen["ref"], seen["student"]))
  /\ Session /\ UNCHANGED <<files, strays, child, quiet>>

-----------------------------------------------------------------------------
\* Mutant: the tests that passed count in proportion.
quotient_mutant(passed, num, weight) == (weight * passed) \div num

\* The quotient of two ints is taken before the product.
quotient(passed, num, weight) == weight * (passed \div num)

InDir(d) == {n \in DOMAIN Tests[tool] : Tests[tool][n].dir = d}
Passed(d) == {n \in InDir(d) : verdicts[n].given # 0}
Total(f) == LET value(x) == f[x] IN MapThenSumSet(value, DOMAIN f)

DirScore(d) ==
  IF tool = "test-se"
  THEN quotient(Cardinality(Passed(d)), Cardinality(InDir(d)), Weight[tool][d])
  ELSE Weight[tool][d] * Total([n \in InDir(d) |-> verdicts[n].given])

Score ==
  /\ session = "running" /\ test > Len(Tests[tool])
  /\ session' = "scored"
  /\ score' = Total([d \in DOMAIN Weight[tool] |-> DirScore(d)])
  /\ UNCHANGED <<agree, files, sessions, tool, strays, test, at, child, pass, seen,
                 verdicts, delivered, undisturbed, quiet>>

\* sigalrm_handler exits; what system() has started goes on.
Alarm ==
  /\ session = "running"
  /\ session' = "timeout"
  /\ strays' = strays \cup (IF Waiting THEN {child} ELSE {})
  /\ child' = NoChild
  /\ UNCHANGED <<agree, files, sessions, tool, test, at, pass, seen, verdicts, score,
                 delivered, undisturbed, quiet>>

StrayEnds(c) ==
  /\ strays' = strays \ {c}
  /\ Write(c, OutputOf(c)) \/ UNCHANGED files
  /\ UNCHANGED <<agree, session, sessions, tool, test, at, child, pass, seen, verdicts,
                 score, delivered, undisturbed, quiet>>

Next ==
  \/ Begin \/ SystemFails \/ Launch \/ Finish \/ Fail \/ Crash
  \/ Diff \/ Remove \/ Read \/ EndTest \/ Score
  \/ Alarm \/ \E c \in strays : StrayEnds(c)

\* The grading program goes on where it is not waiting.  Nothing is assumed of
\* the timer.
Grader == Launch \/ SystemFails \/ Diff \/ Remove \/ Read \/ EndTest \/ Score
\* The process it waits for ends, one way or another.
ChildEnds == Finish \/ Fail \/ Crash

Spec == Init /\ [][Next]_vars /\ WF_vars(Grader) /\ WF_vars(ChildEnds)

-----------------------------------------------------------------------------
(* A test that counts was earned by the process started for it: its output  *)
(* is at least as good as the points say, never one left over from another  *)
(* test or from the reference, however earlier tests and processes ended.   *)
(* Excepted are processes an earlier session left running and a csim that   *)
(* dies with its file open, whose counters runtrace makes up.               *)
PassEarned ==
  undisturbed =>
    \A n \in DOMAIN verdicts :
      verdicts[n].given > 0 =>
        \/ verdicts[n].own = Output(n, verdicts[n].given)
        \/ tool = "test-csim" /\ verdicts[n].own = Cut

\* The student's program is right for the whole directory.
Earned(d) ==
  IF tool = "test-se"
  THEN IF \A n \in InDir(d) : agree[<<tool, n>>] = PARTS THEN Weight[tool][d] ELSE 0
  ELSE Weight[tool][d] * Total([n \in InDir(d) |-> agree[<<tool, n>>]])

(* A session without faults gives the score the student's programs deserve: *)
(* in test-csim every counter that agrees counts, in test-se a directory    *)
(* counts only when all of its tests pass.                                  *)
ScoreExact ==
  session = "scored" /\ quiet => score = Total([d \in DOMAIN Weight[tool] |-> Earned(d)])

(* Where every program ends, a session does not depend on the timer: it     *)
(* gets past every test, whichever steps fail and whatever files are        *)
(* missing, to a score over one verdict for each, unless the alarm comes    *)
(* first.                                                                   *)
SessionJudged ==
  session = "running" ~>
    \/ session = "scored" /\ Len(verdicts) = Len(Tests[tool])
    \/ session = "timeout"
=============================================================================
