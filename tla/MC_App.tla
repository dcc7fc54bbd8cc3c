------------------------------ MODULE MC_App ------------------------------
(***************************************************************************)
(* One run for the parts of the server that do not touch each other's      *)
(* state: a behaviour is one of the part that `part` names, with the       *)
(* others at rest.                                                         *)
(***************************************************************************)
EXTENDS Timetable, BatchProcess, Audio, Minutes, Summary, Dashboard,
  CallReport

VARIABLE part

parts == {"timetable", "batch", "audio", "minutes", "summary", "dash", "cards",
          "flags", "calls"}

Init_App ==
  /\ part \in parts
  /\ part # "summary" => smStep = "merge" /\ smRows = CHOOSE r \in SmItems : TRUE
  /\ part # "cards"   => cdClock = "open" /\ CdCase(CHOOSE case \in CdCases : TRUE)
  /\ TtInit /\ BpInit /\ AuInit /\ MnInit /\ SmInit /\ DcInit /\ CdInit /\ FlInit
  /\ CrInit

Others(p) ==
  /\ p # "timetable" => UNCHANGED TtVars
  /\ p # "batch"     => UNCHANGED BpVars
  /\ p # "audio"     => UNCHANGED AuVars
  /\ p # "minutes"   => UNCHANGED MnVars
  /\ p # "summary"   => UNCHANGED SmVars
  /\ p # "dash"      => UNCHANGED DcVars
  /\ p # "cards"     => UNCHANGED CdVars
  /\ p # "flags"     => UNCHANGED FlVars
  /\ p # "calls"     => UNCHANGED CrVars

Next_App ==
  /\ UNCHANGED part /\ Others(part)
  /\ \/ part = "timetable" /\ TtNext
     \/ part = "batch"     /\ BpNext
     \/ part = "audio"     /\ AuNext
     \/ part = "minutes"   /\ MnNext
     \/ part = "summary"   /\ SmNext
     \/ part = "dash"      /\ DcNext
     \/ part = "cards"     /\ CdNext
     \/ part = "flags"     /\ FlNext
     \/ part = "calls"     /\ CrNext

Spec_App ==
  Init_App /\ [][Next_App]_<<part, TtVars, BpVars, AuVars, MnVars, SmVars, DcVars, CdVars, FlVars, CrVars>>
    /\ BpFairness /\ FlFairness

\* Three utterances of two people: a promise, its date, an agreement.
MnTalks ==
  {<<[by |-> "s1", at |-> 0,  said |-> {"n1"},              size |-> 1],
     [by |-> "s2", at |-> 10, said |-> {"n2", "v", "cue"},  size |-> 1],
     [by |-> "s1", at |-> 20, said |-> {"n1", "d", "cue"},  size |-> 2]>>}

\* Answers of the language model about one part of a call.
CrIssue(sure, grounded, status) ==
  [topic |-> "t", sure |-> sure, grounded |-> grounded, status |-> status]

CrAnswers ==
  {[type |-> "none", issues |-> {}],
   [type |-> "it", issues |-> {CrIssue(TRUE, TRUE, "done")}],
   [type |-> "it", issues |-> {CrIssue(TRUE, FALSE, "done")}],
   [type |-> "it", issues |-> {CrIssue(TRUE, TRUE, "planned")}],
   [type |-> "unclear", issues |-> {CrIssue(TRUE, TRUE, "done")}]}

\* What is written down of a conversation was said, and stands where it was said; the parts
\* of a long one and the keywords come together.
MinutesRight == NothingMadeUp /\ UnderItsTopic /\ SummaryRight

\* Three items of a conversation, in one utterance or apart, of kinds that may meet.
SmLists3 ==
  LET texts == {{"a"}, {"b"}, {"a", "b"}}
      said  == [kind : {"decisions", "requests", "action_items"}, text : texts, due : {"none"}]
                 \cup [kind : {"schedule"}, text : texts \ {{"b"}}, due : {"d1", "d2"}]
  IN {[i \in 1..3 |-> r[i] @@ [ts |-> at[i]]] : r \in [1..3 -> said], at \in {<<0, 40, 120>>, <<0, 0, 0>>}}

SmAtMost    == [k \in SmKinds |-> 2]
SmBegin     == <<0, 41>>
SmTermOrder == <<"API", "api", "frame", "proframe">>
SmWithin    == {<<"API", "api">>, <<"api", "API">>, <<"frame", "proframe">>}

\* How often each is said: what contains another is not said more often.
SmConversations ==
  {[said |-> [t \in SmTerms |-> IF t = "proframe" THEN p ELSE IF t = "frame" THEN f ELSE n],
    noun |-> [t \in SmTerms |-> CASE t = "API" -> n [] t = "api" -> 0 [] t = "frame" -> g [] OTHER -> p]] :
     <<n, f, p, g>> \in
       {x \in {0, 1, 3} \X {1, 3} \X {1, 3} \X {0, 3} : x[3] <= x[2] /\ x[4] <= x[2]}}

\* Holdings of each engine around its stop, and lists of four candidates, one beyond the head.
CdSomeCases ==
  LET hold(v, l, c) == [v8 |-> v, legacy |-> l, cur |-> c]
      cand(code, ord, px, audit, close) == [code |-> code, ord_px |-> ord, px |-> px, audit |-> audit, prev_close |-> close]
      day(d, px, au, av) == [date |-> d, cands |-> <<cand("a", 950, px, au, 1000), cand("b", 900, 905, "", 980),
                                                     cand("c", 800, 0, av, 990), cand("d", 500, 480, "", 1100)>>]
      audits == {"", "caution", "halted", "administrative"}
  IN {[hold |-> hold(v, l, c), day |-> day("today", 940, "", "")] :
        v \in {CdNothing, [peak |-> 1050, trail_armed |-> TRUE]},
        l \in {CdNothing} \cup [peak_rate : {0, 69, 70}, exited : BOOLEAN, watching : {FALSE}],
        c \in {0, 931, 939, 940, 941, 949, 950, 971, 1000}}
     \cup
     {[hold |-> hold(CdNothing, CdNothing, 1000), day |-> day(d, px, au, av)] :
        d \in {"today", "yesterday"}, px \in {0, 940, 1100}, au, av \in audits}
=============================================================================
