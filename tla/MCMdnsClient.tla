---------------------------- MODULE MCMdnsClient ----------------------------
(* Labels of one or two letters, local is "l": bilalcast is "bc", the service
   _googlecast is "g", a Chromecast's instance is "X" and its host "H".
   Another sender has a dot in its instance, "X.Y". *)
EXTENDS MdnsClient

MCHostName == <<98, 99, 46, 108>>
MCHostAddress == <<10, 0, 0, 2>>

Asked == << <<66, 99>>, <<108>> >>      \* as somebody writes it
Service == << <<103>>, <<108>> >>
Instance == << <<88>>, <<103>>, <<108>> >>
Target == << <<72>>, <<108>> >>
Dotted == << <<88, 46, 89>>, <<103>>, <<108>> >>
Own == << <<98, 99>>, <<108>> >>

AQuery(id, questions) ==
  [id |-> id, response |-> FALSE, questions |-> questions, records |-> <<>>, compress |-> FALSE]

AResponse(records) ==
  [id |-> 0, response |-> TRUE, questions |-> <<>>, records |-> records, compress |-> TRUE]

Description ==
  << [name |-> Service, type |-> TYPE_PTR, value |-> Instance],
     [name |-> Instance, type |-> TYPE_SRV, value |-> <<8009, Target>>],
     [name |-> Instance, type |-> TYPE_TXT, value |-> << <<102, 110, 61, 75>>, <<118>> >>],
     [name |-> Target, type |-> TYPE_A, value |-> <<10, 0, 0, 3>>],
     [name |-> Service, type |-> TYPE_NS, value |-> Target],
     [name |-> Dotted, type |-> TYPE_CNAME, value |-> Instance],
     [name |-> Service, type |-> TYPE_PTR, value |-> Dotted] >>

Zone == << [name |-> Service, type |-> TYPE_SOA, value |-> <<Target, Instance>>] >>

MCMessages ==
  { AQuery(7, <<[name |-> Asked, type |-> TYPE_A]>>),
    AQuery(300, <<[name |-> Asked, type |-> 28], [name |-> Own, type |-> TYPE_A]>>),
    AQuery(0, <<[name |-> Target, type |-> TYPE_A]>>),
    AResponse(Description),
    AResponse(Zone) }

MCQuestions ==
  { <<[name |-> <<88, 46, 103, 46, 108>>, type |-> TYPE_SRV],
      [name |-> <<72, 46, 108>>, type |-> TYPE_A]>> }
=============================================================================
