-------------------------------- MODULE Papers --------------------------------
(***************************************************************************)
(* The boundaries P47 to P119 are pure: each takes frozen artefacts, checks *)
(* them, and returns a new one that copies what it was made from. Nothing  *)
(* is stored; what exists are the artefacts somebody still holds, in any   *)
(* order and any mixture. A paper is such an artefact, reduced to the      *)
(* fields a later boundary looks at. What was found out on the way is kept *)
(* beside them, for the properties alone.                                  *)
(***************************************************************************)
EXTENDS FiniteSets, Naturals

CONSTANTS PaperIds,   \* ids the callers give; one id may be given twice
          GivenIds,   \* ids of the papers a group of boundaries begins with
          MaxPapers   \* bound: papers held at a time

VARIABLES papers, established

paperVars == <<papers, established>>

PapersInit == papers = {} /\ established = {}

Held(kind) == {x \in papers : x.kind = kind}

(* A boundary leaves its inputs as they are; they stay among the papers
   where a later boundary asks for them again. The others are dropped here:
   who needs one twice has it issued twice.                                *)
Issue(used, paper) ==
    /\ paper \notin papers
    /\ papers' = (papers \ used) \cup {paper}
    /\ Cardinality(papers') <= MaxPapers

(* Mostly, a boundary finds nothing out that its paper does not say.       *)
Issues(used, paper) == Issue(used, paper) /\ UNCHANGED established

(* The same paper for the next boundary, with that boundary's verdict.     *)
Becomes(paper, kind, verdict) == [paper EXCEPT !.kind = kind, !.verdict = verdict]

(* id is the identifier a later boundary compares, source that of the work
   the paper is about.                                                     *)
Paper(kind, id, source, verdict) ==
    [kind |-> kind, id |-> id, source |-> source, verdict |-> verdict]

(* A boundary with one input, which must bear one of some verdicts, and a
   verdict of its own that the caller gives or the boundary always gives.  *)
Passes(before, accepted, after, verdicts) ==
    \E x \in Held(before), verdict \in verdicts :
       x.verdict \in accepted /\ Issues({x}, Becomes(x, after, verdict))

(* The same, where one verdict is a finding about the work.                *)
Finds(before, accepted, after, verdicts, finding) ==
    \E x \in Held(before), verdict \in verdicts :
       /\ x.verdict \in accepted
       /\ Issue({x}, Becomes(x, after, verdict))
       /\ established' = established \cup
             {f \in {<<finding, x.source>>} : verdict = finding}

(* Nobody refers to a paper any more.                                      *)
Forget ==
    /\ \E x \in papers : papers' = papers \ {x}
    /\ UNCHANGED established
=============================================================================
