-------------------------------- MODULE MCSizzle --------------------------------
(***************************************************************************)
(* A small instance of Sizzle for TLC: all trees of N nodes.               *)
(***************************************************************************)
EXTENDS Sizzle

CONSTANT N

\* A node comes below the one before it in the order of the document, or below one that this
\* one is in.
MCParents ==
  {f \in [1..N -> 0..(N - 1)] :
     /\ \A i \in 1..N : f[i] < i
     /\ \A i \in 2..N : LET up[x \in 0..N] == IF x = 0 THEN {0} ELSE {x} \union up[f[x]]
                        IN f[i] \in up[i - 1]}
MCTrees == [parent : MCParents, name : [1..N -> {"p", "a"}]]

P == Tag("p")
A == Tag("a")
In == Relative(" ")
Of == Relative(">")
Next1 == Relative("+")
After == Relative("~")
One(tokens) == <<tokens>>

MCSelectors ==
  {One(<<P, In, A>>), One(<<P, In, P, In, A>>), One(<<P, Of, P, In, A>>), One(<<P, Next1, A>>),
   One(<<P, After, P, In, A>>), One(<<P, In, A, After, A>>), One(<<P, After, A, Next1, P>>),
   One(<<Tag("*"), Child("first", 0, 0), Of, A>>), One(<<P, Child("nth", 2, 0), In, Child("nth", 2, 1)>>),
   One(<<Child("nth", -1, 2)>>), One(<<A, Child("nth-last", 0, 2)>>),
   One(<<Child("nth-last", 2, 1), In, Child("last", 0, 0)>>),
   One(<<Child("only", 0, 0)>>), One(<<P, Child("nth", 1, 0)>>),
   One(<<Not(One(<<P, In, A>>))>>), One(<<P, Not(One(<<P, Of, P>>)), In, A>>),
   One(<<A, Not(<<<<P, After, A>>, <<A, In, A>>>>)>>),
   One(<<P, Has(One(<<A>>)), In, A>>), One(<<P, Has(One(<<Of, A>>))>>), One(<<A, Has(One(<<Next1, P>>))>>),
   One(<<P, In, A, Has(One(<<P, In, A>>))>>), One(<<P, Has(One(<<Of, A>>)), In, A>>),
   <<<<P, In, A>>, <<P, Of, P>>>>, <<<<A, Next1, A>>, <<P, In, P, After, A>>>>}
===============================================================================
