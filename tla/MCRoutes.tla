------------------------------ MODULE MCRoutes ------------------------------
(* Instances of Routes for TLC. *)
EXTENDS Routes

Sound == Classes \ Lost

\* Every class on its own, and all of them at once.
OneByOne == {{class} : class \in Sound}
Together == {Sound}

\* The classes with such an operation, each on its own.
AstrayClasses == {{class} : class \in Lost \cup {op[1] : op \in Astray}}

Symmetry == Permutations(Names)
=============================================================================
