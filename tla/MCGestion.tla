------------------------------- MODULE MCGestion -------------------------------
(* What an Admin manages of people and years: accounts, credentials, the year's  *)
(* closing, requests for a subject and the edition of a course. The five modules *)
(* share no state, so TLC explores them one beside the other: parte says which   *)
(* one moves, and the others stay where they start.                              *)
EXTENDS Cuentas, Credenciales, CierreAnual, PedidosDeMateria, EdicionDeCurso, TLC

CONSTANTS ana, beto, caro

MCPersonas == {ana, beto, caro}
MCLegadas == {caro}
MCOrden == (ana :> 1) @@ (beto :> 2) @@ (caro :> 3)

\* The first year without an orientation and with one. A rule of the year alone reaches
\* both, and has the axes of the first.
MCAlcances == {11, 12}
MCGenerales == {{11, 12}}
MCDeletreo == [g \in MCGenerales |-> {11}]

VARIABLE parte

varsG == <<parte, varsCt, varsCr, varsA, varsP, varsE>>

\* Where a module starts is left open only when it is the one that moves.
InitG ==
    /\ parte \in {"cuentas", "credenciales", "cierre", "pedidos", "edicion"}
    /\ InitCt /\ InitCr /\ InitA /\ InitP /\ InitE
    /\ parte = "cuentas" \/ asignados = {}
    /\ parte = "pedidos" \/ existentes = {}
    /\ parte = "edicion" \/ \A k \in Grupos : grupos[k] = CHOOSE c \in Curso : TRUE

NextG ==
    /\ parte' = parte
    /\ \/ parte = "cuentas" /\ NextCt /\ UNCHANGED <<varsCr, varsA, varsP, varsE>>
       \/ parte = "credenciales" /\ NextCr /\ UNCHANGED <<varsCt, varsA, varsP, varsE>>
       \/ parte = "cierre" /\ NextA /\ UNCHANGED <<varsCt, varsCr, varsP, varsE>>
       \/ parte = "pedidos" /\ NextP /\ UNCHANGED <<varsCt, varsCr, varsA, varsE>>
       \/ parte = "edicion" /\ NextE /\ UNCHANGED <<varsCt, varsCr, varsA, varsP>>

SpecG == InitG /\ [][NextG]_varsG

MCSimetria == Permutations(Procesos) \cup Permutations(ProcesosCr)
=============================================================================
