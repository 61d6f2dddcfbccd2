----------------------------- MODULE MCLaboratorio -----------------------------
(* The day by day of the laboratory besides its bookings: licences, machines,    *)
(* their accounts, the opening hours, the desk and the mailbox.  They share no   *)
(* state, so TLC explores them one beside the other: parte says which one        *)
(* moves, and the others stay where they start.                                  *)
EXTENDS Licencias, Inventario, CuentasDeEquipo, Jornada, Buzon

\* Two blocks that touch and a night shift that follows them on the first day
\* of the week; a morning with a gap before the evening on the second.
MCTramos ==
    {[dia |-> 0, inicio |-> 0, fin |-> 1], [dia |-> 0, inicio |-> 1, fin |-> 3],
     [dia |-> 0, inicio |-> 3, fin |-> 1],
     [dia |-> 1, inicio |-> 0, fin |-> 1], [dia |-> 1, inicio |-> 2, fin |-> 0]}

VARIABLE parte

varsD == <<parte, varsL, varsI, varsP, varsJ, varsB>>

\* Where a module starts is left open only when it is the one that moves.
InitD ==
    /\ parte \in {"licencias", "inventario", "cuentas", "clases", "mostrador", "buzon"}
    /\ InitL /\ InitI /\ InitP /\ InitJ /\ InitB
    /\ parte = "cuentas" \/ clave = Ninguna
    /\ parte = "mostrador" \/ aprobados = {}

\* The classes and the desk share nothing but the clock.
NextD ==
    /\ parte' = parte
    /\ \/ parte = "licencias" /\ NextL /\ UNCHANGED <<varsI, varsP, varsJ, varsB>>
       \/ parte = "inventario" /\ NextI /\ UNCHANGED <<varsL, varsP, varsJ, varsB>>
       \/ parte = "cuentas" /\ NextP /\ UNCHANGED <<varsL, varsI, varsJ, varsB>>
       \/ parte = "clases" /\ NextClases /\ UNCHANGED <<varsL, varsI, varsP, varsB>>
       \/ parte = "mostrador" /\ NextMostrador /\ UNCHANGED <<varsL, varsI, varsP, varsB>>
       \/ parte = "buzon" /\ NextB /\ UNCHANGED <<varsL, varsI, varsP, varsJ>>

\* The fairness of the module that moves.
SpecD == InitD /\ [][NextD]_varsD
         /\ WF_varsL(EmpezarBarrido) /\ WF_varsL(Barrer) /\ WF_varsL(Entregar)
=============================================================================
