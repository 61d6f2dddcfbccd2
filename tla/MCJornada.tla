------------------------------- MODULE MCJornada -------------------------------
EXTENDS Jornada

\* Two blocks that touch and a night shift that follows them on the first day
\* of the week; a morning with a gap before the evening on the second.
TramosMC ==
    {[dia |-> 0, inicio |-> 0, fin |-> 1], [dia |-> 0, inicio |-> 1, fin |-> 3],
     [dia |-> 0, inicio |-> 3, fin |-> 1],
     [dia |-> 1, inicio |-> 0, fin |-> 1], [dia |-> 1, inicio |-> 2, fin |-> 0]}

\* The classes and the desk share nothing but the clock: only the classes move here.
SpecClases == InitJ /\ aprobados = {} /\ [][NextClases]_varsJ
=============================================================================
