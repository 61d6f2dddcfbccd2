--------------------------- MODULE CierreDeJornada ---------------------------
(* The closing notice of module Custodia when the ticker of cmd/main.go keeps *)
(* its pace: five minutes pass far more often than an instant of the model,   *)
(* so no instant ends without a sweep that read the clock in it.              *)
EXTENDS Custodia

\* A day is named by its midnight, and closes after it (medianocheDe, FinRelativo).
ASSUME CierreAssumption == \A c \in Cierres : c.dia % Jornada = 0 /\ c.dia <= c.fin

VARIABLE alDia     \* the sweep already ran in this instant

varsCi == <<varsCu, alDia>>

InitCi == InitCu /\ alDia = FALSE

NextCi ==
    /\ NextCu
    /\ (ahora' # ahora) => alDia
    /\ alDia' = (ahora' = ahora /\ (alDia \/ \E p \in Procesos :
                    En(p, "barrer") /\ abierta'[p] = Nada /\ abierta[p].reloj = ahora))

SpecCi == InitCi /\ [][NextCi]_varsCi

\* The instants of the day c or of the next in which its closing is due, within a day of it.
VenceElCierre(c) ==
    {t \in 0..Horizonte : /\ c.fin + GraciaCierre <= t /\ t - c.fin < Jornada
                          /\ t < c.dia + 2 * Jornada}

\* Those that cut the day c: the closing of no later day is due by then. The days may close
\* in any order, since the blocks of two days may overlap.
CortanElDia(c) ==
    {t \in VenceElCierre(c) : \A d \in Cierres : d.dia > c.dia => t < d.fin + GraciaCierre}

\* The loan p was out when c closed, and overdue in one of the instants of T, which went by
\* with p still out.
QuedoAfuera(p, c, T) ==
    /\ Abierto(p)
    /\ prestamos[p].entregadoEn <= c.fin
    /\ \E t \in T : /\ t < ahora \/ (t = ahora /\ alDia)
                    /\ prestamos[p].entregadoEn <= t
                    /\ prestamos[p].vence = Nada \/ prestamos[p].vence <= t

\* No device that stayed out after a day somebody attended the desk goes without its
\* notice while no later day closed, classes that end past midnight and unequal days
\* included (RF-08.13).
TodaDemoraSeAvisa ==
    \A p \in Prestamos, c \in Cierres :
        c.dia \in DiasAtendidos /\ QuedoAfuera(p, c, CortanElDia(c)) => prestamos[p].avisado # Nada

\* What the comment of momentoYFechaDelCorte says: when the closings of today and of
\* yesterday are both due, the one that counts is the most recent.
ValeElMasReciente ==
    \A p \in Prestamos, c \in Cierres :
        LET masReciente(t) == \A d \in Cierres : d.fin > c.fin => t < d.fin + GraciaCierre
        IN  /\ c.dia \in DiasAtendidos
            /\ QuedoAfuera(p, c, {t \in VenceElCierre(c) : masReciente(t)})
            => prestamos[p].avisado # Nada

\* What the comments of MarcarCierreAvisado and of the column avisado_cierre_para say: the
\* notice repeats for every day that closes with the device still out.
SeAvisaCadaJornada ==
    \A p \in Prestamos, c \in Cierres :
        c.dia \in DiasAtendidos /\ QuedoAfuera(p, c, CortanElDia(c))
        => prestamos[p].avisado # Nada /\ prestamos[p].avisado >= c.fin + GraciaCierre
=============================================================================
