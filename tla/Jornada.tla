-------------------------------- MODULE Jornada --------------------------------
(* internal/availability: the hours the school opens (jornada_institucion),   *)
(* the hours each Admin attends (horario_admin and its exceptions), and what  *)
(* the rest of the system asks of them: whether a booking fits, when a day    *)
(* closes, whether the desk is attended.  Every change holds                  *)
(* Coordinar(exclusivo), and a booking holds it shared, so each of them is    *)
(* one step.  Hours are counted in units of which a day has HorasDelDia.      *)
EXTENDS Naturals, FiniteSets, SequencesExt

CONSTANTS
    HorasDelDia,   \* units of a day
    DiasSemana,    \* number of different days of the week
    MaxFecha,      \* bound of the calendar
    Tramos,        \* the blocks that can be proposed: [dia, inicio, fin]
    MaxTramos,     \* MaxTramosDeJornada
    Reservas,      \* identifiers of normal bookings
    Usuarios,      \* who can be an Admin
    Bloques,       \* identifiers of horario_admin
    MaxCambiosJ,   \* bound of the changes people make
    Nadie          \* NULL

ASSUME JornadaAssumption ==
    /\ HorasDelDia \in Nat \ {0} /\ DiasSemana \in Nat \ {0}
    /\ MaxFecha \in Nat /\ MaxTramos \in Nat /\ MaxCambiosJ \in Nat
    /\ Tramos \subseteq {t \in [dia : 0 .. DiasSemana - 1, inicio : 0 .. HorasDelDia - 1,
                                 fin : 0 .. HorasDelDia - 1] : t.inicio # t.fin}

VARIABLES
    reloj,        \* now, in units since the first midnight
    jornada,      \* the set of blocks in force
    clases,       \* the bookings
    propuesta,    \* the change that was answered with 409, and its impact
    aprobados,    \* Admins with an approved account
    horarios,     \* blocks of the weekly pattern of each Admin
    excepciones,  \* one per Admin and date
    cambiosJ

varsJ == <<reloj, jornada, clases, propuesta, aprobados, horarios, excepciones, cambiosJ>>

Horas == 0 .. HorasDelDia - 1
Fechas == 0 .. MaxFecha
DiaDe(f) == f % DiasSemana
Hoy == reloj \div HorasDelDia

Clase == [fecha : Fechas, inicio : Horas, fin : Horas, estado : {"CONFIRMADA", "CANCELADA"}]
BloqueHorario == {b \in [usuario : Usuarios, dia : 0 .. DiasSemana - 1, inicio : Horas, fin : Horas] :
                    b.inicio < b.fin}
Excepcion == {[tipo |-> "NO_DISPONIBLE"]} \cup
             {x \in [tipo : {"HORARIO_MODIFICADO"}, inicio : Horas, fin : Horas] : x.inicio < x.fin}
Propuesta == [tramos : SUBSET Tramos, fuera : SUBSET Reservas]

TypeOKJ ==
    /\ reloj \in 0 .. (MaxFecha + 1) * HorasDelDia
    /\ jornada \subseteq Tramos
    /\ clases \in [Reservas -> Clase \cup {Nadie}]
    /\ propuesta \in Propuesta \cup {Nadie}
    /\ aprobados \subseteq Usuarios
    /\ horarios \in [Bloques -> BloqueHorario \cup {Nadie}]
    /\ excepciones \in [Usuarios \X Fechas -> Excepcion \cup {Nadie}]
    /\ cambiosJ \in 0 .. MaxCambiosJ

InitJ ==
    /\ reloj = 0 /\ jornada = {} /\ propuesta = Nadie
    /\ clases = [r \in Reservas |-> Nadie]
    /\ aprobados \in SUBSET Usuarios
    /\ horarios = [b \in Bloques |-> Nadie]
    /\ excepciones = [x \in Usuarios \X Fechas |-> Nadie]
    /\ cambiosJ = 0

CambiaJ == cambiosJ < MaxCambiosJ /\ cambiosJ' = cambiosJ + 1

-----------------------------------------------------------------------------
(* The opening hours                                                         *)

\* A block that ends before it begins ends the next day.
FinRelativo(inicio, fin) == IF fin < inicio THEN fin + HorasDelDia ELSE fin

SolapaCon(a, b) ==
    /\ a.dia = b.dia
    /\ a.inicio < FinRelativo(b.inicio, b.fin) /\ b.inicio < FinRelativo(a.inicio, a.fin)

SinSolape(j) == \A a, b \in j : a # b => ~SolapaCon(a, b)

\* One more block after the merged ones: it stretches the last or stands apart.
Fusionar(fusionados, t) ==
    IF fusionados # << >> /\ t.desde <= Last(fusionados).hasta
    THEN IF t.hasta > Last(fusionados).hasta
         THEN Append(Front(fusionados), [Last(fusionados) EXCEPT !.hasta = t.hasta])
         ELSE fusionados
    ELSE Append(fusionados, t)

\* sort.Slice by the beginning.
PorInicio(T) ==
    CHOOSE s \in SetToSeqs(T) : \A j, k \in DOMAIN s : j < k => s[j].desde < s[k].desde

TramosDelDia(j, d) ==
    LET delDia == {[desde |-> b.inicio, hasta |-> FinRelativo(b.inicio, b.fin)] :
                     b \in {x \in j : x.dia = d}}
    IN FoldLeft(Fusionar, << >>, PorInicio(delDia))

\* Mutant: it opens and closes inside, whatever is in between.
LasPuntas(j, d, inicio, fin) ==
    \/ j = {}
    \/ /\ \E t \in Range(TramosDelDia(j, d)) : t.desde <= inicio /\ inicio < t.hasta
       /\ \E t \in Range(TramosDelDia(j, d)) : t.desde < FinRelativo(inicio, fin) /\ FinRelativo(inicio, fin) <= t.hasta

\* No block declared restricts nothing; otherwise the booking fits whole.
PermiteReserva(j, d, inicio, fin) ==
    \/ j = {}
    \/ \E t \in Range(TramosDelDia(j, d)) : t.desde <= inicio /\ FinRelativo(inicio, fin) <= t.hasta

\* When the day closes; a day without blocks does not open.
CierreDe(j, d) ==
    IF TramosDelDia(j, d) = << >> THEN Nadie ELSE Last(TramosDelDia(j, d)).hasta

-----------------------------------------------------------------------------
(* The bookings                                                              *)

Inicio(c) == c.fecha * HorasDelDia + c.inicio
Fin(c) == c.fecha * HorasDelDia + FinRelativo(c.inicio, c.fin)

\* What has begun is left to end.
ReservasFuturas ==
    {r \in Reservas : clases[r] # Nadie /\ clases[r].estado = "CONFIRMADA" /\ Inicio(clases[r]) > reloj}

CrearReserva(r, f, inicio, fin) ==
    /\ CambiaJ /\ clases[r] = Nadie
    /\ LET c == [fecha |-> f, inicio |-> inicio, fin |-> fin, estado |-> "CONFIRMADA"] IN
       /\ inicio # fin /\ Fin(c) > reloj
       /\ PermiteReserva(jornada, DiaDe(f), inicio, fin)
       /\ clases' = [clases EXCEPT ![r] = c]
    /\ UNCHANGED <<reloj, jornada, propuesta, aprobados, horarios, excepciones>>

CancelarReserva(r) ==
    /\ CambiaJ /\ r \in ReservasFuturas
    /\ clases' = [clases EXCEPT ![r].estado = "CANCELADA"]
    /\ UNCHANGED <<reloj, jornada, propuesta, aprobados, horarios, excepciones>>

-----------------------------------------------------------------------------
(* The change of the opening hours                                           *)

Impacto(j) ==
    IF j = {} THEN {}
    ELSE {r \in ReservasFuturas :
            ~PermiteReserva(j, DiaDe(clases[r].fecha), clases[r].inicio, clases[r].fin)}

Validos(j) == Cardinality(j) <= MaxTramos /\ SinSolape(j)

\* 409 with the impact, and nothing is touched.
MostrarImpacto(j) ==
    /\ CambiaJ /\ Validos(j) /\ Impacto(j) # {}
    /\ propuesta' = [tramos |-> j, fuera |-> Impacto(j)]
    /\ UNCHANGED <<reloj, jornada, clases, aprobados, horarios, excepciones>>

CancelarReservas(fuera) ==
    [r \in Reservas |-> IF r \in fuera THEN [clases[r] EXCEPT !.estado = "CANCELADA"] ELSE clases[r]]

\* The hours and the cascade are one transaction.
Reemplazar(j) ==
    /\ jornada' = j
    /\ clases' = CancelarReservas(Impacto(j))
    /\ UNCHANGED <<reloj, aprobados, horarios, excepciones>>

\* Without anything outside no confirmation is needed.
AmpliarJornada(j) ==
    /\ CambiaJ /\ Validos(j) /\ Impacto(j) = {}
    /\ Reemplazar(j) /\ UNCHANGED propuesta

ReemplazarJornada(j) ==
    /\ CambiaJ /\ Validos(j) /\ Impacto(j) # {}
    /\ Reemplazar(j) /\ propuesta' = Nadie

-----------------------------------------------------------------------------
(* The hours of the Admins                                                   *)

SeSolapaCon(a, b) == a.dia = b.dia /\ a.inicio < b.fin /\ b.inicio < a.fin

VerificarSinSolape(b, r) ==
    \A o \in Bloques \ {b} :
      (horarios[o] # Nadie /\ horarios[o].usuario = r.usuario) => ~SeSolapaCon(r, horarios[o])

GuardarBloque(b, r) ==
    /\ VerificarSinSolape(b, r)
    /\ horarios' = [horarios EXCEPT ![b] = r]
    /\ UNCHANGED <<reloj, jornada, clases, propuesta, aprobados, excepciones>>

AgregarBloque(b, r) ==
    /\ CambiaJ /\ horarios[b] = Nadie /\ r.usuario \in aprobados
    /\ GuardarBloque(b, r)

\* The block is looked for by its identifier and its owner.
EditarBloque(b, r) ==
    /\ CambiaJ /\ horarios[b] # Nadie /\ horarios[b].usuario = r.usuario /\ r.usuario \in aprobados
    /\ GuardarBloque(b, r)

EliminarBloque(b) ==
    /\ CambiaJ /\ horarios[b] # Nadie /\ horarios[b].usuario \in aprobados
    /\ horarios' = [horarios EXCEPT ![b] = Nadie]
    /\ UNCHANGED <<reloj, jornada, clases, propuesta, aprobados, excepciones>>

\* The exception of a date replaces the one there was.
CargarExcepcion(u, f, x) ==
    /\ CambiaJ /\ u \in aprobados
    /\ excepciones' = [excepciones EXCEPT ![<<u, f>>] = x]
    /\ UNCHANGED <<reloj, jornada, clases, propuesta, aprobados, horarios>>

MarcarNoDisponibleAhora(u) ==
    Hoy \in Fechas /\ CargarExcepcion(u, Hoy, [tipo |-> "NO_DISPONIBLE"])

CambiarAprobado(u) ==
    /\ CambiaJ
    /\ aprobados' = IF u \in aprobados THEN aprobados \ {u} ELSE aprobados \cup {u}
    /\ UNCHANGED <<reloj, jornada, clases, propuesta, horarios, excepciones>>

BloquesDe(u) == {horarios[b] : b \in {o \in Bloques : horarios[o] # Nadie /\ horarios[o].usuario = u}}

\* Mutant: the exception is one block more.
ConLaExcepcion(u, f) ==
    LET x == excepciones[<<u, f>>] IN
    {[inicio |-> b.inicio, fin |-> b.fin] : b \in {o \in BloquesDe(u) : o.dia = DiaDe(f)}}
      \cup (IF x # Nadie /\ x.tipo = "HORARIO_MODIFICADO" THEN {[inicio |-> x.inicio, fin |-> x.fin]} ELSE {})

\* The sweep: an exception wins over the pattern, whole.
TramosDeAtencion(u, f) ==
    LET x == excepciones[<<u, f>>] IN
    IF x = Nadie THEN {[inicio |-> b.inicio, fin |-> b.fin] : b \in {o \in BloquesDe(u) : o.dia = DiaDe(f)}}
    ELSE IF x.tipo = "NO_DISPONIBLE" THEN {} ELSE {[inicio |-> x.inicio, fin |-> x.fin]}

Declarado(f) == \E u \in aprobados : BloquesDe(u) # {} \/ excepciones[<<u, f>>] # Nadie

MostradorEn(f, h) ==
    \E u \in aprobados : \E t \in TramosDeAtencion(u, f) : t.inicio <= h /\ h < t.fin

MostradorEseDia(f) == \E u \in aprobados : TramosDeAtencion(u, f) # {}

\* Whether the sweep may conclude anything.
Opera(f, atendido) == ~Declarado(f) \/ atendido

\* The screen of the Admins asks by itself.
DisponibleAhora(u, f, h) ==
    LET x == excepciones[<<u, f>>] IN
    IF x # Nadie THEN x.tipo = "HORARIO_MODIFICADO" /\ x.inicio <= h /\ h < x.fin
    ELSE \E b \in BloquesDe(u) : b.dia = DiaDe(f) /\ b.inicio <= h /\ h < b.fin

Tick ==
    /\ Hoy \in Fechas /\ reloj' = reloj + 1
    /\ UNCHANGED <<jornada, clases, propuesta, aprobados, horarios, excepciones, cambiosJ>>

-----------------------------------------------------------------------------
PeticionesDeJornada ==
    \E j \in SUBSET Tramos : MostrarImpacto(j) \/ AmpliarJornada(j) \/ ReemplazarJornada(j)
PeticionesDeClases ==
    \E r \in Reservas :
      \/ \E f \in Fechas, i, h \in Horas : CrearReserva(r, f, i, h)
      \/ CancelarReserva(r)
PeticionesDeAgregar == \E b \in Bloques, r \in BloqueHorario : AgregarBloque(b, r)
PeticionesDeEditar == \E b \in Bloques, r \in BloqueHorario : EditarBloque(b, r)
PeticionesDeEliminar == \E b \in Bloques : EliminarBloque(b)
PeticionesDeExcepcion ==
    \E u \in Usuarios : \E f \in Fechas, x \in Excepcion : CargarExcepcion(u, f, x)
AvisosDeAusencia == \E u \in Usuarios : MarcarNoDisponibleAhora(u)
CambiosDeCuenta == \E u \in Usuarios : CambiarAprobado(u)

NextClases == PeticionesDeJornada \/ PeticionesDeClases \/ Tick
NextMostrador ==
    \/ PeticionesDeAgregar \/ PeticionesDeEditar \/ PeticionesDeEliminar
    \/ PeticionesDeExcepcion \/ AvisosDeAusencia \/ CambiosDeCuenta

NextJ == NextClases \/ NextMostrador

SpecJ == InitJ /\ [][NextJ]_varsJ

-----------------------------------------------------------------------------
(* Properties                                                                *)

\* The hours day d is open, the ones after midnight counted from HorasDelDia:
\* the definition the merging of blocks must agree with.
Abierto(j, d, h) == \E b \in j : b.dia = d /\ b.inicio <= h /\ h < FinRelativo(b.inicio, b.fin)
Entra(j, c) ==
    j = {} \/ \A h \in c.inicio .. FinRelativo(c.inicio, c.fin) - 1 : Abierto(j, DiaDe(c.fecha), h)

\* However the opening hours were replaced and whatever was booked meanwhile,
\* every class that has not begun has the school open from its start to its
\* end, so that the end-of-day cut of its day comes after it.
TodaClaseEnHorario ==
    \A r \in ReservasFuturas :
      /\ Entra(jornada, clases[r])
      /\ jornada # {} =>
           FinRelativo(clases[r].inicio, clases[r].fin) <= CierreDe(jornada, DiaDe(clases[r].fecha))

HorarioSinSolape ==
    \A a, b \in Bloques :
      (a # b /\ horarios[a] # Nadie /\ horarios[b] # Nadie /\ horarios[a].usuario = horarios[b].usuario)
        => ~SeSolapaCon(horarios[a], horarios[b])

PantallaYBarridoCoinciden ==
    \A f \in Fechas, h \in Horas :
      /\ MostradorEn(f, h) <=> \E u \in aprobados : DisponibleAhora(u, f, h)
      /\ (MostradorEseDia(f) /\ Opera(f, MostradorEn(f, h))) => MostradorEn(f, h)

\* The blocks of an Admin never overlap, edited as they may be.  The screen that
\* lists the Admins and the sweep compute apart whether anybody attends: they
\* never differ.  On a day somebody attends at some hour, by the pattern or by
\* an exception alone, the sweep operates in those hours only.
MostradorCoherente == HorarioSinSolape /\ PantallaYBarridoCoinciden

\* handlers.go says of the confirmed change that what was shown cannot differ
\* from what is applied: a change confirmed as it was proposed cancels only the
\* classes that were shown.
SoloSeCancelaLoMostrado ==
    [][\A r \in Reservas :
         (propuesta # Nadie /\ propuesta' = Nadie /\ jornada' = propuesta.tramos /\ clases'[r] # clases[r])
           => r \in propuesta.fuera]_varsJ
=============================================================================
