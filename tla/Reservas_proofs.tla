-------------------------- MODULE Reservas_proofs --------------------------
(* What Reservas promises, proved for every school: any number of devices,   *)
(* subjects, teachers, slots and groups.                                     *)
EXTENDS Reservas, TLAPS

-----------------------------------------------------------------------------
(* Lemmas about the aggregation of a group's state                           *)

\* The aggregation answers a state of the group whenever it is given one.
LEMMA EstadoDeGrupoTipo ==
    ASSUME NEW estados \in SUBSET EstadosReserva, NEW actual \in EstadosGrupo
    PROVE  EstadoDeGrupo(estados, actual) \in EstadosGrupo
BY DEF EstadoDeGrupo, EstadosGrupo, GrupoTerminal

\* With at least one reservation the previous state does not count.
LEMMA EstadoDeGrupoSinMemoria ==
    ASSUME NEW estados, estados # {}, NEW a, NEW b
    PROVE  EstadoDeGrupo(estados, a) = EstadoDeGrupo(estados, b)
BY DEF EstadoDeGrupo

\* A group is open exactly while one of its reservations is.
LEMMA EstadoDeGrupoAbierto ==
    ASSUME NEW estados \in SUBSET EstadosReserva, estados # {}, NEW a
    PROVE  (EstadoDeGrupo(estados, a) \in GrupoTerminal) <=> ("CONFIRMADA" \notin estados)
BY DEF EstadoDeGrupo, GrupoTerminal

\* Aggregating a group whose reservations only leave CONFIRMADA never asks its state
\* machine for a transition it forbids.
LEMMA EstadoDeGrupoMonotono ==
    ASSUME NEW antes \in SUBSET EstadosReserva, NEW despues \in SUBSET EstadosReserva,
           NEW a \in EstadosGrupo,
           antes # {}, despues # {},
           \A s \in antes : s = "CONFIRMADA" \/ s \in despues,
           a = EstadoDeGrupo(antes, a), a \notin GrupoTerminal,
           EstadoDeGrupo(despues, a) # a
    PROVE  GrupoPuedeTransicionar(a, EstadoDeGrupo(despues, a))
<1>1. EstadoDeGrupo(despues, a) \in EstadosGrupo
  BY EstadoDeGrupoTipo
<1>2. CASE a = "CONFIRMADA"
  BY <1>1, <1>2 DEF GrupoPuedeTransicionar
<1>3. CASE a = "PARCIALMENTE_CANCELADA"
  <2>1. "CANCELADA" \in despues
    BY <1>3 DEF EstadoDeGrupo
  <2>2. EstadoDeGrupo(despues, a) # "CONFIRMADA"
    BY <2>1 DEF EstadoDeGrupo
  <2> QED BY <1>1, <1>3, <2>2 DEF GrupoPuedeTransicionar, EstadosGrupo
<1> QED BY <1>2, <1>3 DEF EstadosGrupo

-----------------------------------------------------------------------------
(* Lemmas about the helpers that write the tables                            *)

FilasGrupo == Grupo \cup Operacion \cup {Nada}

EsClase(f) == f # Nada /\ f.tipo = "NORMAL"

\* A row of the table of groups is a class, a block or empty.
LEMMA ClaseEsGrupo ==
    ASSUME NEW f \in FilasGrupo
    PROVE  /\ EsClase(f) <=> f \in Grupo
           /\ f # Nada => f.franja \in Franjas
           /\ f # Nada => f.tipo \in {"NORMAL", "BLOQUEO"}
BY ReservasAssumption DEF FilasGrupo, EsClase, Grupo, Operacion

LEMMA EstadosDelGrupoTipo ==
    ASSUME NEW rs \in [Ids -> Reserva \cup {Nada}], NEW g \in Grupos
    PROVE  /\ EstadosDelGrupo(rs, g) \in SUBSET EstadosReserva
           /\ \A s : s \in EstadosDelGrupo(rs, g) <=>
                        \E e \in Equipos : rs[<<g, e>>] # Nada /\ rs[<<g, e>>].estado = s
BY DEF EstadosDelGrupo, Ids, Reserva

\* Recomputing changes nothing of a group but its state.
LEMMA RecalculadosFila ==
    ASSUME NEW rs \in [Ids -> Reserva \cup {Nada}], NEW gs \in [Grupos -> FilasGrupo], NEW G,
           NEW g \in Grupos
    PROVE  /\ Recalculados(gs, rs, G)[g] \in FilasGrupo
           /\ Recalculados(gs, rs, G)[g] = Nada <=> gs[g] = Nada
           /\ EsClase(Recalculados(gs, rs, G)[g]) <=> EsClase(gs[g])
           /\ gs[g] # Nada => Recalculados(gs, rs, G)[g].franja = gs[g].franja
<1> DEFINE n == Recalculados(gs, rs, G)[g]
           e == EstadoDeGrupo(EstadosDelGrupo(rs, g), gs[g].estado)
<1>1. gs[g] \in FilasGrupo
  OBVIOUS
<1>2. CASE n = gs[g]
  BY <1>1, <1>2
<1>3. CASE n # gs[g]
  <2>1. EsClase(gs[g]) /\ n = [gs[g] EXCEPT !.estado = e]
    BY <1>3 DEF Recalculados, EsClase
  <2>2. gs[g] \in Grupo
    BY <1>1, <2>1, ClaseEsGrupo
  <2>3. e \in EstadosGrupo
    BY <2>2, EstadosDelGrupoTipo, EstadoDeGrupoTipo DEF Grupo
  <2>4. n \in Grupo /\ n.estado = e /\ n.franja = gs[g].franja /\ n.tipo = gs[g].tipo
    BY <2>1, <2>2, <2>3 DEF Grupo
  <2>5. n \in FilasGrupo
    BY <2>4 DEF FilasGrupo
  <2>6. EsClase(n)
    <3> HIDE DEF n
    <3> QED BY <2>4, <2>5, ClaseEsGrupo
  <2>7. n # Nada /\ gs[g] # Nada
    BY <2>1, <2>6 DEF EsClase
  <2> HIDE DEF n
  <2> SUFFICES /\ n \in FilasGrupo
               /\ n = Nada <=> gs[g] = Nada
               /\ EsClase(n) <=> EsClase(gs[g])
               /\ gs[g] # Nada => n.franja = gs[g].franja
    BY DEF n
  <2> QED BY <2>1, <2>4, <2>5, <2>6, <2>7
<1> QED BY <1>2, <1>3

\* The same, of the whole table.
LEMMA RecalculadosTipo ==
    ASSUME NEW rs \in [Ids -> Reserva \cup {Nada}], NEW gs \in [Grupos -> FilasGrupo], NEW G
    PROVE  Recalculados(gs, rs, G) \in [Grupos -> FilasGrupo]
<1>1. \A g \in Grupos : Recalculados(gs, rs, G)[g] \in FilasGrupo
  BY RecalculadosFila
<1>2. Recalculados(gs, rs, G) = [g \in Grupos |-> Recalculados(gs, rs, G)[g]]
  BY DEF Recalculados
<1> QED BY <1>1, <1>2

-----------------------------------------------------------------------------
(* The invariants over any pair of tables                                    *)

Refs(rs, gs) == \A i \in Ids : rs[i] # Nada => gs[i[1]] # Nada

Coherente(rs, gs) ==
    \A g \in Grupos :
        EsClase(gs[g]) => /\ EstadosDelGrupo(rs, g) # {}
                          /\ gs[g].estado = EstadoDeGrupo(EstadosDelGrupo(rs, g), gs[g].estado)

ConfirmadaEn(rs, i) == rs[i] # Nada /\ rs[i].estado = "CONFIRMADA"

\* rs2 holds the rows of rs, some of which have left CONFIRMADA.
SoloCierra(rs, rs2) ==
    \A i \in Ids : /\ rs[i] = Nada <=> rs2[i] = Nada
                   /\ rs[i] # Nada /\ rs[i].estado # "CONFIRMADA" => rs2[i].estado = rs[i].estado

\* What recalcularGrupo writes after some reservations were closed is coherent, and the
\* state machine of the group allows it.
LEMMA RecalculoCoherente ==
    ASSUME NEW rs \in [Ids -> Reserva \cup {Nada}], NEW rs2 \in [Ids -> Reserva \cup {Nada}],
           NEW gs \in [Grupos -> FilasGrupo], NEW G,
           Coherente(rs, gs), SoloCierra(rs, rs2),
           \A i \in Ids : rs[i] # Nada /\ rs2[i].estado # rs[i].estado => i[1] \in G
    PROVE  /\ Coherente(rs2, Recalculados(gs, rs2, G))
           /\ \A g \in Grupos :
                 EsClase(gs[g]) /\ Recalculados(gs, rs2, G)[g] # gs[g]
                    => GrupoPuedeTransicionar(gs[g].estado, Recalculados(gs, rs2, G)[g].estado)
<1> SUFFICES ASSUME NEW g \in Grupos, EsClase(gs[g])
             PROVE  LET n == Recalculados(gs, rs2, G)[g] IN
                      /\ EstadosDelGrupo(rs2, g) # {}
                      /\ n.estado = EstadoDeGrupo(EstadosDelGrupo(rs2, g), n.estado)
                      /\ n # gs[g] => GrupoPuedeTransicionar(gs[g].estado, n.estado)
  BY RecalculadosFila DEF Coherente
<1> DEFINE n == Recalculados(gs, rs2, G)[g]
           antes == EstadosDelGrupo(rs, g)
           despues == EstadosDelGrupo(rs2, g)
           a == gs[g].estado
<1>1. gs[g] \in Grupo /\ a \in EstadosGrupo
  BY ClaseEsGrupo DEF Grupo
<1>2. antes \in SUBSET EstadosReserva /\ despues \in SUBSET EstadosReserva
  BY EstadosDelGrupoTipo
<1>3. antes # {} /\ a = EstadoDeGrupo(antes, a)
  BY DEF Coherente
<1>4. ASSUME \A e \in Equipos : /\ rs[<<g, e>>] = Nada <=> rs2[<<g, e>>] = Nada
                                /\ rs[<<g, e>>] # Nada => rs2[<<g, e>>].estado = rs[<<g, e>>].estado
      PROVE  despues = antes
  <2>1. \A s : s \in antes <=> \E e \in Equipos : rs[<<g, e>>] # Nada /\ rs[<<g, e>>].estado = s
    BY EstadosDelGrupoTipo
  <2>2. \A s : s \in despues <=> \E e \in Equipos : rs2[<<g, e>>] # Nada /\ rs2[<<g, e>>].estado = s
    BY EstadosDelGrupoTipo
  <2>3. \A s : s \in antes <=> s \in despues
    <3> HIDE DEF antes, despues
    <3> QED BY <1>4, <2>1, <2>2
  <2> HIDE DEF antes, despues
  <2> QED BY <1>2, <2>3
<1>5. despues # {}
  <2>1. PICK e \in Equipos : rs[<<g, e>>] # Nada
    BY <1>3, EstadosDelGrupoTipo
  <2>2. rs2[<<g, e>>] # Nada
    BY <2>1 DEF SoloCierra, Ids
  <2> QED BY <2>2, EstadosDelGrupoTipo
<1>6. \A s \in antes : s = "CONFIRMADA" \/ s \in despues
  <2> SUFFICES ASSUME NEW s \in antes, s # "CONFIRMADA" PROVE s \in despues
    OBVIOUS
  <2>1. PICK e \in Equipos : rs[<<g, e>>] # Nada /\ rs[<<g, e>>].estado = s
    BY EstadosDelGrupoTipo
  <2>2. rs2[<<g, e>>] # Nada /\ rs2[<<g, e>>].estado = s
    BY <2>1 DEF SoloCierra, Ids
  <2> QED BY <2>2, EstadosDelGrupoTipo
<1>7. CASE a \in GrupoTerminal
  <2>1. n = gs[g]
    BY <1>7 DEF Recalculados
  <2>2. "CONFIRMADA" \notin antes
    BY <1>2, <1>3, <1>7, EstadoDeGrupoAbierto
  <2>3. \A e \in Equipos : rs[<<g, e>>] # Nada => rs2[<<g, e>>].estado = rs[<<g, e>>].estado
    BY <2>2, EstadosDelGrupoTipo DEF SoloCierra, Ids
  <2>4. \A e \in Equipos : rs[<<g, e>>] = Nada <=> rs2[<<g, e>>] = Nada
    BY DEF SoloCierra, Ids
  <2>5. despues = antes
    BY <1>4, <2>3, <2>4
  <2> QED BY <1>3, <2>1, <2>5
<1>8. CASE a \notin GrupoTerminal /\ g \notin G
  <2>1. n = gs[g]
    BY <1>8 DEF Recalculados
  <2>2. \A e \in Equipos : /\ rs[<<g, e>>] = Nada <=> rs2[<<g, e>>] = Nada
                           /\ rs[<<g, e>>] # Nada => rs2[<<g, e>>].estado = rs[<<g, e>>].estado
    BY <1>8 DEF SoloCierra, Ids
  <2>3. despues = antes
    BY <1>4, <2>2
  <2> QED BY <1>3, <2>1, <2>3
<1>9. CASE a \notin GrupoTerminal /\ g \in G
  <2> DEFINE e == EstadoDeGrupo(despues, a)
  <2>1. n = [gs[g] EXCEPT !.estado = e]
    BY <1>9 DEF Recalculados, EsClase
  <2>2. n.estado = e
    BY <1>1, <2>1 DEF Grupo
  <2>3. n.estado = EstadoDeGrupo(despues, n.estado)
    BY <1>5, <2>2, EstadoDeGrupoSinMemoria
  <2>4. e # a => GrupoPuedeTransicionar(a, e)
    BY <1>1, <1>2, <1>3, <1>5, <1>6, <1>9, EstadoDeGrupoMonotono
  <2>5. e = a => n = gs[g]
    BY <1>1, <2>1 DEF Grupo
  <2> QED BY <1>5, <2>2, <2>3, <2>4, <2>5
<1> QED BY <1>7, <1>8, <1>9

\* Fewer reservations in force, on the same devices and slots, overlap no more.
LEMMA MenosSinSolapes ==
    ASSUME NEW rs, NEW rs2, NEW gs, NEW gs2,
           SinSolapes(rs, gs),
           \A i \in Ids : ConfirmadaEn(rs2, i) =>
                /\ ConfirmadaEn(rs, i)
                /\ rs2[i].equipo = rs[i].equipo
                /\ gs2[i[1]].franja = gs[i[1]].franja
    PROVE  SinSolapes(rs2, gs2)
BY DEF SinSolapes, ConfirmadaEn

-----------------------------------------------------------------------------
(* The inductive invariant and what every step is proved to do               *)

\* Referencias is what makes the rest inductive: the rows a request inserts cannot
\* join rows that were already there.
IInv == /\ TypeOK
        /\ Referencias
        /\ NoSolapamiento
        /\ GrupoCoherente
        /\ SinPromesasFueraDeCirculacion

PasoCierreDefinitivo ==
    \A i \in Ids : reservas[i] # Nada /\ reservas[i].estado # "CONFIRMADA"
                     => reservas'[i] = reservas[i]

PasoTransicionesDeGrupo ==
    \A g \in Grupos :
        /\ grupos[g] # Nada /\ grupos[g].tipo = "NORMAL"
        /\ grupos'[g] # grupos[g]
        => GrupoPuedeTransicionar(grupos[g].estado, grupos'[g].estado)

PasoLoIntocable ==
    \A g \in Grupos :
        grupos[g] = Nada /\ grupos'[g] # Nada /\ grupos'[g].tipo = "NORMAL"
        => \A i \in Ids : /\ Confirmada(i)
                          /\ \/ EsBloqueo(i)
                             \/ ~SePuedeRobarPorHorario(FranjaDe(i), ahora - Retraso)
                          => reservas'[i] = reservas[i]

Paso == PasoCierreDefinitivo /\ PasoTransicionesDeGrupo /\ PasoLoIntocable

LEMMA IInvTablas ==
    /\ TypeOK => /\ reservas \in [Ids -> Reserva \cup {Nada}]
                 /\ grupos \in [Grupos -> FilasGrupo]
                 /\ equipos \in [Equipos -> Condiciones]
                 /\ ahora \in Nat
    /\ Referencias <=> Refs(reservas, grupos)
    /\ GrupoCoherente <=> Coherente(reservas, grupos)
    /\ \A i \in Ids : Confirmada(i) <=> ConfirmadaEn(reservas, i)
BY ReservasAssumption
   DEF TypeOK, FilasGrupo, Referencias, Refs, GrupoCoherente, Coherente, EsClase,
       Confirmada, ConfirmadaEn

\* The fields of a row in force, and of the group it belongs to.
LEMMA FilaTipo ==
    ASSUME TypeOK, Referencias, NEW i \in Ids, reservas[i] # Nada
    PROVE  /\ reservas[i] \in Reserva
           /\ i[1] \in Grupos /\ i[2] \in Equipos /\ i = <<i[1], i[2]>>
           /\ grupos[i[1]] \in FilasGrupo \ {Nada}
           /\ FranjaDe(i) \in Franjas
           /\ FranjaDe(i).ini \in Nat /\ FranjaDe(i).fin \in Nat /\ FranjaDe(i).dia \in Nat
<1>1. i[1] \in Grupos /\ i[2] \in Equipos /\ i = <<i[1], i[2]>>
  BY DEF Ids
<1>2. grupos[i[1]] \in FilasGrupo \ {Nada}
  BY <1>1, IInvTablas DEF Referencias
<1>3. FranjaDe(i) \in Franjas
  BY <1>2, ClaseEsGrupo DEF FranjaDe
<1> QED BY <1>1, <1>2, <1>3, IInvTablas, DominioAssumption

\* Closing reservations of the tables, whoever does it and why.
LEMMA CierrePreserva ==
    ASSUME TypeOK, Referencias, NoSolapamiento, GrupoCoherente,
           NEW S \in SUBSET Ids, \A i \in S : Confirmada(i),
           NEW estado \in ReservaTerminal,
           reservas' = ConEstado(reservas, S, estado),
           grupos' = Recalculados(grupos, reservas', GruposDe(S))
    PROVE  /\ reservas' \in [Ids -> Reserva \cup {Nada}]
           /\ grupos' \in [Grupos -> FilasGrupo]
           /\ Referencias' /\ NoSolapamiento' /\ GrupoCoherente'
           /\ \A i \in Ids : Confirmada(i)' =>
                 /\ Confirmada(i) /\ i \notin S
                 /\ reservas'[i] = reservas[i] /\ FranjaDe(i)' = FranjaDe(i)
           /\ Paso
<1>1. \A i \in Ids : /\ i \in S => reservas'[i] = [reservas[i] EXCEPT !.estado = estado]
                     /\ i \notin S => reservas'[i] = reservas[i]
  BY DEF ConEstado
<1>2. \A i \in S : /\ reservas[i] \in Reserva /\ reservas[i].estado = "CONFIRMADA"
                   /\ reservas'[i] \in Reserva /\ reservas'[i].estado = estado
  <2> TAKE i \in S
  <2>1. reservas[i] \in Reserva /\ reservas[i].estado = "CONFIRMADA"
    BY FilaTipo DEF Confirmada
  <2> QED BY <1>1, <2>1 DEF Reserva, ReservaTerminal
<1>3. reservas' \in [Ids -> Reserva \cup {Nada}]
  BY <1>1, <1>2, IInvTablas DEF ConEstado
<1>4. \A i \in S : reservas'[i] # Nada /\ reservas'[i].estado # "CONFIRMADA"
  BY <1>2, ReservasAssumption DEF ReservaTerminal
<1>5. SoloCierra(reservas, reservas')
  <2> SUFFICES ASSUME NEW i \in Ids
               PROVE  /\ reservas[i] = Nada <=> reservas'[i] = Nada
                      /\ reservas[i] # Nada /\ reservas[i].estado # "CONFIRMADA"
                            => reservas'[i].estado = reservas[i].estado
    BY DEF SoloCierra
  <2>1. CASE i \in S
    BY <1>2, <1>4, <2>1 DEF Confirmada
  <2>2. CASE i \notin S
    BY <1>1, <2>2
  <2> QED BY <2>1, <2>2
<1>6. grupos \in [Grupos -> FilasGrupo] /\ reservas \in [Ids -> Reserva \cup {Nada}]
  BY IInvTablas
<1>7. grupos' \in [Grupos -> FilasGrupo]
  BY <1>3, <1>6, RecalculadosTipo
<1>8. \A g \in Grupos : /\ grupos'[g] = Nada <=> grupos[g] = Nada
                        /\ grupos[g] # Nada => grupos'[g].franja = grupos[g].franja
  <2> TAKE g \in Grupos
  <2> QED BY <1>3, <1>6, RecalculadosFila
<1>9. Referencias'
  <2>1. \A i \in Ids : reservas'[i] # Nada => grupos'[i[1]] # Nada
    BY <1>5, <1>8 DEF SoloCierra, Referencias, Ids
  <2> QED BY <2>1 DEF Referencias
<1>10. \A i \in Ids : Confirmada(i)' =>
                 /\ Confirmada(i) /\ i \notin S
                 /\ reservas'[i] = reservas[i] /\ FranjaDe(i)' = FranjaDe(i)
  BY <1>1, <1>4, <1>8, FilaTipo DEF Confirmada, FranjaDe
<1>11. NoSolapamiento'
  BY <1>10, MenosSinSolapes DEF NoSolapamiento, Confirmada, ConfirmadaEn, FranjaDe
<1>12. \A i \in Ids : reservas[i] # Nada /\ reservas'[i].estado # reservas[i].estado => i[1] \in GruposDe(S)
  BY <1>1 DEF GruposDe
<1>13. Coherente(reservas, grupos)
  BY IInvTablas
<1>14. /\ Coherente(reservas', grupos')
       /\ \A g \in Grupos : EsClase(grupos[g]) /\ grupos'[g] # grupos[g]
             => GrupoPuedeTransicionar(grupos[g].estado, grupos'[g].estado)
  BY <1>3, <1>5, <1>6, <1>12, <1>13, RecalculoCoherente
<1>15. GrupoCoherente'
  BY <1>14 DEF GrupoCoherente, Coherente, EsClase
<1>16. PasoCierreDefinitivo
  BY <1>1, <1>2 DEF PasoCierreDefinitivo
<1>17. PasoTransicionesDeGrupo
  BY <1>14 DEF PasoTransicionesDeGrupo, EsClase
<1>18. PasoLoIntocable
  BY <1>8 DEF PasoLoIntocable
<1> QED BY <1>3, <1>7, <1>9, <1>10, <1>11, <1>15, <1>16, <1>17, <1>18 DEF Paso

-----------------------------------------------------------------------------
(* One lemma per kind of step                                                *)

LEMMA CerrarPreserva ==
    ASSUME IInv, NEW S \in SUBSET Ids, \A i \in S : Confirmada(i),
           NEW estado \in ReservaTerminal, Cerrar(S, estado)
    PROVE  IInv' /\ Paso
<1>1. /\ reservas' \in [Ids -> Reserva \cup {Nada}]
      /\ grupos' \in [Grupos -> FilasGrupo]
      /\ Referencias' /\ NoSolapamiento' /\ GrupoCoherente'
      /\ \A i \in Ids : Confirmada(i)' =>
            /\ Confirmada(i) /\ i \notin S
            /\ reservas'[i] = reservas[i] /\ FranjaDe(i)' = FranjaDe(i)
      /\ Paso
  BY CierrePreserva DEF IInv, Cerrar
<1>2. TypeOK'
  BY <1>1 DEF IInv, TypeOK, Cerrar, FilasGrupo
<1>3. SinPromesasFueraDeCirculacion'
  BY <1>1 DEF IInv, SinPromesasFueraDeCirculacion, Cerrar
<1> QED BY <1>1, <1>2, <1>3 DEF IInv

LEMMA SacarPreserva ==
    ASSUME IInv, NEW e \in Equipos, SacarDeCirculacion(e)
    PROVE  IInv' /\ Paso
<1>1. PICK t \in Relojes :
         LET S == {i \in NoTerminadas(t) : reservas[i].equipo = e} IN
           /\ reservas' = ConEstado(reservas, S, "CANCELADA")
           /\ grupos' = Recalculados(grupos, reservas', GruposDe(S))
  BY DEF SacarDeCirculacion
<1> DEFINE S == {i \in NoTerminadas(t) : reservas[i].equipo = e}
<1>2. S \in SUBSET Ids /\ \A i \in S : Confirmada(i)
  BY DEF NoTerminadas
<1>3. /\ reservas' \in [Ids -> Reserva \cup {Nada}]
      /\ grupos' \in [Grupos -> FilasGrupo]
      /\ Referencias' /\ NoSolapamiento' /\ GrupoCoherente'
      /\ \A i \in Ids : Confirmada(i)' =>
            /\ Confirmada(i) /\ i \notin S
            /\ reservas'[i] = reservas[i] /\ FranjaDe(i)' = FranjaDe(i)
      /\ Paso
  <2>1. "CANCELADA" \in ReservaTerminal
    BY DEF ReservaTerminal, EstadosReserva
  <2>2. /\ reservas' = ConEstado(reservas, S, "CANCELADA")
        /\ grupos' = Recalculados(grupos, reservas', GruposDe(S))
    BY <1>1
  <2> HIDE DEF S
  <2> QED BY <1>2, <2>1, <2>2, CierrePreserva DEF IInv
<1>4. equipos' = [equipos EXCEPT ![e] = "fuera"] /\ ahora' = ahora
  BY DEF SacarDeCirculacion
<1>5. TypeOK'
  BY <1>3, <1>4 DEF IInv, TypeOK, FilasGrupo, Condiciones
<1>6. SinPromesasFueraDeCirculacion'
  <2> SUFFICES ASSUME NEW i \in Ids, Confirmada(i)', equipos'[reservas'[i].equipo] = "fuera"
               PROVE  YaTermino(FranjaDe(i)', ahora')
    BY DEF SinPromesasFueraDeCirculacion
  <2>1. Confirmada(i) /\ i \notin S /\ reservas'[i] = reservas[i] /\ FranjaDe(i)' = FranjaDe(i)
    BY <1>3
  <2>2. CASE reservas[i].equipo = e
    <3>1. YaTermino(FranjaDe(i), t)
      BY <2>1, <2>2 DEF NoTerminadas
    <3>2. t \in Nat /\ t <= ahora /\ ahora \in Nat /\ FranjaDe(i).fin \in Nat
      BY <2>1, IInvTablas, FilaTipo DEF Relojes, IInv, Confirmada
    <3> QED BY <1>4, <2>1, <3>1, <3>2 DEF YaTermino
  <2>3. CASE reservas[i].equipo # e
    <3>1. equipos[reservas[i].equipo] = "fuera"
      <4>1. reservas[i].equipo \in Equipos
        BY <2>1, FilaTipo DEF IInv, Confirmada, Reserva
      <4> QED BY <1>4, <2>1, <2>3, <4>1, IInvTablas DEF IInv
    <3> QED BY <1>4, <2>1, <3>1 DEF IInv, SinPromesasFueraDeCirculacion
  <2> QED BY <2>2, <2>3
<1> QED BY <1>3, <1>5, <1>6 DEF IInv

\* No step that leaves reservations and groups alone breaks what is said of them.
LEMMA MismasTablas ==
    ASSUME IInv, UNCHANGED <<reservas, grupos>>
    PROVE  /\ Referencias' /\ NoSolapamiento' /\ GrupoCoherente'
           /\ \A i \in Ids : (Confirmada(i)' <=> Confirmada(i)) /\ FranjaDe(i)' = FranjaDe(i)
           /\ Paso
<1>1. Referencias' /\ NoSolapamiento'
  BY DEF IInv, Referencias, NoSolapamiento
<1>2. GrupoCoherente'
  BY DEF IInv, GrupoCoherente
<1>3. \A i \in Ids : (Confirmada(i)' <=> Confirmada(i)) /\ FranjaDe(i)' = FranjaDe(i)
  BY DEF Confirmada, FranjaDe
<1>4. Paso
  BY DEF Paso, PasoCierreDefinitivo, PasoTransicionesDeGrupo, PasoLoIntocable
<1> QED BY <1>1, <1>2, <1>3, <1>4

LEMMA CondicionPreserva ==
    ASSUME IInv, NEW e \in Equipos, NEW c \in Condiciones, CambiarCondicion(e, c)
    PROVE  IInv' /\ Paso
<1>1. UNCHANGED <<reservas, grupos, ahora>> /\ c # "fuera" /\ equipos' = [equipos EXCEPT ![e] = c]
  BY DEF CambiarCondicion
<1>2. TypeOK'
  BY <1>1 DEF IInv, TypeOK
<1>3. \A d \in Equipos : equipos'[d] = "fuera" => equipos[d] = "fuera"
  BY <1>1, IInvTablas DEF IInv
<1>4. \A i \in Ids : Confirmada(i) => reservas[i].equipo \in Equipos
  BY FilaTipo DEF IInv, Confirmada, Reserva
<1>5. SinPromesasFueraDeCirculacion'
  BY <1>1, <1>3, <1>4, MismasTablas DEF IInv, SinPromesasFueraDeCirculacion
<1> QED BY <1>1, <1>2, <1>5, MismasTablas DEF IInv

LEMMA TiempoPreserva ==
    ASSUME IInv, PasaElTiempo
    PROVE  IInv' /\ Paso
<1>1. UNCHANGED <<reservas, grupos, equipos>> /\ ahora' = ahora + 1 /\ ahora < Horizonte
  BY DEF PasaElTiempo
<1>2. TypeOK'
  BY <1>1, ReservasAssumption DEF IInv, TypeOK
<1>3. SinPromesasFueraDeCirculacion'
  <2> SUFFICES ASSUME NEW i \in Ids, Confirmada(i)', equipos'[reservas'[i].equipo] = "fuera"
               PROVE  YaTermino(FranjaDe(i)', ahora')
    BY DEF SinPromesasFueraDeCirculacion
  <2>1. Confirmada(i) /\ FranjaDe(i)' = FranjaDe(i)
    BY <1>1, MismasTablas
  <2>2. YaTermino(FranjaDe(i), ahora)
    BY <1>1, <2>1 DEF IInv, SinPromesasFueraDeCirculacion
  <2>3. FranjaDe(i).fin \in Nat /\ ahora \in Nat
    BY <2>1, FilaTipo, IInvTablas DEF IInv, Confirmada
  <2> QED BY <1>1, <2>1, <2>2, <2>3 DEF YaTermino
<1> QED BY <1>1, <1>2, <1>3, MismasTablas DEF IInv

LEMMA QuietoPreserva ==
    ASSUME IInv, UNCHANGED vars
    PROVE  IInv' /\ Paso
<1>1. UNCHANGED <<reservas, grupos, equipos, ahora>>
  BY DEF vars
<1>2. TypeOK' /\ SinPromesasFueraDeCirculacion'
  BY <1>1, MismasTablas DEF IInv, TypeOK, SinPromesasFueraDeCirculacion
<1> QED BY <1>1, <1>2, MismasTablas DEF IInv

\* A change of device writes the same device in reservations that shared one, so they
\* cannot collide with each other, and it checks the rest.
LEMMA CambiarPreserva ==
    ASSUME IInv, NEW quien, NEW i \in Ids, NEW nuevo \in Equipos, NEW soloEsta,
           CambiarEquipo(quien, i, nuevo, soloEsta)
    PROVE  IInv' /\ Paso
<1>1. PICK A \in AlcancesDeCambio(i, soloEsta) :
         /\ Confirmada(i)
         /\ nuevo \in Reservables
         /\ Solapamientos({nuevo}, {FranjaDe(j) : j \in A}) = {}
         /\ reservas' = [j \in Ids |-> IF j \in A THEN [reservas[j] EXCEPT !.equipo = nuevo]
                                       ELSE reservas[j]]
         /\ UNCHANGED <<grupos, equipos, ahora>>
  BY DEF CambiarEquipo, ConEquipo
<1>2. /\ A \in SUBSET Ids
      /\ \A j \in A : Confirmada(j) /\ reservas[j].equipo = reservas[i].equipo
  <2>1. A \in SUBSET (SerieDesde(i) \cup {i})
    BY DEF AlcancesDeCambio
  <2> QED BY <1>1, <2>1 DEF SerieDesde
<1>3. \A j \in A : /\ reservas[j] \in Reserva
                   /\ reservas'[j] \in Reserva
                   /\ reservas'[j].estado = "CONFIRMADA" /\ reservas'[j].equipo = nuevo
  <2> TAKE j \in A
  <2>1. reservas[j] \in Reserva /\ reservas[j].estado = "CONFIRMADA"
    BY <1>2, FilaTipo DEF IInv, Confirmada
  <2> QED BY <1>1, <1>2, <2>1 DEF Reserva
<1>4. \A j \in Ids : j \notin A => reservas'[j] = reservas[j]
  BY <1>1
<1>5. reservas' \in [Ids -> Reserva \cup {Nada}]
  BY <1>1, <1>3, <1>4, IInvTablas DEF IInv
<1>6. \A j \in Ids : /\ reservas'[j] = Nada <=> reservas[j] = Nada
                     /\ reservas[j] # Nada => reservas'[j].estado = reservas[j].estado
                     /\ Confirmada(j)' <=> Confirmada(j)
                     /\ FranjaDe(j)' = FranjaDe(j)
  <2> TAKE j \in Ids
  <2>1. FranjaDe(j)' = FranjaDe(j)
    BY <1>1 DEF FranjaDe
  <2>2. CASE j \in A
    BY <1>2, <1>3, <2>1, <2>2, ReservasAssumption DEF Confirmada
  <2>3. CASE j \notin A
    BY <1>4, <2>1, <2>3 DEF Confirmada
  <2> QED BY <2>2, <2>3
<1>7. TypeOK'
  BY <1>1, <1>5 DEF IInv, TypeOK
<1>8. Referencias'
  BY <1>1, <1>6 DEF IInv, Referencias
<1>9. GrupoCoherente'
  <2>1. SoloCierra(reservas, reservas')
    BY <1>6 DEF SoloCierra
  <2>2. Coherente(reservas', Recalculados(grupos, reservas', {}))
    BY <1>5, <1>6, <2>1, IInvTablas, RecalculoCoherente DEF IInv
  <2>3. Recalculados(grupos, reservas', {}) = grupos
    BY IInvTablas DEF IInv, Recalculados
  <2> QED BY <1>1, <2>2, <2>3 DEF GrupoCoherente, Coherente, EsClase
<1>10. NoSolapamiento'
  <2> SUFFICES ASSUME NEW j \in Ids, NEW k \in Ids, j # k,
                      Confirmada(j), Confirmada(k), reservas'[j].equipo = reservas'[k].equipo
               PROVE  ~Solapan(FranjaDe(j), FranjaDe(k))
    BY <1>1, <1>6 DEF NoSolapamiento, SinSolapes, Confirmada, FranjaDe
  <2>1. reservas[j].equipo = reservas[k].equipo => ~Solapan(FranjaDe(j), FranjaDe(k))
    BY DEF IInv, NoSolapamiento, SinSolapes, Confirmada, FranjaDe
  <2>2. ASSUME NEW a \in A, NEW b \in Ids \ A, Confirmada(b), reservas[b].equipo = nuevo
        PROVE  ~Solapan(FranjaDe(a), FranjaDe(b)) /\ ~Solapan(FranjaDe(b), FranjaDe(a))
    <3>1. ~Solapan(FranjaDe(b), FranjaDe(a))
      BY <1>1, <2>2 DEF Solapamientos
    <3> QED BY <3>1 DEF Solapan
  <2>3. CASE j \in A /\ k \in A
    BY <1>2, <2>1, <2>3
  <2>4. CASE j \in A /\ k \notin A
    BY <1>3, <1>4, <2>2, <2>4
  <2>5. CASE j \notin A /\ k \in A
    BY <1>3, <1>4, <2>2, <2>5
  <2>6. CASE j \notin A /\ k \notin A
    BY <1>4, <2>1, <2>6
  <2> QED BY <2>3, <2>4, <2>5, <2>6
<1>11. SinPromesasFueraDeCirculacion'
  <2> SUFFICES ASSUME NEW j \in Ids, Confirmada(j), equipos[reservas'[j].equipo] = "fuera"
               PROVE  YaTermino(FranjaDe(j), ahora)
    BY <1>1, <1>6 DEF SinPromesasFueraDeCirculacion
  <2>1. j \notin A
    BY <1>1, <1>3 DEF Reservables
  <2> QED BY <1>4, <2>1 DEF IInv, SinPromesasFueraDeCirculacion
<1>12. Paso
  <2>1. PasoCierreDefinitivo
    BY <1>2, <1>4 DEF PasoCierreDefinitivo, Confirmada
  <2> QED BY <1>1, <2>1 DEF Paso, PasoTransicionesDeGrupo, PasoLoIntocable
<1> QED BY <1>7, <1>8, <1>9, <1>10, <1>11, <1>12 DEF IInv

-----------------------------------------------------------------------------
(* Inserting rows                                                            *)

\* The rows of a request for free groups: in force, each on its own device.
LEMMA FilaNueva ==
    ASSUME NEW rs \in [Ids -> Reserva \cup {Nada}], NEW G \in SUBSET Grupos,
           NEW E \in SUBSET Equipos, NEW i \in Ids
    PROVE  /\ ConFilas(rs, G, E)[i] \in Reserva \cup {Nada}
           /\ i[1] \in G /\ i[2] \in E => /\ ConFilas(rs, G, E)[i] # Nada
                                          /\ ConFilas(rs, G, E)[i].estado = "CONFIRMADA"
                                          /\ ConFilas(rs, G, E)[i].equipo = i[2]
           /\ i[1] \notin G \/ i[2] \notin E => ConFilas(rs, G, E)[i] = rs[i]
<1> DEFINE r == ConFilas(rs, G, E)[i]
<1>1. i[1] \in Grupos /\ i[2] \in Equipos
  BY DEF Ids
<1>2. CASE i[1] \in G /\ i[2] \in E
  <2>1. r = [estado |-> "CONFIRMADA", equipo |-> i[2]]
    BY <1>2 DEF ConFilas
  <2> HIDE DEF r
  <2>2. r \in Reserva /\ r.estado = "CONFIRMADA" /\ r.equipo = i[2]
    BY <1>1, <2>1 DEF Reserva, EstadosReserva
  <2>3. r # Nada
    BY <2>2, ReservasAssumption
  <2> QED BY <1>2, <2>2, <2>3 DEF r
<1>3. CASE i[1] \notin G \/ i[2] \notin E
  BY <1>3 DEF ConFilas
<1> QED BY <1>2, <1>3

LEMMA FilasNuevasTipo ==
    ASSUME NEW rs \in [Ids -> Reserva \cup {Nada}], NEW G \in SUBSET Grupos,
           NEW E \in SUBSET Equipos
    PROVE  ConFilas(rs, G, E) \in [Ids -> Reserva \cup {Nada}]
<1>1. \A i \in Ids : ConFilas(rs, G, E)[i] \in Reserva \cup {Nada}
  BY FilaNueva
<1>2. ConFilas(rs, G, E) = [i \in Ids |-> ConFilas(rs, G, E)[i]]
  BY DEF ConFilas
<1> QED BY <1>1, <1>2

LEMMA FilasNuevasEstados ==
    ASSUME NEW rs \in [Ids -> Reserva \cup {Nada}], NEW G \in SUBSET Grupos,
           NEW E \in SUBSET Equipos, E # {}, NEW g \in Grupos
    PROVE  /\ g \notin G => EstadosDelGrupo(ConFilas(rs, G, E), g) = EstadosDelGrupo(rs, g)
           /\ g \in G /\ (\A e \in Equipos : rs[<<g, e>>] = Nada)
                 => EstadosDelGrupo(ConFilas(rs, G, E), g) = {"CONFIRMADA"}
<1> DEFINE r == ConFilas(rs, G, E)
<1>1. ASSUME g \notin G
      PROVE  EstadosDelGrupo(r, g) = EstadosDelGrupo(rs, g)
  <2>1. \A e \in Equipos : r[<<g, e>>] = rs[<<g, e>>]
    BY <1>1 DEF Ids, ConFilas
  <2> HIDE DEF r
  <2> QED BY <2>1 DEF EstadosDelGrupo
<1>2. ASSUME g \in G, \A e \in Equipos : rs[<<g, e>>] = Nada
      PROVE  EstadosDelGrupo(r, g) = {"CONFIRMADA"}
  <2>1. \A e \in Equipos : /\ r[<<g, e>>] # Nada <=> e \in E
                           /\ e \in E => r[<<g, e>>].estado = "CONFIRMADA"
    <3> TAKE e \in Equipos
    <3>1. <<g, e>> \in Ids /\ <<g, e>>[1] = g /\ <<g, e>>[2] = e
      BY DEF Ids
    <3> QED BY <1>2, <3>1, FilaNueva
  <2> HIDE DEF r
  <2> QED BY <2>1 DEF EstadosDelGrupo
<1> QED BY <1>1, <1>2

\* What is recomputed of a group depends on that group alone.
LEMMA RecalculadosLocal ==
    ASSUME NEW rs, NEW gs, NEW gs2, NEW G, NEW g \in Grupos, gs[g] = gs2[g]
    PROVE  Recalculados(gs, rs, G)[g] = Recalculados(gs2, rs, G)[g]
BY DEF Recalculados

\* Closing some reservations (or moving them), then inserting the rows of the free groups
\* G on the devices E: what BloquearEquipos and CrearReserva do to both tables.
Insercion(rs, gs, GG, G, E) ==
    /\ rs \in [Ids -> Reserva \cup {Nada}] /\ SoloCierra(reservas, rs)
    /\ gs \in [Grupos -> FilasGrupo]
    /\ G \in SUBSET Libres /\ E \in SUBSET Equipos /\ E # {}
    /\ \A h \in Grupos \ G : gs[h] = grupos[h]
    /\ \A h \in G : gs[h] # Nada /\ (EsClase(gs[h]) => gs[h].estado = "CONFIRMADA")
    /\ GG \cap G = {}
    /\ \A i \in Ids : reservas[i] # Nada /\ rs[i].estado # reservas[i].estado => i[1] \in GG
    /\ reservas' = ConFilas(rs, G, E)
    /\ grupos' = Recalculados(gs, rs, GG)

LEMMA InsertarPreserva ==
    ASSUME TypeOK, Referencias, GrupoCoherente,
           NEW rs, NEW gs, NEW GG, NEW G, NEW E, Insercion(rs, gs, GG, G, E)
    PROVE  /\ reservas' \in [Ids -> Reserva \cup {Nada}]
           /\ grupos' \in [Grupos -> FilasGrupo]
           /\ Referencias' /\ GrupoCoherente'
           /\ PasoTransicionesDeGrupo
           /\ \A h \in G : grupos'[h] = gs[h]
           /\ \A i \in Ids : reservas[i] # Nada =>
                 /\ i[1] \notin G /\ grupos'[i[1]].franja = grupos[i[1]].franja
                 /\ reservas'[i] = rs[i]
           /\ \A i \in Ids : reservas[i] = Nada /\ reservas'[i] # Nada =>
                 /\ i[1] \in G /\ i[2] \in E
                 /\ reservas'[i].equipo = i[2] /\ grupos'[i[1]].franja = gs[i[1]].franja
<1> USE DEF Insercion
<1>1. G \in SUBSET Grupos /\ \A g \in G : grupos[g] = Nada
  BY DEF Libres
<1>2. \A i \in Ids : i[1] \in G => reservas[i] = Nada /\ rs[i] = Nada
  BY <1>1 DEF Referencias, SoloCierra
<1>3. /\ reservas' \in [Ids -> Reserva \cup {Nada}]
      /\ \A i \in Ids :
            /\ i[1] \in G /\ i[2] \in E => /\ reservas'[i] # Nada
                                           /\ reservas'[i].estado = "CONFIRMADA"
                                           /\ reservas'[i].equipo = i[2]
            /\ i[1] \notin G \/ i[2] \notin E => reservas'[i] = rs[i]
      /\ \A g \in Grupos \ G : EstadosDelGrupo(reservas', g) = EstadosDelGrupo(rs, g)
      /\ \A g \in G : (\A e \in Equipos : rs[<<g, e>>] = Nada)
                         => EstadosDelGrupo(reservas', g) = {"CONFIRMADA"}
  <2>1. G \in SUBSET Grupos
    BY <1>1
  <2>2. reservas' \in [Ids -> Reserva \cup {Nada}]
    BY <2>1, FilasNuevasTipo
  <2>3. ASSUME NEW i \in Ids
        PROVE  /\ i[1] \in G /\ i[2] \in E => /\ reservas'[i] # Nada
                                              /\ reservas'[i].estado = "CONFIRMADA"
                                              /\ reservas'[i].equipo = i[2]
               /\ i[1] \notin G \/ i[2] \notin E => reservas'[i] = rs[i]
    BY <2>1, FilaNueva
  <2>4. ASSUME NEW g \in Grupos
        PROVE  /\ g \notin G => EstadosDelGrupo(reservas', g) = EstadosDelGrupo(rs, g)
               /\ g \in G /\ (\A e \in Equipos : rs[<<g, e>>] = Nada)
                     => EstadosDelGrupo(reservas', g) = {"CONFIRMADA"}
    BY <2>1, FilasNuevasEstados
  <2> QED BY <2>1, <2>2, <2>3, <2>4
<1>4. grupos' \in [Grupos -> FilasGrupo]
  BY RecalculadosTipo
<1>5. \A g \in Grupos : grupos'[g] = Nada <=> gs[g] = Nada
  <2> TAKE g \in Grupos
  <2> QED BY RecalculadosFila
<1>6. \A g \in G : grupos'[g] = gs[g]
  BY <1>1 DEF Recalculados
<1>7. \A g \in Grupos \ G : grupos'[g] = Recalculados(grupos, rs, GG)[g]
  <2> TAKE g \in Grupos \ G
  <2>1. gs[g] = grupos[g]
    OBVIOUS
  <2> QED BY <2>1, RecalculadosLocal
<1>8. \A g \in Grupos \ G : grupos[g] # Nada => grupos'[g].franja = grupos[g].franja
  <2> TAKE g \in Grupos \ G
  <2> QED BY <1>7, IInvTablas, RecalculadosFila
<1>9. Coherente(rs, Recalculados(grupos, rs, GG))
      /\ \A g \in Grupos : EsClase(grupos[g]) /\ Recalculados(grupos, rs, GG)[g] # grupos[g]
            => GrupoPuedeTransicionar(grupos[g].estado, Recalculados(grupos, rs, GG)[g].estado)
  BY IInvTablas, RecalculoCoherente
<1>10. Referencias'
  <2> SUFFICES ASSUME NEW i \in Ids, reservas'[i] # Nada PROVE grupos'[i[1]] # Nada
    BY DEF Referencias
  <2>1. i[1] \in Grupos
    BY DEF Ids
  <2>2. CASE i[1] \in G
    BY <1>6, <2>2
  <2>3. CASE i[1] \notin G
    <3>1. reservas[i] # Nada
      BY <1>3, <2>3 DEF SoloCierra
    <3> QED BY <1>5, <2>1, <2>3, <3>1 DEF Referencias
  <2> QED BY <2>2, <2>3
<1>11. GrupoCoherente'
  <2> SUFFICES ASSUME NEW g \in Grupos, EsClase(grupos'[g])
               PROVE  /\ EstadosDelGrupo(reservas', g) # {}
                      /\ grupos'[g].estado = EstadoDeGrupo(EstadosDelGrupo(reservas', g), grupos'[g].estado)
    BY DEF GrupoCoherente, EsClase
  <2>1. CASE g \in G
    <3>1. \A e \in Equipos : rs[<<g, e>>] = Nada
      BY <1>1, <1>2, <2>1 DEF Ids
    <3>2. EstadosDelGrupo(reservas', g) = {"CONFIRMADA"}
      BY <1>3, <2>1, <3>1
    <3>3. grupos'[g].estado = "CONFIRMADA"
      BY <1>6, <2>1
    <3> QED BY <3>2, <3>3 DEF EstadoDeGrupo
  <2>2. CASE g \notin G
    <3>1. EstadosDelGrupo(reservas', g) = EstadosDelGrupo(rs, g)
      BY <1>3, <2>2
    <3>2. EsClase(Recalculados(grupos, rs, GG)[g])
      BY <1>7, <2>2
    <3> QED BY <1>7, <1>9, <2>2, <3>1, <3>2 DEF Coherente
  <2> QED BY <2>1, <2>2
<1>12. PasoTransicionesDeGrupo
  <2> SUFFICES ASSUME NEW g \in Grupos, EsClase(grupos[g]), grupos'[g] # grupos[g]
               PROVE  GrupoPuedeTransicionar(grupos[g].estado, grupos'[g].estado)
    BY DEF PasoTransicionesDeGrupo, EsClase
  <2>1. g \notin G
    BY <1>1 DEF EsClase
  <2> QED BY <1>7, <1>9, <2>1
<1>13. \A i \in Ids : reservas[i] # Nada =>
          i[1] \notin G /\ grupos'[i[1]].franja = grupos[i[1]].franja /\ reservas'[i] = rs[i]
  BY <1>2, <1>3, <1>8, FilaTipo DEF FranjaDe
<1>14. \A i \in Ids : reservas[i] = Nada /\ reservas'[i] # Nada =>
          /\ i[1] \in G /\ i[2] \in E
          /\ reservas'[i].equipo = i[2] /\ grupos'[i[1]].franja = gs[i[1]].franja
  BY <1>3, <1>6 DEF SoloCierra, FranjaDe
<1> QED BY <1>3, <1>4, <1>6, <1>10, <1>11, <1>12, <1>13, <1>14

LEMMA CerradasFilas ==
    ASSUME TypeOK, Referencias, NEW S \in SUBSET Ids, \A i \in S : Confirmada(i),
           NEW estado \in ReservaTerminal
    PROVE  /\ ConEstado(reservas, S, estado) \in [Ids -> Reserva \cup {Nada}]
           /\ SoloCierra(reservas, ConEstado(reservas, S, estado))
<1> DEFINE rs == ConEstado(reservas, S, estado)
<1>1. \A i \in S : /\ reservas[i] \in Reserva /\ reservas[i].estado = "CONFIRMADA"
                   /\ rs[i] \in Reserva /\ rs[i].estado = estado
  <2> TAKE i \in S
  <2>1. reservas[i] \in Reserva /\ reservas[i].estado = "CONFIRMADA"
    BY FilaTipo DEF Confirmada
  <2>2. rs[i] = [reservas[i] EXCEPT !.estado = estado]
    BY DEF ConEstado
  <2> HIDE DEF rs
  <2> QED BY <2>1, <2>2 DEF Reserva, ReservaTerminal
<1>2. \A i \in Ids : i \notin S => rs[i] = reservas[i]
  BY DEF ConEstado
<1>3. rs = [i \in Ids |-> rs[i]]
  BY DEF ConEstado
<1> HIDE DEF rs
<1>4. rs \in [Ids -> Reserva \cup {Nada}]
  BY <1>1, <1>2, <1>3, IInvTablas
<1>5. \A i \in S : rs[i] # Nada
  BY <1>1, ReservasAssumption
<1>6. SoloCierra(reservas, rs)
  BY <1>1, <1>2, <1>5 DEF SoloCierra, Confirmada
<1> QED BY <1>4, <1>6 DEF rs

\* A block cancels every class on its devices that overlaps it, so nothing is left to
\* collide with the rows it inserts.
LEMMA BloquearPreserva ==
    ASSUME IInv, NEW quien \in Usuarios, NEW f \in Franjas, NEW E \in SUBSET Equipos, E # {},
           BloquearEquipos(quien, f, E)
    PROVE  IInv' /\ Paso
<1> DEFINE S == Solapamientos(E, {f})
           rs == ConEstado(reservas, S, "CANCELADA")
<1>1. PICK g \in Libres :
         /\ reservas' = ConFilas(rs, {g}, E)
         /\ grupos' = Recalculados([grupos EXCEPT ![g] = [tipo |-> "BLOQUEO", franja |-> f, docente |-> quien]],
                                   rs, GruposDe(S))
  BY DEF BloquearEquipos
<1> DEFINE nuevo == [tipo |-> "BLOQUEO", franja |-> f, docente |-> quien]
           gs == [grupos EXCEPT ![g] = nuevo]
<1>2. E \subseteq Reservables /\ UNCHANGED <<equipos, ahora>>
  BY DEF BloquearEquipos
<1>3. g \in Grupos /\ grupos[g] = Nada
  BY DEF Libres
<1>4. S \in SUBSET Ids /\ (\A i \in S : Confirmada(i)) /\ (\A i \in S : i[1] \in Grupos)
  BY DEF Solapamientos, Ids
<1>5. rs \in [Ids -> Reserva \cup {Nada}] /\ SoloCierra(reservas, rs)
  <2>1. "CANCELADA" \in ReservaTerminal
    BY DEF ReservaTerminal, EstadosReserva
  <2> HIDE DEF S
  <2> QED BY <1>4, <2>1, CerradasFilas DEF IInv
<1>6. nuevo \in Operacion /\ nuevo # Nada /\ ~EsClase(nuevo)
  <2>1. nuevo \in Operacion
    BY DEF Operacion
  <2> QED BY <2>1, ReservasAssumption DEF EsClase
<1>7. gs \in [Grupos -> FilasGrupo]
  BY <1>6, IInvTablas DEF IInv, FilasGrupo
<1>8. gs[g] = nuevo /\ \A h \in Grupos \ {g} : gs[h] = grupos[h]
  BY <1>3, IInvTablas DEF IInv
<1>9. GruposDe(S) \cap {g} = {}
  BY <1>3, <1>4 DEF GruposDe, IInv, Referencias, Confirmada
<1>10. \A i \in Ids : reservas[i] # Nada /\ rs[i].estado # reservas[i].estado => i[1] \in GruposDe(S)
  BY DEF ConEstado, GruposDe
<1>11. \A i \in Ids : ConfirmadaEn(rs, i) => i \notin S /\ rs[i] = reservas[i]
  <2> TAKE i \in Ids
  <2>1. i \in S => rs[i].estado = "CANCELADA"
    <3> SUFFICES ASSUME i \in S PROVE rs[i].estado = "CANCELADA"
      OBVIOUS
    <3>1. reservas[i] \in Reserva
      BY <1>4, FilaTipo DEF IInv, Confirmada
    <3>2. rs[i] = [reservas[i] EXCEPT !.estado = "CANCELADA"]
      BY DEF ConEstado
    <3> QED BY <3>1, <3>2 DEF Reserva
  <2>2. i \notin S => rs[i] = reservas[i]
    BY DEF ConEstado
  <2> QED BY <2>1, <2>2 DEF ConfirmadaEn
<1>12. \A i \in Ids : reservas[i] # Nada /\ reservas[i].estado # "CONFIRMADA" => rs[i] = reservas[i]
  BY <1>4 DEF ConEstado, Confirmada
<1>13. reservas' = ConFilas(rs, {g}, E) /\ grupos' = Recalculados(gs, rs, GruposDe(S))
  BY <1>1
<1> HIDE DEF rs, gs, nuevo
<1>14. /\ reservas' \in [Ids -> Reserva \cup {Nada}]
       /\ grupos' \in [Grupos -> FilasGrupo]
       /\ Referencias' /\ GrupoCoherente'
       /\ PasoTransicionesDeGrupo
       /\ grupos'[g] = gs[g]
       /\ \A i \in Ids : reservas[i] # Nada =>
             i[1] \notin {g} /\ grupos'[i[1]].franja = grupos[i[1]].franja /\ reservas'[i] = rs[i]
       /\ \A i \in Ids : reservas[i] = Nada /\ reservas'[i] # Nada =>
             /\ i[1] \in {g} /\ i[2] \in E
             /\ reservas'[i].equipo = i[2] /\ grupos'[i[1]].franja = gs[i[1]].franja
  <2> DEFINE G == {g}
             GG == GruposDe(S)
  <2>1. G \in SUBSET Libres
    BY <1>1
  <2>2. \A h \in G : gs[h] # Nada /\ (EsClase(gs[h]) => gs[h].estado = "CONFIRMADA")
    BY <1>6, <1>8
  <2>3. \A h \in Grupos \ G : gs[h] = grupos[h]
    BY <1>8
  <2>4. GG \cap G = {}
    BY <1>9
  <2>5. reservas' = ConFilas(rs, G, E) /\ grupos' = Recalculados(gs, rs, GG)
    BY <1>13
  <2>6. \A i \in Ids : reservas[i] # Nada /\ rs[i].estado # reservas[i].estado => i[1] \in GG
    BY <1>10
  <2>7. g \in G
    OBVIOUS
  <2> HIDE DEF S, G, GG
  <2>8. /\ reservas' \in [Ids -> Reserva \cup {Nada}]
        /\ grupos' \in [Grupos -> FilasGrupo]
        /\ Referencias' /\ GrupoCoherente'
        /\ PasoTransicionesDeGrupo
        /\ \A h \in G : grupos'[h] = gs[h]
        /\ \A i \in Ids : reservas[i] # Nada =>
              /\ i[1] \notin G /\ grupos'[i[1]].franja = grupos[i[1]].franja
              /\ reservas'[i] = rs[i]
        /\ \A i \in Ids : reservas[i] = Nada /\ reservas'[i] # Nada =>
              /\ i[1] \in G /\ i[2] \in E
              /\ reservas'[i].equipo = i[2] /\ grupos'[i[1]].franja = gs[i[1]].franja
    <3>1. Insercion(rs, gs, GG, G, E)
      BY <1>5, <1>7, <2>1, <2>2, <2>3, <2>4, <2>5, <2>6 DEF Insercion
    <3> QED BY <3>1, InsertarPreserva DEF IInv
  <2> QED BY <2>7, <2>8 DEF G
<1>15. TypeOK'
  BY <1>2, <1>14 DEF IInv, TypeOK, FilasGrupo
<1>16. ASSUME NEW i \in Ids, Confirmada(i)'
       PROVE  \/ /\ Confirmada(i) /\ i \notin S /\ reservas'[i] = reservas[i]
                 /\ FranjaDe(i)' = FranjaDe(i) /\ i[1] # g
              \/ i[1] = g /\ i[2] \in E /\ reservas'[i].equipo = i[2] /\ FranjaDe(i)' = f
  <2>1. CASE reservas[i] # Nada
    BY <1>11, <1>14, <1>16, <2>1 DEF Confirmada, ConfirmadaEn, FranjaDe
  <2>2. CASE reservas[i] = Nada
    BY <1>8, <1>14, <1>16, <2>2 DEF Confirmada, nuevo, FranjaDe
  <2> QED BY <2>1, <2>2
<1>17. NoSolapamiento'
  <2> SUFFICES ASSUME NEW i \in Ids, NEW j \in Ids, i # j, Confirmada(i)', Confirmada(j)',
                      reservas'[i].equipo = reservas'[j].equipo
               PROVE  ~Solapan(FranjaDe(i)', FranjaDe(j)')
    BY DEF NoSolapamiento, SinSolapes, Confirmada, FranjaDe
  <2>1. ASSUME NEW k \in Ids, Confirmada(k), k \notin S, reservas[k].equipo \in E
        PROVE  ~Solapan(FranjaDe(k), f) /\ ~Solapan(f, FranjaDe(k))
    <3>1. ~Solapan(FranjaDe(k), f)
      BY <2>1 DEF Solapamientos
    <3> QED BY <3>1 DEF Solapan
  <2>2. CASE i[1] # g /\ j[1] # g
    BY <1>16, <2>2 DEF IInv, NoSolapamiento, SinSolapes, Confirmada, FranjaDe
  <2>3. CASE i[1] = g /\ j[1] # g
    BY <1>16, <2>1, <2>3
  <2>4. CASE i[1] # g /\ j[1] = g
    BY <1>16, <2>1, <2>4
  <2>5. CASE i[1] = g /\ j[1] = g
    BY <1>16, <2>5 DEF Ids
  <2> QED BY <2>2, <2>3, <2>4, <2>5
<1>18. SinPromesasFueraDeCirculacion'
  <2> SUFFICES ASSUME NEW i \in Ids, Confirmada(i)', equipos[reservas'[i].equipo] = "fuera"
               PROVE  YaTermino(FranjaDe(i)', ahora)
    BY <1>2 DEF SinPromesasFueraDeCirculacion
  <2>1. ~(i[1] = g /\ i[2] \in E /\ reservas'[i].equipo = i[2])
    BY <1>2 DEF Reservables
  <2> QED BY <1>16, <2>1 DEF IInv, SinPromesasFueraDeCirculacion
<1>19. PasoCierreDefinitivo
  BY <1>12, <1>14 DEF PasoCierreDefinitivo
<1>20. PasoLoIntocable
  <2> SUFFICES ASSUME NEW h \in Grupos, grupos[h] = Nada, grupos'[h] # Nada, grupos'[h].tipo = "NORMAL"
               PROVE  FALSE
    BY DEF PasoLoIntocable
  <2>1. CASE h = g
    BY <1>6, <1>8, <1>14, <2>1 DEF EsClase
  <2>2. CASE h # g
    BY <1>5, <1>7, <1>8, <1>13, <2>2, RecalculadosFila
  <2> QED BY <2>1, <2>2
<1> QED BY <1>14, <1>15, <1>17, <1>18, <1>19, <1>20 DEF IInv, Paso

\* What a plan of displacements may touch: classes in force, that somebody may take at t.
LEMMA PlanTipo ==
    ASSUME NEW materia, NEW iniciales \in SUBSET Ids, NEW t,
           NEW plan \in PlanesDeReposicion(materia, iniciales, t)
    PROVE  /\ DOMAIN plan \in SUBSET Ids
           /\ \A i \in DOMAIN plan : /\ Confirmada(i)
                                     /\ plan[i] \in Reservables \cup {Nada}
                                     /\ \E m : SePuedeRobar(m, i, t)
<1>1. CASE iniciales = {}
  BY <1>1 DEF PlanesDeReposicion
<1>2. CASE iniciales # {}
  <2>1. /\ plan \in UNION {[P -> Reservables \cup {Nada}] : P \in SUBSET NoEmpezadas(t)}
        /\ PlanJustificado(materia, iniciales, plan, t)
    BY <1>2 DEF PlanesDeReposicion
  <2>2. PICK P \in SUBSET NoEmpezadas(t) : plan \in [P -> Reservables \cup {Nada}]
    BY <2>1
  <2>3. DOMAIN plan = P /\ \A i \in P : plan[i] \in Reservables \cup {Nada}
    BY <2>2
  <2>4. \A i \in P : i \in Ids /\ Confirmada(i)
    BY DEF NoEmpezadas
  <2>5. \A i \in DOMAIN plan : \E m : SePuedeRobar(m, i, t)
    BY <2>1 DEF PlanJustificado
  <2> QED BY <2>3, <2>4, <2>5
<1> QED BY <1>1, <1>2

LEMMA PlanAplicado ==
    ASSUME TypeOK, Referencias, NEW plan, DOMAIN plan \in SUBSET Ids,
           \A i \in DOMAIN plan : Confirmada(i) /\ plan[i] \in Reservables \cup {Nada}
    PROVE  /\ AplicarPlan(reservas, plan) \in [Ids -> Reserva \cup {Nada}]
           /\ SoloCierra(reservas, AplicarPlan(reservas, plan))
           /\ \A i \in Ids \ DOMAIN plan : AplicarPlan(reservas, plan)[i] = reservas[i]
           /\ \A i \in DOMAIN plan : ConfirmadaEn(AplicarPlan(reservas, plan), i)
                 => AplicarPlan(reservas, plan)[i].equipo \in Reservables
           /\ \A i \in Ids : AplicarPlan(reservas, plan)[i].estado # reservas[i].estado
                 => i \in Canceladas(plan)
<1> DEFINE rs == AplicarPlan(reservas, plan)
<1>1. \A i \in Ids \ DOMAIN plan : rs[i] = reservas[i]
  BY DEF AplicarPlan
<1>2. rs = [i \in Ids |-> rs[i]]
  BY DEF AplicarPlan
<1>3. ASSUME NEW i \in DOMAIN plan
      PROVE  /\ rs[i] \in Reserva /\ rs[i] # Nada
             /\ reservas[i] # Nada /\ reservas[i].estado = "CONFIRMADA"
             /\ rs[i].estado = "CONFIRMADA" => rs[i].equipo \in Reservables
             /\ rs[i].estado # "CONFIRMADA" => i \in Canceladas(plan)
  <2>1. reservas[i] \in Reserva /\ reservas[i].estado = "CONFIRMADA" /\ reservas[i] # Nada
    BY FilaTipo DEF Confirmada
  <2>2. CASE plan[i] = Nada
    <3>1. rs[i] = [reservas[i] EXCEPT !.estado = "CANCELADA"]
      BY <2>2 DEF AplicarPlan
    <3> HIDE DEF rs
    <3>2. rs[i] \in Reserva /\ rs[i].estado = "CANCELADA"
      BY <2>1, <3>1 DEF Reserva, EstadosReserva
    <3>3. i \in Canceladas(plan)
      BY <2>2 DEF Canceladas
    <3> QED BY <2>1, <3>2, <3>3, ReservasAssumption
  <2>3. CASE plan[i] # Nada
    <3>1. rs[i] = [reservas[i] EXCEPT !.equipo = plan[i]]
      BY <2>3 DEF AplicarPlan
    <3>2. plan[i] \in Reservables /\ plan[i] \in Equipos
      BY <2>3 DEF Reservables
    <3> HIDE DEF rs
    <3>3. rs[i] \in Reserva /\ rs[i].estado = "CONFIRMADA" /\ rs[i].equipo = plan[i]
      BY <2>1, <3>1, <3>2 DEF Reserva
    <3> QED BY <2>1, <3>2, <3>3, ReservasAssumption
  <2> QED BY <2>2, <2>3
<1> HIDE DEF rs
<1>4. rs \in [Ids -> Reserva \cup {Nada}]
  BY <1>1, <1>2, <1>3, IInvTablas
<1>5. SoloCierra(reservas, rs)
  <2> SUFFICES ASSUME NEW i \in Ids
               PROVE  /\ reservas[i] = Nada <=> rs[i] = Nada
                      /\ reservas[i] # Nada /\ reservas[i].estado # "CONFIRMADA"
                            => rs[i].estado = reservas[i].estado
    BY DEF SoloCierra
  <2>1. CASE i \in DOMAIN plan
    BY <1>3, <2>1
  <2>2. CASE i \notin DOMAIN plan
    BY <1>1, <2>2
  <2> QED BY <2>1, <2>2
<1>6. \A i \in Ids : rs[i].estado # reservas[i].estado => i \in Canceladas(plan)
  BY <1>1, <1>3
<1>7. \A i \in DOMAIN plan : ConfirmadaEn(rs, i) => rs[i].equipo \in Reservables
  BY <1>3 DEF ConfirmadaEn
<1> QED BY <1>1, <1>4, <1>5, <1>6, <1>7 DEF rs

LEMMA ClasesNuevas ==
    ASSUME TypeOK, NEW materia \in Materias, NEW quien \in Usuarios, NEW G \in SUBSET Libres,
           NEW nuevos \in [G -> Franjas], NEW regla \in Grupos \cup {Nada}
    PROVE  /\ ConClases(grupos, nuevos, materia, quien, regla) \in [Grupos -> FilasGrupo]
           /\ \A h \in Grupos \ G : ConClases(grupos, nuevos, materia, quien, regla)[h] = grupos[h]
           /\ \A h \in G : /\ ConClases(grupos, nuevos, materia, quien, regla)[h] # Nada
                           /\ ConClases(grupos, nuevos, materia, quien, regla)[h].estado = "CONFIRMADA"
<1> DEFINE gs == ConClases(grupos, nuevos, materia, quien, regla)
<1>1. G \in SUBSET Grupos
  BY DEF Libres
<1>2. gs = [h \in Grupos |-> gs[h]]
  BY DEF ConClases
<1>3. \A h \in Grupos \ G : gs[h] = grupos[h]
  BY DEF ConClases
<1>4. ASSUME NEW h \in G
      PROVE  gs[h] \in Grupo /\ gs[h].estado = "CONFIRMADA"
  <2>1. gs[h] = [tipo |-> "NORMAL", estado |-> "CONFIRMADA", franja |-> nuevos[h],
                 materia |-> materia, docente |-> quien, regla |-> regla]
    BY <1>1 DEF ConClases
  <2> HIDE DEF gs
  <2> QED BY <2>1 DEF Grupo, EstadosGrupo
<1> HIDE DEF gs
<1>5. gs \in [Grupos -> FilasGrupo]
  BY <1>2, <1>3, <1>4, IInvTablas DEF FilasGrupo
<1>6. \A h \in G : gs[h] # Nada
  BY <1>4, ReservasAssumption
<1> QED BY <1>3, <1>4, <1>5, <1>6 DEF gs

\* Creating a class, or a weekly series of them, with whatever it displaces.
LEMMA CrearPreserva ==
    ASSUME IInv, NEW quien \in Usuarios, NEW materia \in Materias, NEW F \in Series,
           NEW E \in SUBSET Equipos, E # {}, NEW T,
           CrearReserva(quien, materia, F, E, T)
    PROVE  IInv' /\ Paso
<1> DEFINE Escribe(plan, G, nuevos, regla) ==
              /\ reservas' = ConFilas(AplicarPlan(reservas, plan), G, E)
              /\ SinSolapes(reservas', ConClases(grupos, nuevos, materia, quien, regla))
              /\ grupos' = Recalculados(ConClases(grupos, nuevos, materia, quien, regla),
                                        AplicarPlan(reservas, plan), GruposDe(Canceladas(plan)))
<1>a. PICK t \in Relojes :
         \E plan \in PlanesDeReposicion(materia, Solapamientos(E, F), t), G \in SUBSET Libres :
         \E nuevos \in Bijection(G, F), regla \in ReglaDe(G) : Escribe(plan, G, nuevos, regla)
  BY DEF CrearReserva
<1>b. PICK plan \in PlanesDeReposicion(materia, Solapamientos(E, F), t), G \in SUBSET Libres :
         \E nuevos \in Bijection(G, F), regla \in ReglaDe(G) : Escribe(plan, G, nuevos, regla)
  BY <1>a
<1>1. PICK nuevos \in Bijection(G, F), regla \in ReglaDe(G) : Escribe(plan, G, nuevos, regla)
  BY <1>b
<1> DEFINE rs == AplicarPlan(reservas, plan)
           gs == ConClases(grupos, nuevos, materia, quien, regla)
           GG == GruposDe(Canceladas(plan))
<1>2. /\ E \subseteq Reservables
      /\ UNCHANGED <<equipos, ahora>>
  BY DEF CrearReserva
<1>3. TypeOK /\ Referencias /\ GrupoCoherente
  BY DEF IInv
<1>4. /\ DOMAIN plan \in SUBSET Ids
      /\ \A i \in DOMAIN plan : /\ Confirmada(i)
                                /\ plan[i] \in Reservables \cup {Nada}
                                /\ \E m : SePuedeRobar(m, i, t)
  <2>1. Solapamientos(E, F) \in SUBSET Ids
    BY DEF Solapamientos
  <2> QED BY <2>1, PlanTipo
<1>5. /\ rs \in [Ids -> Reserva \cup {Nada}]
      /\ SoloCierra(reservas, rs)
      /\ \A i \in Ids \ DOMAIN plan : rs[i] = reservas[i]
      /\ \A i \in DOMAIN plan : ConfirmadaEn(rs, i) => rs[i].equipo \in Reservables
      /\ \A i \in Ids : rs[i].estado # reservas[i].estado => i \in Canceladas(plan)
  BY <1>3, <1>4, PlanAplicado
<1>6. G \in SUBSET Grupos /\ \A g \in G : grupos[g] = Nada
  BY DEF Libres
<1>7. nuevos \in [G -> Franjas] /\ regla \in Grupos \cup {Nada}
  <2>1. nuevos \in [G -> F] /\ F \subseteq Franjas
    BY ReservasAssumption DEF Bijection, Injection
  <2> QED BY <1>6, <2>1 DEF ReglaDe
<1>8. /\ gs \in [Grupos -> FilasGrupo]
      /\ \A h \in Grupos \ G : gs[h] = grupos[h]
      /\ \A h \in G : gs[h] # Nada /\ gs[h].estado = "CONFIRMADA"
  BY <1>3, <1>7, ClasesNuevas
<1>9. GG \cap G = {}
  BY <1>3, <1>4, <1>6 DEF GruposDe, Canceladas, Confirmada, Referencias
<1>10. reservas' = ConFilas(rs, G, E) /\ grupos' = Recalculados(gs, rs, GG) /\ SinSolapes(reservas', gs)
  BY <1>1
<1>11. \A i \in Ids : rs[i].estado # reservas[i].estado => i[1] \in GG
  BY <1>5 DEF GruposDe
<1> HIDE DEF rs, gs, GG
<1>12. Insercion(rs, gs, GG, G, E)
  BY <1>5, <1>8, <1>9, <1>10, <1>11 DEF Insercion
<1>13. /\ reservas' \in [Ids -> Reserva \cup {Nada}]
       /\ grupos' \in [Grupos -> FilasGrupo]
       /\ Referencias' /\ GrupoCoherente'
       /\ PasoTransicionesDeGrupo
       /\ \A i \in Ids : reservas[i] # Nada => reservas'[i] = rs[i] /\ i[1] \notin G
       /\ \A i \in Ids : reservas[i] = Nada /\ reservas'[i] # Nada =>
             i[1] \in G /\ i[2] \in E /\ reservas'[i].equipo = i[2]
  BY <1>3, <1>12, InsertarPreserva
<1>14. \A h \in Grupos : gs[h] # Nada => grupos'[h].franja = gs[h].franja
  <2> TAKE h \in Grupos
  <2> QED BY <1>5, <1>8, <1>10, RecalculadosFila
<1>15. \A i \in Ids : reservas'[i] # Nada => gs[i[1]] # Nada
  <2> SUFFICES ASSUME NEW i \in Ids, reservas'[i] # Nada PROVE gs[i[1]] # Nada
    OBVIOUS
  <2>1. i[1] \in Grupos
    BY DEF Ids
  <2>2. CASE reservas[i] # Nada
    BY <1>3, <1>8, <1>13, <2>1, <2>2 DEF Referencias
  <2>3. CASE reservas[i] = Nada
    BY <1>8, <1>13, <2>3
  <2> QED BY <2>2, <2>3
<1>16. TypeOK'
  BY <1>2, <1>3, <1>13 DEF TypeOK, FilasGrupo
<1>17. NoSolapamiento'
  <2>1. \A i \in Ids : ConfirmadaEn(reservas', i) => grupos'[i[1]].franja = gs[i[1]].franja
    BY <1>14, <1>15 DEF ConfirmadaEn, Ids
  <2>2. SinSolapes(reservas', grupos')
    BY <1>10, <2>1, MenosSinSolapes
  <2> QED BY <2>2 DEF NoSolapamiento, SinSolapes
<1>18. SinPromesasFueraDeCirculacion'
  <2> SUFFICES ASSUME NEW i \in Ids, Confirmada(i)', equipos[reservas'[i].equipo] = "fuera"
               PROVE  YaTermino(FranjaDe(i)', ahora)
    BY <1>2 DEF SinPromesasFueraDeCirculacion
  <2>1. CASE reservas[i] = Nada
    BY <1>2, <1>13, <2>1 DEF Confirmada, Reservables
  <2>2. CASE reservas[i] # Nada /\ i \in DOMAIN plan
    <3>1. ConfirmadaEn(rs, i) /\ reservas'[i] = rs[i]
      BY <1>13, <2>2 DEF Confirmada, ConfirmadaEn
    <3> QED BY <1>5, <2>2, <3>1 DEF Reservables
  <2>3. CASE reservas[i] # Nada /\ i \notin DOMAIN plan
    <3>1. reservas'[i] = reservas[i] /\ Confirmada(i)
      BY <1>5, <1>13, <2>3 DEF Confirmada
    <3>2. FranjaDe(i)' = FranjaDe(i)
      <4>1. i[1] \in Grupos /\ grupos[i[1]] # Nada /\ i[1] \notin G
        BY <1>3, <1>13, <2>3 DEF Ids, Referencias
      <4> QED BY <1>8, <1>14, <4>1 DEF FranjaDe
    <3> QED BY <3>1, <3>2 DEF IInv, SinPromesasFueraDeCirculacion
  <2> QED BY <2>1, <2>2, <2>3
<1>19. PasoCierreDefinitivo
  BY <1>4, <1>5, <1>13 DEF PasoCierreDefinitivo, Confirmada
<1>20. PasoLoIntocable
  <2> SUFFICES ASSUME NEW i \in Ids, Confirmada(i),
                      EsBloqueo(i) \/ ~SePuedeRobarPorHorario(FranjaDe(i), ahora - Retraso)
               PROVE  reservas'[i] = reservas[i]
    BY DEF PasoLoIntocable
  <2>1. i \notin DOMAIN plan
    <3> SUFFICES ASSUME i \in DOMAIN plan PROVE FALSE
      OBVIOUS
    <3>1. PICK m : SePuedeRobar(m, i, t)
      BY <1>4
    <3>2. ~EsBloqueo(i) /\ FranjaDe(i).ini - t > Antelacion
      BY <3>1 DEF SePuedeRobar, SePuedeRobarPorHorario
    <3>3. FranjaDe(i).ini - (ahora - Retraso) <= Antelacion
      <4>1. FranjaDe(i).ini \in Nat /\ ahora \in Nat
        BY <1>3, FilaTipo, IInvTablas DEF Confirmada
      <4> QED BY <3>2, <4>1, ReservasAssumption, DominioAssumption DEF SePuedeRobarPorHorario
    <3>4. t \in Nat /\ ahora \in Nat /\ ahora - t <= Retraso /\ FranjaDe(i).ini \in Nat
      BY <1>3, FilaTipo, IInvTablas DEF Confirmada, Relojes
    <3> QED BY <3>2, <3>3, <3>4, ReservasAssumption, DominioAssumption
  <2> QED BY <1>5, <1>13, <2>1 DEF Confirmada
<1> QED BY <1>13, <1>16, <1>17, <1>18, <1>19, <1>20 DEF IInv, Paso

-----------------------------------------------------------------------------
(* Theorems                                                                  *)

LEMMA InitIInv == Init => IInv
<1> SUFFICES ASSUME Init PROVE IInv
  OBVIOUS
<1>1. TypeOK
  BY ReservasAssumption DEF Init, TypeOK, Condiciones
<1>2. Referencias /\ GrupoCoherente /\ SinPromesasFueraDeCirculacion /\ NoSolapamiento
  BY DEF Init, Referencias, GrupoCoherente, SinPromesasFueraDeCirculacion, NoSolapamiento,
         SinSolapes, Confirmada
<1> QED BY <1>1, <1>2 DEF IInv

\* Every step keeps the inductive invariant and does what the action properties say.
LEMMA NextIInv == IInv /\ [Next]_vars => IInv' /\ Paso
<1> SUFFICES ASSUME IInv, [Next]_vars PROVE IInv' /\ Paso
  OBVIOUS
<1> USE DEF ReservaTerminal, EstadosReserva
<1>1. CASE Crear
  <2>1. PICK quien \in Usuarios, m \in Materias, F \in Series, E \in (SUBSET Equipos) \ {{}} :
           \E T \in SUBSET E : CrearReserva(quien, m, F, E, T)
    BY <1>1 DEF Crear
  <2>2. PICK T : CrearReserva(quien, m, F, E, T)
    BY <2>1
  <2>3. E \in SUBSET Equipos /\ E # {}
    OBVIOUS
  <2> QED BY <2>2, <2>3, CrearPreserva
<1>2. CASE Cancelar
  <2>1. PICK quien \in Usuarios, i \in Ids : CancelarReserva(quien, i)
    BY <1>2 DEF Cancelar
  <2> QED BY <2>1, CerrarPreserva DEF CancelarReserva
<1>3. CASE CancelarSerie
  <2>1. PICK quien \in Usuarios, g \in Grupos, b \in BOOLEAN : CancelarOcurrencia(quien, g, b)
    BY <1>3 DEF CancelarSerie
  <2>2. PICK G : Cerrar({i \in Ids : i[1] \in G /\ Confirmada(i)}, "CANCELADA")
    BY <2>1 DEF CancelarOcurrencia
  <2> QED BY <2>2, CerrarPreserva
<1>4. CASE Bloquear
  <2>1. PICK quien \in Usuarios, f \in Franjas, E \in (SUBSET Equipos) \ {{}} : BloquearEquipos(quien, f, E)
    BY <1>4 DEF Bloquear
  <2>2. E \in SUBSET Equipos /\ E # {}
    OBVIOUS
  <2> QED BY <2>1, <2>2, BloquearPreserva
<1>5. CASE Levantar
  <2>1. PICK quien \in Usuarios, g \in Grupos : LevantarBloqueo(quien, g)
    BY <1>5 DEF Levantar
  <2> QED BY <2>1, CerrarPreserva DEF LevantarBloqueo
<1>6. CASE FinalizarLote
  <2>1. PICK lote \in (SUBSET Vencidas(ahora)) \ {{}} : Cerrar(lote, "FINALIZADA")
    BY <1>6 DEF FinalizarLote
  <2>2. lote \in SUBSET Ids /\ \A i \in lote : Confirmada(i)
    BY DEF Vencidas
  <2> QED BY <2>1, <2>2, CerrarPreserva
<1>7. CASE Liberar
  <2>1. PICK S \in (SUBSET NoTerminadas(0)) \ {{}} : LiberarReservas(S)
    BY <1>7 DEF Liberar
  <2>2. S \in SUBSET Ids /\ \A i \in S : Confirmada(i)
    BY DEF NoTerminadas
  <2> QED BY <2>1, <2>2, CerrarPreserva DEF LiberarReservas
<1>8. CASE Sacar
  BY <1>8, SacarPreserva DEF Sacar
<1>9. CASE Condicion
  BY <1>9, CondicionPreserva DEF Condicion
<1>10. CASE QuedarSinDocente
  <2>1. PICK m \in Materias, t \in Relojes :
           Cerrar({i \in NoTerminadas(t) : ~EsBloqueo(i) /\ grupos[i[1]].materia = m}, "CANCELADA")
    BY <1>10 DEF QuedarSinDocente, CancelarFuturasDeMateria
  <2> DEFINE S == {i \in NoTerminadas(t) : ~EsBloqueo(i) /\ grupos[i[1]].materia = m}
  <2>2. S \in SUBSET Ids /\ \A i \in S : Confirmada(i)
    BY DEF NoTerminadas
  <2> HIDE DEF S
  <2> QED BY <2>1, <2>2, CerrarPreserva DEF S
<1>11. CASE CambiarJornada
  <2>1. PICK S \in (SUBSET NoTerminadas(0)) \ {{}} : CancelarPorIDs(S)
    BY <1>11 DEF CambiarJornada
  <2>2. S \in SUBSET Ids /\ \A i \in S : Confirmada(i)
    BY DEF NoTerminadas
  <2> QED BY <2>1, <2>2, CerrarPreserva DEF CancelarPorIDs
<1>12. CASE Cambiar
  BY <1>12, CambiarPreserva DEF Cambiar
<1>13. CASE PasaElTiempo
  BY <1>13, TiempoPreserva
<1>14. CASE UNCHANGED vars
  BY <1>14, QuietoPreserva
<1> QED BY <1>1, <1>2, <1>3, <1>4, <1>5, <1>6, <1>7, <1>8, <1>9, <1>10, <1>11, <1>12, <1>13, <1>14
        DEF Next

THEOREM Invariante == Spec => []IInv
<1>1. Init => IInv
  BY InitIInv
<1>2. IInv /\ [Next]_vars => IInv'
  BY NextIInv
<1> QED BY <1>1, <1>2, PTL DEF Spec

\* The tables keep their types through every operation.
THEOREM Tipos == Spec => []TypeOK
<1>1. IInv => TypeOK
  BY DEF IInv
<1> QED BY <1>1, Invariante, PTL

\* No device is ever promised to two reservations at overlapping times, although only
\* CrearReserva leans on the constraint of the database.
THEOREM SinSolapamientos == Spec => []NoSolapamiento
<1>1. IInv => NoSolapamiento
  BY DEF IInv
<1> QED BY <1>1, Invariante, PTL

\* The stored state of every group is at all times the aggregation of its reservations.
THEOREM GruposCoherentes == Spec => []GrupoCoherente
<1>1. IInv => GrupoCoherente
  BY DEF IInv
<1> QED BY <1>1, Invariante, PTL

\* What is promised and still to be used is on a device in circulation.
THEOREM SinPromesasRotas == Spec => []SinPromesasFueraDeCirculacion
<1>1. IInv => SinPromesasFueraDeCirculacion
  BY DEF IInv
<1> QED BY <1>1, Invariante, PTL

\* What is closed is never written again.
THEOREM CierreEsDefinitivo == Spec => CierreDefinitivo
<1>1. IInv /\ [Next]_vars => [PasoCierreDefinitivo]_vars
  BY NextIInv DEF Paso
<1>2. Spec => [][PasoCierreDefinitivo]_vars
  BY <1>1, Invariante, PTL DEF Spec
<1> QED BY <1>2 DEF CierreDefinitivo, PasoCierreDefinitivo

\* No operation asks a group's state machine for a transition it forbids, so recomputing a
\* group never makes a cancellation fail.
THEOREM GruposTransicionan == Spec => TransicionesDeGrupo
<1>1. IInv /\ [Next]_vars => [PasoTransicionesDeGrupo]_vars
  BY NextIInv DEF Paso
<1>2. Spec => [][PasoTransicionesDeGrupo]_vars
  BY <1>1, Invariante, PTL DEF Spec
<1> QED BY <1>2 DEF TransicionesDeGrupo, PasoTransicionesDeGrupo

\* A block and a class about to start are never displaced.
THEOREM NadieTocaLoIntocable == Spec => LoIntocableNoSeDesplaza
<1>1. IInv /\ [Next]_vars => [PasoLoIntocable]_vars
  BY NextIInv DEF Paso
<1>2. Spec => [][PasoLoIntocable]_vars
  BY <1>1, Invariante, PTL DEF Spec
<1> QED BY <1>2 DEF LoIntocableNoSeDesplaza, PasoLoIntocable
=============================================================================
