----------------------------- MODULE Custodia_proofs -----------------------------
(* Proofs about Custodia for any calendar, devices, desks and clock: every step *)
(* is one of Reservas, a device that is out is where its reservation says, and  *)
(* the bell tells the truth.                                                    *)
EXTENDS CierreDeJornada, Reservas_proofs

\* Handing out, receiving and sweeping exclude each other and themselves.
UnaSola == \A p, q \in Procesos : abierta[p] # Nada /\ abierta[q] # Nada => p = q

\* What a hand-out read still holds: its reservations are on devices that may leave, over
\* nobody's head, and what it gives up is in force, nobody came for it and it is its day.
EntregaFirme(a) ==
    /\ a.salen # {}
    /\ GruposDe(a.salen) \cup GruposDe(a.resto) \subseteq a.grupos
    /\ \A i \in a.salen : /\ reservas[i] # Nada
                          /\ PuedeSalir(reservas[i].equipo)
                          /\ ~ImpideAnticipar(i, a.reloj)
    /\ \A i, j \in a.salen : reservas[i].equipo = reservas[j].equipo => i = j
    /\ \A i \in a.resto : /\ Confirmada(i) /\ ~EsBloqueo(i) /\ ~TuvoEntrega(i)
                          /\ PuedeEntregarseEn(FranjaDe(i), reservas[i].estado, a.reloj)

\* And what a return counted.
DevolucionFirme(a) ==
    /\ \A q \in a.prestamos : Abierto(q)
    /\ a.quedan <=> AvisadosSinDevolver(a.prestamos) # {}

LeidoSigueFirme ==
    \A p \in Procesos : abierta[p] # Nada =>
        /\ abierta[p].reloj \in Relojes
        /\ abierta[p].op = "entregar" => EntregaFirme(abierta[p])
        /\ abierta[p].op = "recibir" => DevolucionFirme(abierta[p])

\* A loan against a reservation finds its row (foreign key).
PrestamoConReserva ==
    \A p \in Prestamos : prestamos[p] # Nada /\ prestamos[p].reserva # Nada
                            => reservas[prestamos[p].reserva] # Nada

\* The queue of the bell: its last event tells how things are, and "quedan" is never said
\* to a bell that has nothing announced.
ColaVeraz ==
    /\ eventos # << >> => (AvisadoSigueAfuera <=> eventos[Len(eventos)] # "volvieron")
    /\ \A k \in DOMAIN eventos : eventos[k] = "quedan" =>
          IF k = 1 THEN campana \in {"sin_leer", "leida"} ELSE eventos[k - 1] # "volvieron"

IInvCu ==
    /\ IInv /\ TypeOKCu /\ UnaSola /\ LeidoSigueFirme /\ PrestamoConReserva /\ ColaVeraz
    /\ LoEntregadoEnSuLugar /\ CampanaVeraz

-----------------------------------------------------------------------------
(* What the operations of Reservas do to what a loan or a transaction leans on *)

\* No row is lost.
Conserva == \A i \in Ids : reservas[i] # Nada => reservas'[i] # Nada

\* Every row keeps its device.
EnSuLugar == \A i \in Ids : reservas[i] # Nada => reservas'[i].equipo = reservas[i].equipo

NadaSeLibera == \A i \in Ids : Confirmada(i) => reservas'[i].estado # "NO_RETIRADA"

SinClaseNueva == \A g \in Grupos : grupos[g] = Nada /\ grupos'[g] # Nada => grupos'[g].tipo # "NORMAL"

MismosGrupos ==
    \A g \in Grupos : grupos[g] # Nada =>
        grupos'[g] # Nada /\ grupos'[g].franja = grupos[g].franja /\ grupos'[g].tipo = grupos[g].tipo

\* Recomputing the state of a group touches neither its slot nor its kind.
LEMMA RecalculadosConserva ==
    ASSUME NEW rs \in [Ids -> Reserva \cup {Nada}], NEW gs \in [Grupos -> FilasGrupo], NEW G,
           NEW g \in Grupos
    PROVE  /\ Recalculados(gs, rs, G)[g] = Nada <=> gs[g] = Nada
           /\ gs[g] # Nada => /\ Recalculados(gs, rs, G)[g].franja = gs[g].franja
                              /\ Recalculados(gs, rs, G)[g].tipo = gs[g].tipo
<1> DEFINE n == Recalculados(gs, rs, G)[g]
<1>1. /\ n \in FilasGrupo /\ gs[g] \in FilasGrupo
      /\ n = Nada <=> gs[g] = Nada
      /\ EsClase(n) <=> EsClase(gs[g])
      /\ gs[g] # Nada => n.franja = gs[g].franja
  BY RecalculadosFila
<1> HIDE DEF n
<1>2. gs[g] # Nada => n.tipo = gs[g].tipo
  BY <1>1, ClaseEsGrupo DEF EsClase
<1> QED BY <1>1, <1>2 DEF n

LEMMA CierreQueHace ==
    ASSUME TypeOK, Referencias, NEW S \in SUBSET Ids, \A i \in S : Confirmada(i),
           NEW estado \in ReservaTerminal,
           reservas' = ConEstado(reservas, S, estado),
           grupos' = Recalculados(grupos, reservas', GruposDe(S))
    PROVE  /\ Conserva /\ EnSuLugar /\ MismosGrupos /\ SinClaseNueva
           /\ \A i \in Ids \ S : reservas'[i] = reservas[i]
           /\ \A i \in S : reservas'[i].estado = estado
           /\ \A i \in Ids : Confirmada(i)' => Confirmada(i)
<1>1. \A i \in Ids \ S : reservas'[i] = reservas[i]
  BY DEF ConEstado
<1>2. ASSUME NEW i \in S
      PROVE  /\ reservas'[i] # Nada /\ reservas'[i].estado = estado
             /\ reservas'[i].equipo = reservas[i].equipo
  <2>1. reservas[i] \in Reserva
    BY FilaTipo DEF Confirmada
  <2>2. reservas'[i] = [reservas[i] EXCEPT !.estado = estado]
    BY DEF ConEstado
  <2>3. reservas'[i] \in Reserva /\ reservas'[i].estado = estado /\ reservas'[i].equipo = reservas[i].equipo
    BY <2>1, <2>2 DEF Reserva, ReservaTerminal
  <2> QED BY <2>3, ReservasAssumption
<1>3. Conserva /\ EnSuLugar
  BY <1>1, <1>2 DEF Conserva, EnSuLugar
<1>4. \A i \in Ids : Confirmada(i)' => Confirmada(i)
  BY <1>1, <1>2 DEF Confirmada, ReservaTerminal
<1>5. \A g \in Grupos : /\ grupos'[g] = Nada <=> grupos[g] = Nada
                        /\ grupos[g] # Nada => /\ grupos'[g].franja = grupos[g].franja
                                               /\ grupos'[g].tipo = grupos[g].tipo
  <2>1. grupos \in [Grupos -> FilasGrupo] /\ reservas' \in [Ids -> Reserva \cup {Nada}]
    BY IInvTablas, CerradasFilas
  <2> QED BY <2>1, RecalculadosConserva
<1>6. MismosGrupos /\ SinClaseNueva
  BY <1>5 DEF MismosGrupos, SinClaseNueva
<1> QED BY <1>1, <1>2, <1>3, <1>4, <1>6

LEMMA CambiarQueHace ==
    ASSUME IInv, NEW quien, NEW i \in Ids, NEW nuevo \in Equipos, NEW soloEsta \in BOOLEAN,
           CambiarEquipo(quien, i, nuevo, soloEsta)
    PROVE  /\ Conserva /\ NadaSeLibera /\ SinClaseNueva
           /\ \A j \in Ids \ (IF soloEsta THEN {i} ELSE SerieDesde(i) \cup {i}) : reservas'[j] = reservas[j]
<1>1. PICK A \in AlcancesDeCambio(i, soloEsta) :
         /\ Confirmada(i)
         /\ reservas' = [j \in Ids |-> IF j \in A THEN [reservas[j] EXCEPT !.equipo = nuevo]
                                       ELSE reservas[j]]
         /\ UNCHANGED <<grupos, equipos, ahora>>
  BY DEF CambiarEquipo, ConEquipo
<1>2. A \subseteq IF soloEsta THEN {i} ELSE SerieDesde(i) \cup {i}
  BY DEF AlcancesDeCambio
<1>3. \A j \in A : j \in Ids /\ Confirmada(j)
  BY <1>1, <1>2 DEF SerieDesde
<1>4. ASSUME NEW j \in A
      PROVE  reservas'[j] # Nada /\ reservas'[j].estado = "CONFIRMADA"
  <2>1. reservas[j] \in Reserva /\ reservas[j].estado = "CONFIRMADA"
    BY <1>3, FilaTipo DEF IInv, Confirmada
  <2>2. reservas'[j] = [reservas[j] EXCEPT !.equipo = nuevo]
    BY <1>1, <1>3
  <2>3. reservas'[j] \in Reserva /\ reservas'[j].estado = "CONFIRMADA"
    BY <2>1, <2>2 DEF Reserva
  <2> QED BY <2>3, ReservasAssumption
<1>5. \A j \in Ids \ A : reservas'[j] = reservas[j]
  BY <1>1
<1>6. Conserva /\ NadaSeLibera /\ SinClaseNueva
  BY <1>1, <1>4, <1>5 DEF Conserva, NadaSeLibera, SinClaseNueva, Confirmada
<1> QED BY <1>2, <1>5, <1>6

LEMMA BloquearQueHace ==
    ASSUME IInv, NEW quien, NEW f \in Franjas, NEW E \in SUBSET Equipos, BloquearEquipos(quien, f, E)
    PROVE  /\ Conserva /\ EnSuLugar /\ NadaSeLibera /\ SinClaseNueva
<1> DEFINE S == Solapamientos(E, {f})
           rs == ConEstado(reservas, S, "CANCELADA")
           nuevo == [tipo |-> "BLOQUEO", franja |-> f, docente |-> quien]
<1>1. PICK g \in Libres :
         /\ reservas' = ConFilas(rs, {g}, E)
         /\ grupos' = Recalculados([grupos EXCEPT ![g] = nuevo], rs, GruposDe(S))
  BY DEF BloquearEquipos
<1>2. g \in Grupos /\ grupos[g] = Nada /\ quien \in Usuarios
  BY DominioAssumption DEF Libres, BloquearEquipos
<1>3. /\ reservas \in [Ids -> Reserva \cup {Nada}] /\ grupos \in [Grupos -> FilasGrupo]
      /\ rs \in [Ids -> Reserva \cup {Nada}]
  <2>1. S \in SUBSET Ids /\ \A i \in S : Confirmada(i)
    BY DEF Solapamientos
  <2>2. "CANCELADA" \in ReservaTerminal
    BY DEF ReservaTerminal, EstadosReserva
  <2> HIDE DEF S
  <2> QED BY <2>1, <2>2, CerradasFilas, IInvTablas DEF IInv
<1>4. \A i \in Ids : reservas[i] # Nada => i[1] # g /\ reservas'[i] = rs[i]
  <2>1. \A i \in Ids : reservas[i] # Nada => i[1] # g
    BY <1>2 DEF IInv, Referencias
  <2> HIDE DEF rs
  <2> QED BY <1>1, <2>1 DEF ConFilas
<1>5. ASSUME NEW i \in Ids, reservas[i] # Nada
      PROVE  /\ reservas'[i] # Nada /\ reservas'[i].equipo = reservas[i].equipo
             /\ reservas'[i].estado \in {"CANCELADA", reservas[i].estado}
  <2>1. reservas[i] \in Reserva
    BY <1>3, <1>5
  <2>2. rs[i] \in {reservas[i], [reservas[i] EXCEPT !.estado = "CANCELADA"]}
    BY DEF ConEstado
  <2> HIDE DEF rs
  <2>3. rs[i] \in Reserva /\ rs[i].equipo = reservas[i].equipo
        /\ rs[i].estado \in {"CANCELADA", reservas[i].estado}
    BY <2>1, <2>2 DEF Reserva, EstadosReserva
  <2> QED BY <1>4, <1>5, <2>3, ReservasAssumption
<1>6. Conserva /\ EnSuLugar /\ NadaSeLibera
  BY <1>5 DEF Conserva, EnSuLugar, NadaSeLibera, Confirmada
<1>7. SinClaseNueva
  <2> DEFINE gs == [grupos EXCEPT ![g] = nuevo]
  <2>1. nuevo \in Operacion /\ nuevo.tipo = "BLOQUEO"
    BY <1>2 DEF Operacion
  <2> HIDE DEF nuevo
  <2>2. gs \in [Grupos -> FilasGrupo] /\ gs[g] = nuevo /\ nuevo # Nada
        /\ \A h \in Grupos \ {g} : gs[h] = grupos[h]
    BY <1>2, <1>3, <2>1, ReservasAssumption DEF FilasGrupo
  <2>3. grupos' = Recalculados(gs, rs, GruposDe(S))
    BY <1>1
  <2> HIDE DEF gs, rs, S
  <2>4. ASSUME NEW h \in Grupos, grupos[h] = Nada, grupos'[h] # Nada PROVE grupos'[h].tipo # "NORMAL"
    <3>1. gs[h] # Nada /\ grupos'[h].tipo = gs[h].tipo
      BY <1>3, <2>2, <2>3, <2>4, RecalculadosConserva
    <3> QED BY <2>1, <2>2, <2>4, <3>1
  <2> QED BY <2>4 DEF SinClaseNueva
<1> QED BY <1>6, <1>7

LEMMA CrearQueHace ==
    ASSUME IInv, NEW quien, NEW materia, NEW F \in Series,
           NEW E \in SUBSET Equipos, NEW T, CrearReserva(quien, materia, F, E, T)
    PROVE  Conserva /\ NadaSeLibera
<1>1. PICK t \in Relojes :
         \E plan \in PlanesDeReposicion(materia, Solapamientos(E, F), t), G \in SUBSET Libres :
             reservas' = ConFilas(AplicarPlan(reservas, plan), G, E)
  BY DEF CrearReserva
<1>2. PICK plan \in PlanesDeReposicion(materia, Solapamientos(E, F), t), G \in SUBSET Libres :
         reservas' = ConFilas(AplicarPlan(reservas, plan), G, E)
  BY <1>1
<1> DEFINE rs == AplicarPlan(reservas, plan)
<1>3. /\ DOMAIN plan \in SUBSET Ids
      /\ \A i \in DOMAIN plan : Confirmada(i) /\ plan[i] \in Reservables \cup {Nada}
  <2>1. Solapamientos(E, F) \in SUBSET Ids
    BY DEF Solapamientos
  <2> QED BY <2>1, PlanTipo
<1>4. /\ rs \in [Ids -> Reserva \cup {Nada}] /\ SoloCierra(reservas, rs)
  BY <1>3, PlanAplicado DEF IInv
<1>5. \A i \in Ids : reservas[i] # Nada => reservas'[i] = rs[i]
  <2>1. \A i \in Ids : reservas[i] # Nada => i[1] \notin G
    BY DEF IInv, Referencias, Libres
  <2> HIDE DEF rs
  <2> QED BY <1>2, <2>1 DEF ConFilas, rs
<1>6. Conserva
  BY <1>4, <1>5 DEF Conserva, SoloCierra
<1>7. ASSUME NEW i \in Ids, Confirmada(i) PROVE rs[i].estado # "NO_RETIRADA"
  <2>1. reservas[i] \in Reserva /\ reservas[i].estado = "CONFIRMADA"
    BY <1>7, FilaTipo DEF IInv, Confirmada
  <2>2. \/ rs[i] = reservas[i] \/ rs[i] = [reservas[i] EXCEPT !.estado = "CANCELADA"]
        \/ rs[i] = [reservas[i] EXCEPT !.equipo = plan[i]]
    BY DEF AplicarPlan
  <2> HIDE DEF rs
  <2> QED BY <2>1, <2>2 DEF Reserva
<1> QED BY <1>5, <1>6, <1>7 DEF NadaSeLibera, Confirmada

-----------------------------------------------------------------------------
(* What every step is proved to do, and the two ways the calendar can move     *)

PasoAdelanto ==
    \A p \in Prestamos :
        /\ prestamos[p] = Nada /\ prestamos'[p] # Nada
        /\ prestamos'[p].reserva # Nada
        => LET i == prestamos'[p].reserva IN
             ahora < FranjaDe(i).ini =>
                \A j \in Ids \ {i} :
                    /\ Confirmada(j) /\ reservas[j].equipo = prestamos'[p].equipo
                    /\ FranjaDe(j).ini < FranjaDe(i).fin
                    => YaTermino(FranjaDe(j), ahora)

PasoLiberacion ==
    \A i \in Ids :
        /\ Confirmada(i)
        /\ reservas'[i].estado = "NO_RETIRADA"
        => /\ ~FueEntregada(i)
           /\ prestamos' = prestamos => i[1] \in recordados'

PasoCu == PasoDeReservas /\ PasoAdelanto /\ PasoLiberacion

\* Whoever coordinates finds nobody inside: the three transactions take the exclusive lock.
LEMMA SinNadieDentro ==
    ASSUME TypeOKCu, NEW m \in {"compartido", "exclusivo"}, PuedeCoordinar(m)
    PROVE  EnCurso = {} /\ \A p \in Procesos : abierta[p] = Nada
<1>1. \A o \in {"entregar", "recibir", "barrer"} : Modo[o] = "exclusivo"
  BY DEF Modo
<1>2. \A p \in Procesos : abierta[p] # Nada => abierta[p] \in EnCurso /\ abierta[p].op \in {"entregar", "recibir", "barrer"}
  BY DEF EnCurso, TypeOKCu, Transaccion
<1>3. \A a \in EnCurso : Modo[a.op] = "exclusivo"
  BY <1>1, <1>2 DEF EnCurso
<1>4. EnCurso = {}
  BY <1>3 DEF PuedeCoordinar
<1> QED BY <1>2, <1>4

\* What is said of the loans alone.
LEMMA MismosPrestamos ==
    ASSUME UNCHANGED prestamos
    PROVE  /\ \A p \in Prestamos : Abierto(p)' <=> Abierto(p)
           /\ Afuera' = Afuera
           /\ \A i : TuvoEntrega(i)' <=> TuvoEntrega(i)
           /\ \A P : AvisadosSinDevolver(P)' = AvisadosSinDevolver(P)
           /\ AvisadoSigueAfuera' <=> AvisadoSigueAfuera
BY DEF Abierto, Afuera, TuvoEntrega, AvisadosSinDevolver, AvisadoSigueAfuera

\* A coordinated write to the calendar or to the inventory.
LEMMA CalendarioPreserva ==
    ASSUME IInvCu, NEW m \in {"compartido", "exclusivo"}, PuedeCoordinar(m), [Next]_vars,
           UNCHANGED <<prestamos, recordados, abierta, eventos, campana>>,
           Conserva, NadaSeLibera,
           \A p \in Prestamos : Abierto(p) /\ prestamos[p].reserva # Nada =>
               reservas'[prestamos[p].reserva].equipo = reservas[prestamos[p].reserva].equipo,
           deBaja' \subseteq Equipos, \A e \in deBaja' : equipos'[e] = "fuera",
           Afuera \cap deBaja' = {}
    PROVE  IInvCu' /\ PasoCu
<1>1. IInv'
  BY NextIInv DEF IInvCu
<1>2. \A p \in Procesos : abierta[p] = Nada /\ abierta'[p] = Nada
  BY SinNadieDentro DEF IInvCu
<1>3. TypeOKCu'
  BY <1>1 DEF IInvCu, IInv, TypeOKCu
<1>4. UnaSola' /\ LeidoSigueFirme'
  BY <1>2 DEF UnaSola, LeidoSigueFirme
<1>5. PrestamoConReserva'
  BY DEF IInvCu, PrestamoConReserva, Conserva, TypeOKCu, Prestamo
<1>6. ColaVeraz' /\ CampanaVeraz'
  BY MismosPrestamos DEF IInvCu, ColaVeraz, CampanaVeraz
<1>7. LoEntregadoEnSuLugar'
  BY MismosPrestamos DEF IInvCu, LoEntregadoEnSuLugar, EntregadaConservaSuEquipo, NadaAfueraDadoDeBaja
<1>8. PasoCu
  BY DEF PasoCu, PasoDeReservas, PasoAdelanto, PasoLiberacion, NadaSeLibera
<1> QED BY <1>1, <1>3, <1>4, <1>5, <1>6, <1>7, <1>8 DEF IInvCu

\* What a hand-out read outlives the steps that ask for no coordination.
LEMMA EntregaSigueFirme ==
    ASSUME TypeOK, Referencias, NEW a \in Transaccion, EntregaFirme(a),
           UNCHANGED <<prestamos, equipos>>,
           MismosGrupos, EnSuLugar, Conserva, \A i \in Ids : Confirmada(i)' => Confirmada(i),
           \A i \in Ids : reservas[i] # Nada /\ i[1] \in a.grupos => reservas'[i] = reservas[i]
    PROVE  EntregaFirme(a)'
<1>1. /\ a.salen \in SUBSET Ids /\ a.resto \in SUBSET Ids
      /\ \A i \in a.salen \cup a.resto : i[1] \in a.grupos
  BY DEF Transaccion, EntregaFirme, GruposDe
<1>2. \A i \in Ids : reservas[i] # Nada =>
         i[1] \in Grupos /\ FranjaDe(i)' = FranjaDe(i) /\ (EsBloqueo(i)' <=> EsBloqueo(i))
  BY DEF Ids, Referencias, MismosGrupos, FranjaDe, EsBloqueo
<1>3. \A i \in a.salen : reservas[i] # Nada /\ reservas'[i] = reservas[i]
  BY <1>1 DEF EntregaFirme
<1>4. ASSUME NEW i \in a.salen
      PROVE  PuedeSalir(reservas[i].equipo)' /\ ~ImpideAnticipar(i, a.reloj)'
  <2>1. PuedeSalir(reservas[i].equipo)'
    BY <1>3, MismosPrestamos DEF EntregaFirme, PuedeSalir
  <2>2. ~ImpideAnticipar(i, a.reloj) /\ i \in Ids
    BY <1>1 DEF EntregaFirme
  <2>3. \A j \in Ids : Confirmada(j)' =>
           Confirmada(j) /\ reservas'[j].equipo = reservas[j].equipo /\ FranjaDe(j)' = FranjaDe(j)
    BY <1>2 DEF EnSuLugar, Confirmada
  <2>4. FranjaDe(i)' = FranjaDe(i) /\ reservas'[i].equipo = reservas[i].equipo
    BY <1>2, <1>3, <2>2
  <2>5. ~ImpideAnticipar(i, a.reloj)'
    BY <2>2, <2>3, <2>4 DEF ImpideAnticipar, NoTerminadas
  <2> QED BY <2>1, <2>5
<1>5. ASSUME NEW i \in a.resto
      PROVE  /\ Confirmada(i)' /\ ~EsBloqueo(i)' /\ ~TuvoEntrega(i)'
             /\ PuedeEntregarseEn(FranjaDe(i)', reservas'[i].estado, a.reloj)
  <2>1. i \in Ids /\ Confirmada(i) /\ ~EsBloqueo(i) /\ ~TuvoEntrega(i)
        /\ PuedeEntregarseEn(FranjaDe(i), reservas[i].estado, a.reloj)
    BY <1>1 DEF EntregaFirme
  <2>2. reservas'[i] = reservas[i]
    BY <1>1, <2>1 DEF Confirmada
  <2> QED BY <1>2, <2>1, <2>2, MismosPrestamos DEF Confirmada
<1>6. \A i, j \in a.salen : reservas'[i].equipo = reservas'[j].equipo => i = j
  BY <1>3 DEF EntregaFirme
<1>7. a.salen # {} /\ GruposDe(a.salen) \cup GruposDe(a.resto) \subseteq a.grupos
  BY DEF EntregaFirme
<1> QED BY <1>3, <1>4, <1>5, <1>6, <1>7 DEF EntregaFirme, GruposDe

\* A step that asks for no coordination: a cancellation, the sweep of the past, the clock.
LEMMA MientrasTanto ==
    ASSUME IInvCu, Next, UNCHANGED custodia, UNCHANGED equipos,
           MismosGrupos, EnSuLugar, Conserva, NadaSeLibera, SinClaseNueva,
           \A i \in Ids : Confirmada(i)' => Confirmada(i),
           \A i \in Ids : reservas[i] # Nada /\ i[1] \in GruposTomados => reservas'[i] = reservas[i],
           \A p \in Procesos : abierta[p] # Nada => abierta[p].reloj \in Relojes'
    PROVE  IInvCu' /\ PasoCu
<1>1. IInv'
  BY NextIInv DEF IInvCu
<1>2. UNCHANGED <<prestamos, deBaja, recordados, abierta, eventos, campana>>
  BY DEF custodia
<1>3. TypeOKCu' /\ UnaSola' /\ PrestamoConReserva' /\ ColaVeraz' /\ CampanaVeraz'
  <2>1. TypeOKCu' /\ UnaSola'
    BY <1>1, <1>2 DEF IInvCu, IInv, TypeOKCu, UnaSola
  <2>2. PrestamoConReserva'
    BY <1>2 DEF IInvCu, PrestamoConReserva, Conserva, TypeOKCu, Prestamo
  <2> QED BY <1>2, <2>1, <2>2, MismosPrestamos DEF IInvCu, ColaVeraz, CampanaVeraz
<1>4. LoEntregadoEnSuLugar'
  <2>1. \A p \in Prestamos : Abierto(p) /\ prestamos[p].reserva # Nada =>
           prestamos[p].reserva \in Ids /\ reservas[prestamos[p].reserva] # Nada
    BY DEF IInvCu, PrestamoConReserva, TypeOKCu, Prestamo, Abierto
  <2>2. EntregadaConservaSuEquipo'
    BY <1>2, <2>1, MismosPrestamos DEF IInvCu, LoEntregadoEnSuLugar, EntregadaConservaSuEquipo, EnSuLugar
  <2> QED BY <1>2, <2>2, MismosPrestamos DEF IInvCu, LoEntregadoEnSuLugar, NadaAfueraDadoDeBaja
<1>5. LeidoSigueFirme'
  <2> SUFFICES ASSUME NEW p \in Procesos, abierta[p] # Nada
               PROVE  /\ abierta[p].reloj \in Relojes'
                      /\ abierta[p].op = "entregar" => EntregaFirme(abierta[p])'
                      /\ abierta[p].op = "recibir" => DevolucionFirme(abierta[p])'
    BY <1>2 DEF LeidoSigueFirme
  <2>1. PICK a : a = abierta[p]
    OBVIOUS
  <2>2. a \in Transaccion /\ a \in EnCurso /\ abierta'[p] = a /\ a.grupos \subseteq GruposTomados
    BY <1>2, <2>1 DEF IInvCu, TypeOKCu, EnCurso, GruposTomados
  <2>3. ASSUME a.op = "entregar" PROVE EntregaFirme(a)'
    <3>1. EntregaFirme(a)
      BY <2>1, <2>3 DEF IInvCu, LeidoSigueFirme
    <3> QED BY <1>2, <2>2, <3>1, EntregaSigueFirme DEF IInvCu, IInv
  <2>4. ASSUME a.op = "recibir" PROVE DevolucionFirme(a)'
    <3>1. DevolucionFirme(a) /\ a.prestamos \subseteq Prestamos
      BY <2>1, <2>2, <2>4 DEF IInvCu, LeidoSigueFirme, Transaccion
    <3> QED BY <1>2, <3>1, MismosPrestamos DEF DevolucionFirme
  <2> QED BY <2>1, <2>2, <2>3, <2>4
<1>6. PasoCu
  BY <1>2 DEF PasoCu, PasoDeReservas, PasoAdelanto, PasoLiberacion, NadaSeLibera
<1> QED BY <1>1, <1>3, <1>4, <1>5, <1>6 DEF IInvCu

-----------------------------------------------------------------------------
(* Opening a transaction                                                     *)

\* A step that writes no table of Reservas and no loan.
LEMMA NadaEscrito ==
    ASSUME IInvCu, UNCHANGED <<vars, prestamos, deBaja, recordados>>
    PROVE  /\ IInv' /\ PrestamoConReserva' /\ LoEntregadoEnSuLugar'
           /\ Relojes' = Relojes
           /\ \A a : (EntregaFirme(a)' <=> EntregaFirme(a)) /\ (DevolucionFirme(a)' <=> DevolucionFirme(a))
           /\ PasoCu
<1>1. UNCHANGED <<reservas, grupos, equipos, ahora, prestamos, deBaja>>
  BY DEF vars
<1>2. IInv'
  BY NextIInv DEF IInvCu
<1>3. PrestamoConReserva' /\ LoEntregadoEnSuLugar'
  BY <1>1, MismosPrestamos
  DEF IInvCu, PrestamoConReserva, LoEntregadoEnSuLugar, EntregadaConservaSuEquipo, NadaAfueraDadoDeBaja
<1>4. \A a : (EntregaFirme(a)' <=> EntregaFirme(a)) /\ (DevolucionFirme(a)' <=> DevolucionFirme(a))
  BY <1>1 DEF EntregaFirme, DevolucionFirme, PuedeSalir, ImpideAnticipar, NoTerminadas, Confirmada, EsBloqueo,
              FranjaDe, TuvoEntrega, Abierto, Afuera, AvisadosSinDevolver
<1>5. PasoCu
  <2>1. \A i \in Ids : Confirmada(i) => reservas'[i].estado # "NO_RETIRADA"
    BY <1>1 DEF Confirmada
  <2> QED BY <1>1, <2>1 DEF PasoCu, PasoDeReservas, PasoAdelanto, PasoLiberacion
<1> QED BY <1>1, <1>2, <1>3, <1>4, <1>5 DEF Relojes

LEMMA AbrirPreserva ==
    ASSUME IInvCu, NEW p \in Procesos, NEW a \in Transaccion, Abrir(p, a), a.reloj \in Relojes,
           a.op = "entregar" => EntregaFirme(a), a.op = "recibir" => DevolucionFirme(a)
    PROVE  IInvCu' /\ PasoCu
<1>1. /\ abierta' = [abierta EXCEPT ![p] = a] /\ PuedeCoordinar(Modo[a.op])
      /\ UNCHANGED <<vars, prestamos, deBaja, recordados, eventos, campana>>
  BY DEF Abrir
<1>2. a \in Transaccion /\ a # Nada /\ Modo[a.op] \in {"compartido", "exclusivo"}
  BY CustodiaAssumption DEF Transaccion, Modo
<1>3. \A q \in Procesos : abierta[q] = Nada
  BY <1>1, <1>2, SinNadieDentro DEF IInvCu
<1>4. /\ abierta' \in [Procesos -> Transaccion \cup {Nada}]
      /\ abierta'[p] = a /\ \A q \in Procesos \ {p} : abierta'[q] = Nada
  BY <1>1, <1>3 DEF IInvCu, TypeOKCu
<1>5. TypeOKCu'
  BY <1>1, <1>4, NadaEscrito DEF IInvCu, IInv, TypeOKCu, vars
<1>6. UnaSola'
  BY <1>4 DEF UnaSola
<1>7. LeidoSigueFirme'
  <2>1. a.reloj \in Relojes' /\ (a.op = "entregar" => EntregaFirme(a)') /\ (a.op = "recibir" => DevolucionFirme(a)')
    BY <1>1, NadaEscrito
  <2>2. \A q \in Procesos : abierta'[q] # Nada => abierta'[q] = a
    BY <1>4
  <2> SUFFICES ASSUME NEW q \in Procesos, abierta'[q] # Nada
               PROVE  /\ abierta'[q].reloj \in Relojes'
                      /\ abierta'[q].op = "entregar" => EntregaFirme(abierta[q])'
                      /\ abierta'[q].op = "recibir" => DevolucionFirme(abierta[q])'
    BY DEF LeidoSigueFirme
  <2>3. abierta'[q] = a
    BY <2>2
  <2>4. (EntregaFirme(abierta[q])' <=> EntregaFirme(a)') /\ (DevolucionFirme(abierta[q])' <=> DevolucionFirme(a)')
    BY <2>3 DEF EntregaFirme, DevolucionFirme
  <2> QED BY <2>1, <2>3, <2>4
<1>8. ColaVeraz' /\ CampanaVeraz'
  BY <1>1, MismosPrestamos DEF IInvCu, ColaVeraz, CampanaVeraz
<1> QED BY <1>1, <1>5, <1>6, <1>7, <1>8, NadaEscrito DEF IInvCu

LEMMA SinDatosTipo ==
    ASSUME NEW op \in {"entregar", "recibir", "barrer"}, NEW t \in Relojes
    PROVE  SinDatos(op, t) \in Transaccion /\ SinDatos(op, t).op = op /\ SinDatos(op, t).reloj = t
<1>1. t \in Nat
  BY DEF Relojes
<1> QED BY <1>1 DEF SinDatos, Transaccion

LEMMA EmpezarEntregaPreserva ==
    ASSUME IInvCu, NEW p \in Procesos, NEW lote \in SUBSET {i \in Ids : reservas[i] # Nada},
           NEW conNombre \in BOOLEAN, NEW completa \in BOOLEAN, EmpezarEntrega(p, lote, conNombre, completa)
    PROVE  IInvCu' /\ PasoCu
<1>0. PICK t \in Relojes :
         \E S \in SinRepetirEquipo(Entregables(lote, conNombre, t)) :
           /\ S # {}
           /\ Abrir(p, [SinDatos("entregar", t) EXCEPT
                          !.grupos = GruposDe(lote), !.salen = S,
                          !.resto = IF completa THEN ElResto(S, t) ELSE {}])
  BY DEF EmpezarEntrega
<1>1. PICK S \in SinRepetirEquipo(Entregables(lote, conNombre, t)) :
         /\ S # {}
         /\ Abrir(p, [SinDatos("entregar", t) EXCEPT
                        !.grupos = GruposDe(lote), !.salen = S,
                        !.resto = IF completa THEN ElResto(S, t) ELSE {}])
  BY <1>0
<1> DEFINE resto == IF completa THEN ElResto(S, t) ELSE {}
           s == SinDatos("entregar", t)
           a == [s EXCEPT !.grupos = GruposDe(lote), !.salen = S, !.resto = resto]
<1>2. Abrir(p, a)
  BY <1>1
<1>4. S \in SUBSET lote /\ lote \in SUBSET Ids /\ S \in SUBSET Ids /\ \A i \in lote : reservas[i] # Nada
  BY DEF SinRepetirEquipo, Entregables
<1>5. resto \in SUBSET Ids /\ GruposDe(lote) \in SUBSET Grupos
  BY <1>4 DEF ElResto, GruposDe, Ids
<1>6. /\ a \in Transaccion /\ a.op = "entregar" /\ a.reloj = t /\ a.grupos = GruposDe(lote)
      /\ a.salen = S /\ a.resto = resto
  <2>1. s \in Transaccion /\ s.op = "entregar" /\ s.reloj = t
    BY SinDatosTipo
  <2> HIDE DEF resto, s
  <2> QED BY <1>4, <1>5, <2>1 DEF Transaccion
<1> HIDE DEF a
<1>7. \A i \in S : reservas[i] # Nada /\ PuedeSalir(reservas[i].equipo) /\ ~ImpideAnticipar(i, t)
                   /\ PuedeEntregarseEn(FranjaDe(i), reservas[i].estado, t)
  BY <1>4 DEF SinRepetirEquipo, Entregables
<1>8. \A i, j \in S : reservas[i].equipo = reservas[j].equipo => i = j
  BY DEF SinRepetirEquipo
<1>9. ASSUME NEW i \in resto
      PROVE  /\ Confirmada(i) /\ ~EsBloqueo(i) /\ ~TuvoEntrega(i) /\ i[1] \in GruposDe(lote)
             /\ PuedeEntregarseEn(FranjaDe(i), reservas[i].estado, t)
  <2>1. i \in ElResto(S, t)
    BY <1>9
  <2>2. PICK j \in S : ~EsBloqueo(j) /\ i[1] = j[1]
    BY <2>1 DEF ElResto
  <2>3. Confirmada(i) /\ ~TuvoEntrega(i) /\ reservas[i].estado = "CONFIRMADA"
    BY <2>1 DEF ElResto, Confirmada
  <2>4. FranjaDe(i) = FranjaDe(j) /\ (EsBloqueo(i) <=> EsBloqueo(j))
    BY <2>2 DEF FranjaDe, EsBloqueo
  <2>5. PuedeEntregarseEn(FranjaDe(i), "CONFIRMADA", t)
    BY <1>7, <2>2, <2>4 DEF PuedeEntregarseEn
  <2>6. i[1] \in GruposDe(lote)
    BY <1>4, <2>2 DEF GruposDe
  <2> QED BY <2>2, <2>3, <2>4, <2>5, <2>6
<1>10. GruposDe(S) \cup GruposDe(resto) \subseteq GruposDe(lote)
  <2>1. GruposDe(S) \subseteq GruposDe(lote)
    BY <1>4 DEF GruposDe
  <2>2. GruposDe(resto) \subseteq GruposDe(lote)
    <3> HIDE DEF resto
    <3> QED BY <1>9 DEF GruposDe
  <2> QED BY <2>1, <2>2
<1>11. EntregaFirme(a)
  <2> HIDE DEF resto
  <2> QED BY <1>1, <1>6, <1>7, <1>8, <1>9, <1>10 DEF EntregaFirme
<1> QED BY <1>2, <1>6, <1>11, AbrirPreserva

LEMMA EmpezarDevolucionPreserva ==
    ASSUME IInvCu, NEW p \in Procesos, NEW P \in SUBSET Prestamos, EmpezarDevolucion(p, P)
    PROVE  IInvCu' /\ PasoCu
<1>1. PICK t \in Relojes :
         Abrir(p, [SinDatos("recibir", t) EXCEPT !.prestamos = P, !.quedan = AvisadosSinDevolver(P) # {}])
  BY DEF EmpezarDevolucion
<1> DEFINE quedan == AvisadosSinDevolver(P) # {}
           s == SinDatos("recibir", t)
           a == [s EXCEPT !.prestamos = P, !.quedan = quedan]
<1>2. Abrir(p, a)
  BY <1>1
<1>3. /\ a \in Transaccion /\ a.op = "recibir" /\ a.reloj = t /\ a.prestamos = P /\ a.quedan = quedan
  <2>1. quedan \in BOOLEAN /\ s \in Transaccion /\ s.op = "recibir" /\ s.reloj = t
    BY SinDatosTipo
  <2> HIDE DEF quedan, s
  <2> QED BY <2>1 DEF Transaccion
<1> HIDE DEF a
<1>4. DevolucionFirme(a)
  BY <1>3 DEF DevolucionFirme, EmpezarDevolucion
<1> QED BY <1>2, <1>3, <1>4, AbrirPreserva

LEMMA EmpezarBarridoPreserva ==
    ASSUME IInvCu, NEW p \in Procesos, EmpezarBarrido(p)
    PROVE  IInvCu' /\ PasoCu
<1>1. PICK t \in Relojes : Abrir(p, [SinDatos("barrer", t) EXCEPT !.lista = AVigilar(t)])
  BY DEF EmpezarBarrido
<1> DEFINE s == SinDatos("barrer", t)
           a == [s EXCEPT !.lista = AVigilar(t)]
<1>2. Abrir(p, a)
  BY <1>1
<1>3. a \in Transaccion /\ a.op = "barrer" /\ a.reloj = t
  <2>1. AVigilar(t) \in SUBSET Ids
    BY DEF AVigilar
  <2>2. s \in Transaccion /\ s.op = "barrer" /\ s.reloj = t
    BY SinDatosTipo
  <2> HIDE DEF s
  <2> QED BY <2>1, <2>2 DEF Transaccion
<1> HIDE DEF a
<1> QED BY <1>2, <1>3, AbrirPreserva

-----------------------------------------------------------------------------
(* Loans that go out                                                         *)

Salida == [equipo : Equipos, reserva : Ids \cup {Nada}, vence : Nat \cup {Nada}]

\* Registering the devices of filas, none of them out and each of them once, gives each a
\* loan of its own and touches no other.
LEMMA SalenQueHace ==
    ASSUME TypeOKCu, NEW filas \in SUBSET Salida, NEW t \in Nat, Salen(filas, t),
           \A f \in filas : f.equipo \notin Afuera,
           \A f, g \in filas : f.equipo = g.equipo => f = g
    PROVE  /\ prestamos' \in [Prestamos -> Prestamo \cup {Nada}]
           /\ \A p \in Prestamos : prestamos[p] # Nada => prestamos'[p] = prestamos[p]
           /\ \A p \in Prestamos : prestamos[p] = Nada /\ prestamos'[p] # Nada =>
                 \E f \in filas : /\ prestamos'[p].equipo = f.equipo /\ prestamos'[p].reserva = f.reserva
                                  /\ prestamos'[p].avisado = Nada
           /\ \A p, q \in Prestamos :
                 /\ p # q /\ prestamos'[p] # Nada /\ prestamos'[q] # Nada
                 /\ ~prestamos'[p].devuelto /\ ~prestamos'[q].devuelto
                 => prestamos'[p].equipo # prestamos'[q].equipo
           /\ filas # {} => prestamos' # prestamos
<1> DEFINE Fila(f) == [equipo |-> f.equipo, reserva |-> f.reserva, entregadoEn |-> t,
                       vence |-> f.vence, devuelto |-> FALSE, avisado |-> Nada]
<1>1. PICK P \in SUBSET SinRegistrar : \E quien \in Bijection(P, filas) :
         prestamos' = [p \in Prestamos |-> IF p \in P THEN Fila(quien[p]) ELSE prestamos[p]]
  BY DEF Salen
<1>2. PICK quien \in Bijection(P, filas) :
         prestamos' = [p \in Prestamos |-> IF p \in P THEN Fila(quien[p]) ELSE prestamos[p]]
  BY <1>1
<1>3. /\ quien \in [P -> filas] /\ \A f \in filas : \E p \in P : quien[p] = f
      /\ \A p, q \in P : quien[p] = quien[q] => p = q
  BY DEF Bijection, Injection, Surjection, IsInjective
<1>4. P \subseteq Prestamos /\ \A p \in P : prestamos[p] = Nada
  BY DEF SinRegistrar
<1>5. ASSUME NEW f \in filas
      PROVE  /\ Fila(f) \in Prestamo /\ Fila(f) # Nada
             /\ Fila(f).equipo = f.equipo /\ Fila(f).reserva = f.reserva
             /\ Fila(f).avisado = Nada
  <2>1. f.equipo \in Equipos /\ f.reserva \in Ids \cup {Nada} /\ f.vence \in Nat \cup {Nada}
    BY DEF Salida
  <2>2. Fila(f) \in Prestamo
    BY <2>1 DEF Prestamo
  <2> QED BY <2>2, CustodiaAssumption
<1>6. \A p \in P : prestamos'[p] = Fila(quien[p]) /\ quien[p] \in filas
  BY <1>2, <1>3, <1>4
<1>7. \A p \in Prestamos \ P : prestamos'[p] = prestamos[p]
  BY <1>2
<1>8. prestamos' = [p \in Prestamos |-> prestamos'[p]]
  BY <1>2
<1> HIDE DEF Fila
<1>9. \A p \in Prestamos : prestamos'[p] \in Prestamo \cup {Nada}
  BY <1>5, <1>6, <1>7 DEF TypeOKCu
<1>10. prestamos' \in [Prestamos -> Prestamo \cup {Nada}]
  BY <1>8, <1>9
<1>11. ASSUME NEW p \in Prestamos, NEW q \in Prestamos, p # q, prestamos'[p] # Nada, prestamos'[q] # Nada,
              ~prestamos'[p].devuelto, ~prestamos'[q].devuelto
       PROVE  prestamos'[p].equipo # prestamos'[q].equipo
  <2>1. ASSUME NEW x \in P, NEW y \in Prestamos \ P, prestamos'[y] # Nada, ~prestamos'[y].devuelto
        PROVE  prestamos'[x].equipo # prestamos'[y].equipo
    <3>1. prestamos'[x].equipo = quien[x].equipo /\ quien[x] \in filas
      BY <1>5, <1>6
    <3>2. prestamos[y].equipo \in Afuera /\ prestamos'[y] = prestamos[y]
      BY <1>7, <2>1 DEF Afuera, Abierto
    <3> QED BY <3>1, <3>2
  <2>2. CASE p \in P /\ q \in P
    BY <1>3, <1>5, <1>6, <1>11, <2>2
  <2>3. CASE p \in P /\ q \notin P
    BY <1>11, <2>1, <2>3
  <2>4. CASE p \notin P /\ q \in P
    BY <1>11, <2>1, <2>4
  <2>5. CASE p \notin P /\ q \notin P
    BY <1>7, <1>11, <2>5 DEF TypeOKCu
  <2> QED BY <2>2, <2>3, <2>4, <2>5
<1>12. \A p \in Prestamos : prestamos[p] # Nada => prestamos'[p] = prestamos[p]
  BY <1>4, <1>7
<1>13. ASSUME NEW p \in Prestamos, prestamos[p] = Nada, prestamos'[p] # Nada
       PROVE  \E f \in filas : /\ prestamos'[p].equipo = f.equipo /\ prestamos'[p].reserva = f.reserva
                               /\ prestamos'[p].avisado = Nada
  BY <1>5, <1>6, <1>7, <1>13
<1>14. ASSUME filas # {} PROVE prestamos' # prestamos
  <2>1. PICK p \in P : quien[p] \in filas
    BY <1>3, <1>14
  <2> QED BY <1>4, <1>5, <1>6, <2>1
<1> QED BY <1>10, <1>11, <1>12, <1>13, <1>14

\* What the loans say after new ones went out.
LEMMA SalidaPreserva ==
    ASSUME IInvCu, UNCHANGED <<deBaja, eventos, campana>>, Conserva, EnSuLugar,
           \A p \in Prestamos : prestamos[p] # Nada => prestamos'[p] = prestamos[p],
           \A p \in Prestamos : prestamos[p] = Nada /\ prestamos'[p] # Nada =>
               /\ prestamos'[p].avisado = Nada /\ prestamos'[p].equipo \notin deBaja
               /\ prestamos'[p].reserva # Nada =>
                     /\ prestamos'[p].reserva \in Ids /\ reservas[prestamos'[p].reserva] # Nada
                     /\ reservas[prestamos'[p].reserva].equipo = prestamos'[p].equipo
    PROVE  PrestamoConReserva' /\ LoEntregadoEnSuLugar' /\ ColaVeraz' /\ CampanaVeraz'
<1>1. \A p \in Prestamos : prestamos[p] # Nada /\ prestamos[p].reserva # Nada =>
         prestamos[p].reserva \in Ids /\ reservas[prestamos[p].reserva] # Nada
  BY DEF IInvCu, PrestamoConReserva, TypeOKCu, Prestamo
<1>2. PrestamoConReserva'
  BY <1>1 DEF PrestamoConReserva, Conserva
<1>3. EntregadaConservaSuEquipo'
  <2> SUFFICES ASSUME NEW p \in Prestamos, Abierto(p)', prestamos'[p].reserva # Nada
               PROVE  prestamos'[p].equipo = reservas'[prestamos'[p].reserva].equipo
    BY DEF EntregadaConservaSuEquipo
  <2>1. CASE prestamos[p] # Nada
    <3>1. prestamos'[p] = prestamos[p] /\ Abierto(p)
      BY <2>1 DEF Abierto
    <3> QED BY <1>1, <2>1, <3>1 DEF IInvCu, LoEntregadoEnSuLugar, EntregadaConservaSuEquipo, EnSuLugar
  <2>2. CASE prestamos[p] = Nada
    BY <2>2 DEF Abierto, EnSuLugar
  <2> QED BY <2>1, <2>2
<1>4. NadaAfueraDadoDeBaja'
  <2>1. ASSUME NEW p \in Prestamos, Abierto(p)' PROVE prestamos'[p].equipo \notin deBaja
    BY <2>1 DEF Abierto, Afuera, IInvCu, LoEntregadoEnSuLugar, NadaAfueraDadoDeBaja
  <2> QED BY <2>1 DEF NadaAfueraDadoDeBaja, Afuera
<1>5. AvisadoSigueAfuera' <=> AvisadoSigueAfuera
  BY DEF AvisadoSigueAfuera, Abierto
<1>6. ColaVeraz' /\ CampanaVeraz'
  BY <1>5 DEF IInvCu, ColaVeraz, CampanaVeraz
<1> QED BY <1>2, <1>3, <1>4, <1>6 DEF LoEntregadoEnSuLugar

\* Closing a transaction: it was the only one.
LEMMA CerradaPreserva ==
    ASSUME TypeOKCu, UnaSola, NEW p \in Procesos, abierta[p] # Nada, Cerrada(p)
    PROVE  /\ abierta' \in [Procesos -> Transaccion \cup {Nada}]
           /\ \A q \in Procesos : abierta'[q] = Nada
           /\ UnaSola' /\ LeidoSigueFirme'
<1>1. abierta' = [abierta EXCEPT ![p] = Nada] /\ \A q \in Procesos \ {p} : abierta[q] = Nada
  BY DEF Cerrada, UnaSola
<1>2. abierta' \in [Procesos -> Transaccion \cup {Nada}] /\ \A q \in Procesos : abierta'[q] = Nada
  BY <1>1 DEF TypeOKCu
<1> QED BY <1>2 DEF UnaSola, LeidoSigueFirme

\* Writing NO_RETIRADA over classes of the day that are in force is an operation of Reservas.
LEMMA LiberarEsDeReservas ==
    ASSUME IInv, NEW S \in SUBSET Ids, \A i \in S : Confirmada(i) /\ ~EsBloqueo(i),
           NEW t \in Relojes, \A i \in S : PuedeEntregarseEn(FranjaDe(i), reservas[i].estado, t),
           Cerrar(S, "NO_RETIRADA")
    PROVE  PasoDeReservas
<1>1. CASE S = {}
  <2>1. reservas' = reservas /\ grupos' = grupos /\ UNCHANGED <<equipos, ahora>>
    BY <1>1, IInvTablas DEF Cerrar, ConEstado, Recalculados, GruposDe, IInv
  <2> QED BY <2>1 DEF PasoDeReservas, vars
<1>2. CASE S # {}
  <2>1. LiberarReservas(S)
    BY DEF LiberarReservas
  <2>2. \A i \in S : i \in NoTerminadas(0)
    <3> SUFFICES ASSUME NEW i \in S PROVE i \in NoTerminadas(0)
      OBVIOUS
    <3>1. FranjaDe(i) \in Franjas /\ FranjaDe(i).ini \in Nat /\ FranjaDe(i).fin \in Nat
      BY FilaTipo DEF IInv, Confirmada
    <3>2. FranjaDe(i).ini < FranjaDe(i).fin
      BY <3>1, DominioAssumption
    <3> QED BY <3>1, <3>2 DEF NoTerminadas, YaTermino
  <2>3. Liberar
    BY <1>2, <2>1, <2>2 DEF Liberar
  <2> QED BY <2>3 DEF PasoDeReservas, Next
<1> QED BY <1>1, <1>2

LEMMA ConfirmarEntregaPreserva ==
    ASSUME IInvCu, NEW p \in Procesos, ConfirmarEntrega(p)
    PROVE  IInvCu' /\ PasoCu
<1>1. PICK a : a = abierta[p] /\ a # Nada /\ a.op = "entregar"
  BY DEF ConfirmarEntrega, En
<1> DEFINE fila(i) == [equipo |-> reservas[i].equipo, reserva |-> i, vence |-> FranjaDe(i).fin]
           filas == {fila(i) : i \in a.salen}
<1>2. /\ Salen(filas, a.reloj) /\ Cerrar(a.resto, "NO_RETIRADA") /\ Cerrada(p)
      /\ UNCHANGED <<deBaja, recordados, eventos, campana>>
  BY <1>1 DEF ConfirmarEntrega
<1>3. /\ a \in Transaccion /\ a.salen \in SUBSET Ids /\ a.resto \in SUBSET Ids
      /\ a.reloj \in Relojes /\ a.reloj \in Nat /\ EntregaFirme(a)
  BY <1>1 DEF IInvCu, TypeOKCu, LeidoSigueFirme, Transaccion
<1>4. IInv /\ TypeOK /\ Referencias /\ TypeOKCu /\ UnaSola
  BY DEF IInvCu, IInv
<1>5. /\ \A i \in a.resto : /\ Confirmada(i) /\ ~EsBloqueo(i) /\ ~TuvoEntrega(i)
                            /\ PuedeEntregarseEn(FranjaDe(i), reservas[i].estado, a.reloj)
      /\ a.salen # {}
  BY <1>3 DEF EntregaFirme
<1>6. "NO_RETIRADA" \in ReservaTerminal
  BY DEF ReservaTerminal, EstadosReserva
<1>7. /\ Conserva /\ EnSuLugar /\ MismosGrupos /\ SinClaseNueva
      /\ \A i \in Ids \ a.resto : reservas'[i] = reservas[i]
      /\ UNCHANGED <<equipos, ahora>>
  BY <1>2, <1>3, <1>4, <1>5, <1>6, CierreQueHace DEF Cerrar
<1>8. PasoDeReservas
  BY <1>2, <1>3, <1>4, <1>5, LiberarEsDeReservas
<1>9. IInv'
  BY <1>4, <1>8, NextIInv DEF PasoDeReservas
<1>10. ASSUME NEW i \in a.salen
       PROVE  /\ fila(i) \in Salida /\ fila(i).equipo \notin Afuera /\ fila(i).equipo \notin deBaja
              /\ fila(i).equipo = reservas[i].equipo /\ fila(i).reserva = i
              /\ i \in Ids /\ reservas[i] # Nada
  <2>1. i \in Ids /\ reservas[i] # Nada /\ PuedeSalir(reservas[i].equipo)
    BY <1>3 DEF EntregaFirme
  <2>2. reservas[i].equipo \in Equipos /\ FranjaDe(i).fin \in Nat
    BY <1>4, <2>1, FilaTipo DEF Reserva
  <2>3. reservas[i].equipo \notin Afuera /\ reservas[i].equipo \notin deBaja
    BY <1>4, <2>1 DEF PuedeSalir, TypeOKCu
  <2> QED BY <2>1, <2>2, <2>3 DEF Salida
<1>11. \A f, g \in filas : f.equipo = g.equipo => f = g
  <2>1. ASSUME NEW i \in a.salen, NEW j \in a.salen, fila(i).equipo = fila(j).equipo PROVE i = j
    BY <1>3, <1>10, <2>1 DEF EntregaFirme
  <2> QED BY <2>1
<1>12. \A f \in filas : \E i \in a.salen : f = fila(i)
  OBVIOUS
<1>13. filas \in SUBSET Salida /\ filas # {} /\ \A f \in filas : f.equipo \notin Afuera
  <2>1. \A f \in filas : f \in Salida /\ f.equipo \notin Afuera
    <3> SUFFICES ASSUME NEW f \in filas PROVE f \in Salida /\ f.equipo \notin Afuera
      OBVIOUS
    <3>1. PICK i \in a.salen : f = fila(i)
      BY <1>12
    <3> QED BY <1>10, <3>1
  <2>2. filas # {}
    BY <1>5
  <2> QED BY <2>1, <2>2
<1> HIDE DEF filas
<1>14. /\ prestamos' \in [Prestamos -> Prestamo \cup {Nada}]
       /\ \A q \in Prestamos : prestamos[q] # Nada => prestamos'[q] = prestamos[q]
       /\ \A q \in Prestamos : prestamos[q] = Nada /\ prestamos'[q] # Nada =>
             \E f \in filas : /\ prestamos'[q].equipo = f.equipo /\ prestamos'[q].reserva = f.reserva
                              /\ prestamos'[q].avisado = Nada
       /\ \A q, r \in Prestamos :
             /\ q # r /\ prestamos'[q] # Nada /\ prestamos'[r] # Nada
             /\ ~prestamos'[q].devuelto /\ ~prestamos'[r].devuelto
             => prestamos'[q].equipo # prestamos'[r].equipo
       /\ prestamos' # prestamos
  BY <1>2, <1>3, <1>4, <1>11, <1>13, SalenQueHace
<1>15. ASSUME NEW q \in Prestamos, prestamos[q] = Nada, prestamos'[q] # Nada
       PROVE  \E i \in a.salen : /\ prestamos'[q].equipo = reservas[i].equipo /\ prestamos'[q].reserva = i
                                 /\ prestamos'[q].avisado = Nada /\ prestamos'[q].equipo \notin deBaja
  <2>1. PICK f \in filas : /\ prestamos'[q].equipo = f.equipo /\ prestamos'[q].reserva = f.reserva
                           /\ prestamos'[q].avisado = Nada
    BY <1>14, <1>15
  <2>2. PICK i \in a.salen : f = fila(i)
    BY <1>12
  <2> QED BY <1>10, <2>1, <2>2
<1> HIDE DEF fila
<1>16. PrestamoConReserva' /\ LoEntregadoEnSuLugar' /\ ColaVeraz' /\ CampanaVeraz'
  BY <1>2, <1>7, <1>10, <1>14, <1>15, SalidaPreserva
<1>17. /\ abierta' \in [Procesos -> Transaccion \cup {Nada}] /\ UnaSola' /\ LeidoSigueFirme'
  BY <1>1, <1>2, <1>4, CerradaPreserva
<1>18. TypeOKCu'
  <2>1. TypeOK'
    BY <1>9 DEF IInv
  <2> QED BY <1>2, <1>4, <1>7, <1>14, <1>17, <2>1 DEF TypeOKCu
<1>19. PasoAdelanto
  <2> SUFFICES ASSUME NEW q \in Prestamos, prestamos[q] = Nada, prestamos'[q] # Nada,
                      NEW i, i = prestamos'[q].reserva, ahora < FranjaDe(i).ini,
                      NEW j \in Ids \ {i}, Confirmada(j), reservas[j].equipo = prestamos'[q].equipo,
                      FranjaDe(j).ini < FranjaDe(i).fin
               PROVE  YaTermino(FranjaDe(j), ahora)
    BY DEF PasoAdelanto
  <2>1. i \in a.salen /\ reservas[i].equipo = prestamos'[q].equipo
    BY <1>15
  <2>2. ~ImpideAnticipar(i, a.reloj) /\ i \in Ids /\ reservas[i] # Nada
    BY <1>3, <2>1 DEF EntregaFirme
  <2>3. /\ a.reloj <= ahora /\ ahora \in Nat
        /\ FranjaDe(i).ini \in Nat /\ FranjaDe(j).fin \in Nat
    BY <1>3, <1>4, <2>2, FilaTipo, IInvTablas DEF Relojes, Confirmada
  <2>4. YaTermino(FranjaDe(j), a.reloj)
    BY <1>3, <2>1, <2>2, <2>3 DEF ImpideAnticipar, NoTerminadas
  <2> QED BY <1>3, <2>3, <2>4 DEF YaTermino
<1>20. PasoLiberacion
  <2>1. \A i \in Ids : Confirmada(i) /\ reservas'[i].estado = "NO_RETIRADA" => i \in a.resto
    BY <1>7 DEF Confirmada
  <2> QED BY <1>5, <1>14, <2>1 DEF PasoLiberacion, FueEntregada, TuvoEntrega
<1> QED BY <1>8, <1>9, <1>16, <1>17, <1>18, <1>19, <1>20 DEF IInvCu, PasoCu

LEMMA EntregarSueltaPreserva ==
    ASSUME IInvCu, NEW E \in SUBSET Equipos, NEW aReparacion \in BOOLEAN, NEW plazo \in Plazos,
           EntregarSuelta(E, aReparacion, plazo)
    PROVE  IInvCu' /\ PasoCu
<1> DEFINE S == {e \in E : IF aReparacion THEN e \notin deBaja /\ e \notin Afuera ELSE PuedeSalir(e)}
           fila(e) == [equipo |-> e, reserva |-> Nada, vence |-> plazo]
           filas == {fila(e) : e \in S}
<1>1. PICK t \in Relojes : Salen(filas, t)
  BY DEF EntregarSuelta
<1>2. /\ PuedeCoordinar("compartido") /\ S # {}
      /\ UNCHANGED <<vars, deBaja, recordados, abierta, eventos, campana>>
  BY DEF EntregarSuelta
<1>3. UNCHANGED <<reservas, grupos, equipos, ahora>>
  BY <1>2 DEF vars
<1>4. IInv' /\ TypeOKCu /\ t \in Nat /\ plazo \in Nat \cup {Nada}
  BY <1>2, NextIInv, CustodiaAssumption DEF IInvCu, Relojes
<1>5. \A p \in Procesos : abierta[p] = Nada
  BY <1>2, <1>4, SinNadieDentro
<1>6. \A e \in S : e \in Equipos /\ e \notin Afuera /\ e \notin deBaja
  BY <1>4 DEF PuedeSalir, TypeOKCu
<1> HIDE DEF S
<1>7. \A e \in S : fila(e) \in Salida /\ fila(e).equipo = e /\ fila(e).reserva = Nada
  BY <1>4, <1>6 DEF Salida
<1>8. /\ filas \in SUBSET Salida /\ \A f \in filas : f.equipo \notin Afuera
      /\ \A f, g \in filas : f.equipo = g.equipo => f = g
      /\ \A f \in filas : f.equipo \notin deBaja /\ f.reserva = Nada
  BY <1>6, <1>7
<1> HIDE DEF filas
<1>9. /\ prestamos' \in [Prestamos -> Prestamo \cup {Nada}]
      /\ \A q \in Prestamos : prestamos[q] # Nada => prestamos'[q] = prestamos[q]
      /\ \A q \in Prestamos : prestamos[q] = Nada /\ prestamos'[q] # Nada =>
            /\ prestamos'[q].equipo \notin deBaja /\ prestamos'[q].reserva = Nada
            /\ prestamos'[q].avisado = Nada
      /\ \A q, r \in Prestamos :
            /\ q # r /\ prestamos'[q] # Nada /\ prestamos'[r] # Nada
            /\ ~prestamos'[q].devuelto /\ ~prestamos'[r].devuelto
            => prestamos'[q].equipo # prestamos'[r].equipo
  BY <1>1, <1>4, <1>8, SalenQueHace
<1>10. Conserva /\ EnSuLugar
  BY <1>3 DEF Conserva, EnSuLugar
<1>11. PrestamoConReserva' /\ LoEntregadoEnSuLugar' /\ ColaVeraz' /\ CampanaVeraz'
  BY <1>2, <1>9, <1>10, SalidaPreserva
<1>12. TypeOKCu' /\ UnaSola' /\ LeidoSigueFirme'
  <2>1. TypeOK'
    BY <1>4 DEF IInv
  <2> QED BY <1>2, <1>3, <1>4, <1>5, <1>9, <2>1 DEF TypeOKCu, UnaSola, LeidoSigueFirme
<1>13. PasoDeReservas
  BY <1>2, <1>3 DEF PasoDeReservas
<1>14. PasoAdelanto
  BY <1>9 DEF PasoAdelanto
<1>15. PasoLiberacion
  BY <1>3 DEF PasoLiberacion, Confirmada
<1> QED BY <1>4, <1>11, <1>12, <1>13, <1>14, <1>15 DEF IInvCu, PasoCu

\* Receiving writes the loans it read and tells what it counted.
LEMMA ConfirmarDevolucionPreserva ==
    ASSUME IInvCu, NEW p \in Procesos, ConfirmarDevolucion(p)
    PROVE  IInvCu' /\ PasoCu
<1>1. PICK a : a = abierta[p] /\ a # Nada /\ a.op = "recibir"
  BY DEF ConfirmarDevolucion, En
<1>2. /\ prestamos' = [q \in Prestamos |-> IF q \in a.prestamos
                                           THEN [prestamos[q] EXCEPT !.devuelto = TRUE] ELSE prestamos[q]]
      /\ eventos' = Append(eventos, IF a.quedan THEN "quedan" ELSE "volvieron")
      /\ Cerrada(p) /\ UNCHANGED <<vars, deBaja, recordados, campana>>
  BY <1>1 DEF ConfirmarDevolucion
<1>3. a \in Transaccion /\ a.prestamos \in SUBSET Prestamos /\ a.quedan \in BOOLEAN /\ DevolucionFirme(a)
  BY <1>1 DEF IInvCu, TypeOKCu, LeidoSigueFirme, Transaccion
<1>4. IInv /\ IInv' /\ TypeOKCu /\ UnaSola
  BY <1>2, NextIInv DEF IInvCu
<1>5. UNCHANGED <<reservas, grupos, equipos, ahora>>
  BY <1>2 DEF vars
<1>6. ASSUME NEW q \in Prestamos
      PROVE  /\ prestamos'[q] \in Prestamo \cup {Nada}
             /\ prestamos'[q] = Nada <=> prestamos[q] = Nada
             /\ prestamos[q] # Nada => /\ prestamos'[q].equipo = prestamos[q].equipo
                                       /\ prestamos'[q].reserva = prestamos[q].reserva
                                       /\ prestamos'[q].avisado = prestamos[q].avisado
             /\ Abierto(q)' <=> Abierto(q) /\ q \notin a.prestamos
  <2>1. CASE q \notin a.prestamos
    <3>1. prestamos'[q] = prestamos[q]
      BY <1>2, <2>1
    <3> QED BY <1>4, <2>1, <3>1 DEF TypeOKCu, Abierto
  <2>2. CASE q \in a.prestamos
    <3>1. prestamos[q] \in Prestamo /\ prestamos[q] # Nada
      BY <1>3, <1>4, <2>2 DEF DevolucionFirme, Abierto, TypeOKCu
    <3>2. prestamos'[q] = [prestamos[q] EXCEPT !.devuelto = TRUE]
      BY <1>2, <2>2
    <3>3. /\ prestamos'[q] \in Prestamo /\ prestamos'[q].devuelto
          /\ prestamos'[q].equipo = prestamos[q].equipo
          /\ prestamos'[q].reserva = prestamos[q].reserva
          /\ prestamos'[q].avisado = prestamos[q].avisado
      BY <3>1, <3>2 DEF Prestamo
    <3>4. prestamos'[q] # Nada
      BY <3>3, CustodiaAssumption
    <3> QED BY <2>2, <3>1, <3>3, <3>4 DEF Abierto
  <2> QED BY <2>1, <2>2
<1>7. prestamos' \in [Prestamos -> Prestamo \cup {Nada}]
  <2>1. prestamos' = [q \in Prestamos |-> prestamos'[q]]
    BY <1>2
  <2> QED BY <1>6, <2>1
<1>8. eventos' \in Seq(Eventos) /\ Len(eventos') = Len(eventos) + 1
      /\ eventos'[Len(eventos')] = (IF a.quedan THEN "quedan" ELSE "volvieron")
      /\ \A k \in DOMAIN eventos : eventos'[k] = eventos[k]
  BY <1>2, <1>4 DEF TypeOKCu, Eventos
<1>9. /\ abierta' \in [Procesos -> Transaccion \cup {Nada}] /\ UnaSola' /\ LeidoSigueFirme'
  BY <1>1, <1>2, <1>4, CerradaPreserva
<1>10. TypeOKCu'
  <2>1. TypeOK'
    BY <1>4 DEF IInv
  <2>2. \A q, r \in Prestamos :
           /\ q # r /\ prestamos'[q] # Nada /\ prestamos'[r] # Nada
           /\ ~prestamos'[q].devuelto /\ ~prestamos'[r].devuelto
           => prestamos'[q].equipo # prestamos'[r].equipo
    BY <1>4, <1>6 DEF TypeOKCu, Abierto
  <2> QED BY <1>2, <1>4, <1>5, <1>7, <1>8, <1>9, <2>1, <2>2 DEF TypeOKCu
<1>11. PrestamoConReserva' /\ LoEntregadoEnSuLugar'
  <2>1. PrestamoConReserva' /\ EntregadaConservaSuEquipo'
    BY <1>5, <1>6 DEF IInvCu, PrestamoConReserva, LoEntregadoEnSuLugar, EntregadaConservaSuEquipo, Abierto
  <2>2. \A q \in Prestamos : Abierto(q)' => Abierto(q) /\ prestamos'[q].equipo = prestamos[q].equipo
    BY <1>6 DEF Abierto
  <2>3. NadaAfueraDadoDeBaja'
    <3>1. ASSUME NEW q \in Prestamos, Abierto(q)' PROVE prestamos'[q].equipo \notin deBaja
      BY <2>2, <3>1 DEF IInvCu, LoEntregadoEnSuLugar, NadaAfueraDadoDeBaja, Afuera
    <3> QED BY <1>2, <3>1 DEF NadaAfueraDadoDeBaja, Afuera
  <2> QED BY <2>1, <2>3 DEF LoEntregadoEnSuLugar
<1>12. AvisadoSigueAfuera' <=> a.quedan
  <2>1. AvisadoSigueAfuera' <=> AvisadosSinDevolver(a.prestamos) # {}
    BY <1>6 DEF AvisadoSigueAfuera, AvisadosSinDevolver, Abierto
  <2> QED BY <1>3, <2>1 DEF DevolucionFirme
<1>13. a.quedan => AvisadoSigueAfuera
  BY <1>3 DEF DevolucionFirme, AvisadosSinDevolver, AvisadoSigueAfuera
<1>14. ColaVeraz'
  <2>1. eventos' # << >> => (AvisadoSigueAfuera' <=> eventos'[Len(eventos')] # "volvieron")
    BY <1>8, <1>12
  <2>2. ASSUME NEW k \in DOMAIN eventos', eventos'[k] = "quedan"
        PROVE  IF k = 1 THEN campana \in {"sin_leer", "leida"} ELSE eventos'[k - 1] # "volvieron"
    <3>0. Len(eventos) \in Nat /\ DOMAIN eventos = 1..Len(eventos) /\ DOMAIN eventos' = 1..(Len(eventos) + 1)
      BY <1>4, <1>8 DEF TypeOKCu
    <3>1. CASE k \in DOMAIN eventos
      BY <1>8, <2>2, <3>0, <3>1 DEF IInvCu, ColaVeraz
    <3>2. CASE k = Len(eventos) + 1 /\ Len(eventos) > 0
      <4>1. a.quedan /\ AvisadoSigueAfuera
        BY <1>3, <1>8, <1>13, <2>2, <3>2
      <4>2. eventos # << >> /\ eventos[Len(eventos)] # "volvieron"
        BY <1>4, <3>2, <4>1 DEF IInvCu, ColaVeraz, TypeOKCu
      <4> QED BY <1>8, <3>0, <3>2, <4>2
    <3>3. CASE k = Len(eventos) + 1 /\ Len(eventos) = 0
      <4>1. a.quedan /\ AvisadoSigueAfuera
        BY <1>3, <1>8, <1>13, <2>2, <3>3
      <4>2. eventos = << >>
        BY <1>4, <3>3 DEF TypeOKCu
      <4> QED BY <1>4, <3>3, <4>1, <4>2 DEF IInvCu, CampanaVeraz, TypeOKCu
    <3> QED BY <3>0, <3>1, <3>2, <3>3
  <2> QED BY <1>2, <2>1, <2>2 DEF ColaVeraz
<1>15. CampanaVeraz'
  BY <1>4, <1>8 DEF CampanaVeraz, TypeOKCu
<1>16. PasoCu
  <2>1. PasoDeReservas /\ PasoAdelanto
    BY <1>2, <1>5, <1>6 DEF PasoDeReservas, PasoAdelanto
  <2>2. PasoLiberacion
    BY <1>5 DEF PasoLiberacion, Confirmada
  <2> QED BY <2>1, <2>2 DEF PasoCu
<1> QED BY <1>4, <1>9, <1>10, <1>11, <1>14, <1>15, <1>16 DEF IInvCu

\* The sweep writes NO_RETIRADA over what it read again, and announces what it announces.
LEMMA ConfirmarBarridoPreserva ==
    ASSUME IInvCu, NEW p \in Procesos, ConfirmarBarrido(p)
    PROVE  IInvCu' /\ PasoCu
<1>1. PICK a : a = abierta[p] /\ a # Nada /\ a.op = "barrer"
  BY DEF ConfirmarBarrido, En
<1>2. PICK t, S, avisar :
         /\ t = a.reloj /\ S = ParaLiberar(a.lista, t) /\ avisar = ParaAvisar(t)
         /\ recordados' = recordados \cup ParaRecordar(a.lista, t)
         /\ Cerrar(S, "NO_RETIRADA")
         /\ prestamos' = [q \in Prestamos |-> IF q \in avisar THEN [prestamos[q] EXCEPT !.avisado = t]
                                              ELSE prestamos[q]]
         /\ eventos' = IF avisar = {} THEN eventos ELSE Append(eventos, "sin-devolver")
         /\ Cerrada(p) /\ UNCHANGED <<deBaja, campana>>
  BY <1>1 DEF ConfirmarBarrido
<1>3. /\ a \in Transaccion /\ a.lista \in SUBSET Ids /\ t \in Relojes /\ t \in Nat
  BY <1>1, <1>2 DEF IInvCu, TypeOKCu, LeidoSigueFirme, Transaccion
<1>4. IInv /\ TypeOK /\ Referencias /\ TypeOKCu /\ UnaSola
  BY DEF IInvCu, IInv
<1>5. ASSUME NEW i \in S
      PROVE  /\ i \in Ids /\ Confirmada(i) /\ ~EsBloqueo(i) /\ ~TuvoEntrega(i)
             /\ PuedeEntregarseEn(FranjaDe(i), reservas[i].estado, t)
             /\ i[1] \in recordados'
  <2>1. /\ i \in a.lista /\ i \in Ids /\ Confirmada(i) /\ ~EsBloqueo(i) /\ ~TuvoEntrega(i)
        /\ CorrespondeLiberar(FranjaDe(i), Gracia, t)
    BY <1>2, <1>3 DEF ParaLiberar
  <2>2. reservas[i] # Nada /\ reservas[i].estado = "CONFIRMADA"
    BY <2>1 DEF Confirmada
  <2>3. /\ i[1] \in Grupos /\ FranjaDe(i) \in Franjas
        /\ FranjaDe(i).ini \in Nat /\ FranjaDe(i).fin \in Nat /\ FranjaDe(i).dia \in Nat
        /\ grupos[i[1]] \in FilasGrupo \ {Nada}
    BY <1>4, <2>1, <2>2, FilaTipo
  <2>4. FranjaDe(i).dia <= FranjaDe(i).ini
    BY <2>3, DominioAssumption
  <2>5. PuedeEntregarseEn(FranjaDe(i), reservas[i].estado, t)
    BY <1>3, <2>1, <2>2, <2>3, <2>4, CustodiaAssumption DEF PuedeEntregarseEn, CorrespondeLiberar, YaTermino
  <2>6. grupos[i[1]].tipo = "NORMAL"
    BY <2>1, <2>3, ClaseEsGrupo DEF EsBloqueo
  <2>7. CorrespondeRecordar(FranjaDe(i), Anticipo, t)
    BY <1>3, <2>1, <2>3, CustodiaAssumption DEF CorrespondeLiberar, CorrespondeRecordar
  <2>8. i[1] \in recordados'
    BY <1>2, <2>1, <2>6, <2>7 DEF ParaRecordar, GruposDe, FranjaDe
  <2> QED BY <2>1, <2>5, <2>8
<1>6. "NO_RETIRADA" \in ReservaTerminal /\ S \in SUBSET Ids
  BY <1>5 DEF ReservaTerminal, EstadosReserva
<1>7. /\ Conserva /\ EnSuLugar /\ SinClaseNueva
      /\ \A i \in Ids \ S : reservas'[i] = reservas[i]
      /\ UNCHANGED <<equipos, ahora>>
  BY <1>2, <1>4, <1>5, <1>6, CierreQueHace DEF Cerrar
<1>8. PasoDeReservas
  BY <1>2, <1>3, <1>4, <1>5, <1>6, LiberarEsDeReservas
<1>9. IInv'
  BY <1>4, <1>8, NextIInv DEF PasoDeReservas
<1>10. \A q \in avisar : q \in Prestamos /\ Abierto(q) /\ prestamos[q].avisado = Nada
  BY <1>2 DEF ParaAvisar, EntraEnElCorte
<1>11. ASSUME NEW q \in Prestamos
       PROVE  /\ prestamos'[q] \in Prestamo \cup {Nada}
              /\ prestamos'[q] = Nada <=> prestamos[q] = Nada
              /\ prestamos[q] # Nada => /\ prestamos'[q].equipo = prestamos[q].equipo
                                        /\ prestamos'[q].reserva = prestamos[q].reserva
                                        /\ prestamos'[q].devuelto = prestamos[q].devuelto
              /\ q \in avisar => prestamos'[q].avisado # Nada
              /\ q \notin avisar => prestamos'[q] = prestamos[q]
  <2>1. CASE q \notin avisar
    <3>1. prestamos'[q] = prestamos[q]
      BY <1>2, <2>1
    <3> QED BY <1>4, <2>1, <3>1 DEF TypeOKCu
  <2>2. CASE q \in avisar
    <3>1. prestamos[q] \in Prestamo /\ prestamos[q] # Nada
      BY <1>4, <1>10, <2>2 DEF Abierto, TypeOKCu
    <3>2. prestamos'[q] = [prestamos[q] EXCEPT !.avisado = t]
      BY <1>2, <2>2
    <3>3. /\ prestamos'[q] \in Prestamo /\ prestamos'[q].avisado = t
          /\ prestamos'[q].equipo = prestamos[q].equipo
          /\ prestamos'[q].reserva = prestamos[q].reserva
          /\ prestamos'[q].devuelto = prestamos[q].devuelto
      BY <1>3, <3>1, <3>2 DEF Prestamo
    <3>4. prestamos'[q] # Nada /\ t # Nada
      BY <1>3, <3>3, CustodiaAssumption
    <3> QED BY <2>2, <3>1, <3>3, <3>4
  <2> QED BY <2>1, <2>2
<1>12. prestamos' \in [Prestamos -> Prestamo \cup {Nada}]
  <2>1. prestamos' = [q \in Prestamos |-> prestamos'[q]]
    BY <1>2
  <2> QED BY <1>11, <2>1
<1>13. \A q \in Prestamos : Abierto(q)' <=> Abierto(q)
  BY <1>11 DEF Abierto
<1>14. /\ abierta' \in [Procesos -> Transaccion \cup {Nada}] /\ UnaSola' /\ LeidoSigueFirme'
  BY <1>1, <1>2, <1>4, CerradaPreserva
<1>15. TypeOKCu'
  <2>1. TypeOK'
    BY <1>9 DEF IInv
  <2>2. \A q, r \in Prestamos :
           /\ q # r /\ prestamos'[q] # Nada /\ prestamos'[r] # Nada
           /\ ~prestamos'[q].devuelto /\ ~prestamos'[r].devuelto
           => prestamos'[q].equipo # prestamos'[r].equipo
    BY <1>4, <1>11 DEF TypeOKCu
  <2>3. recordados' \subseteq Grupos
    BY <1>2, <1>3, <1>4 DEF TypeOKCu, ParaRecordar, GruposDe, Ids
  <2>4. eventos' \in Seq(Eventos)
    BY <1>2, <1>4 DEF TypeOKCu, Eventos
  <2> QED BY <1>2, <1>4, <1>7, <1>12, <1>14, <2>1, <2>2, <2>3, <2>4 DEF TypeOKCu
<1>16. PrestamoConReserva' /\ LoEntregadoEnSuLugar'
  <2>1. \A q \in Prestamos : prestamos[q] # Nada /\ prestamos[q].reserva # Nada =>
           prestamos[q].reserva \in Ids /\ reservas[prestamos[q].reserva] # Nada
    BY <1>4 DEF IInvCu, PrestamoConReserva, TypeOKCu, Prestamo
  <2>2. PrestamoConReserva'
    BY <1>7, <1>11, <2>1 DEF PrestamoConReserva, Conserva
  <2>3. \A q \in Prestamos : Abierto(q)' => /\ Abierto(q) /\ prestamos[q] # Nada
                                            /\ prestamos'[q].equipo = prestamos[q].equipo
                                            /\ prestamos'[q].reserva = prestamos[q].reserva
    BY <1>11, <1>13 DEF Abierto
  <2>4. EntregadaConservaSuEquipo'
    BY <1>7, <2>1, <2>3 DEF IInvCu, LoEntregadoEnSuLugar, EntregadaConservaSuEquipo, EnSuLugar
  <2>5. NadaAfueraDadoDeBaja'
    <3>1. ASSUME NEW q \in Prestamos, Abierto(q)' PROVE prestamos'[q].equipo \notin deBaja
      BY <2>3, <3>1 DEF IInvCu, LoEntregadoEnSuLugar, NadaAfueraDadoDeBaja, Afuera
    <3> QED BY <1>2, <3>1 DEF NadaAfueraDadoDeBaja, Afuera
  <2> QED BY <2>2, <2>4, <2>5 DEF LoEntregadoEnSuLugar
<1>17. ColaVeraz' /\ CampanaVeraz'
  <2>1. CASE avisar = {}
    <3>1. eventos' = eventos /\ \A q \in Prestamos : prestamos'[q] = prestamos[q]
      BY <1>2, <1>11, <2>1
    <3>2. AvisadoSigueAfuera' <=> AvisadoSigueAfuera
      BY <1>13, <3>1 DEF AvisadoSigueAfuera
    <3> QED BY <1>2, <3>1, <3>2 DEF IInvCu, ColaVeraz, CampanaVeraz
  <2>2. CASE avisar # {}
    <3>1. AvisadoSigueAfuera'
      BY <1>10, <1>11, <1>13, <2>2 DEF AvisadoSigueAfuera
    <3>2. /\ Len(eventos') = Len(eventos) + 1 /\ Len(eventos) \in Nat
          /\ DOMAIN eventos = 1..Len(eventos) /\ DOMAIN eventos' = 1..(Len(eventos) + 1)
          /\ eventos'[Len(eventos')] = "sin-devolver"
          /\ \A k \in DOMAIN eventos : eventos'[k] = eventos[k]
      BY <1>2, <1>4, <2>2 DEF TypeOKCu
    <3>3. ASSUME NEW k \in DOMAIN eventos', eventos'[k] = "quedan"
          PROVE  IF k = 1 THEN campana \in {"sin_leer", "leida"} ELSE eventos'[k - 1] # "volvieron"
      <4>1. k \in DOMAIN eventos
        BY <3>2, <3>3
      <4> QED BY <3>2, <3>3, <4>1 DEF IInvCu, ColaVeraz
    <3>4. eventos' # << >>
      BY <1>2, <1>4, <2>2 DEF TypeOKCu
    <3>5. ColaVeraz'
      BY <1>2, <3>1, <3>2, <3>3 DEF ColaVeraz
    <3> QED BY <3>4, <3>5 DEF CampanaVeraz
  <2> QED BY <2>1, <2>2
<1>18. PasoAdelanto
  BY <1>11 DEF PasoAdelanto
<1>19. PasoLiberacion
  <2>1. \A i \in Ids : Confirmada(i) /\ reservas'[i].estado = "NO_RETIRADA" => i \in S
    BY <1>7 DEF Confirmada
  <2> QED BY <1>5, <2>1 DEF PasoLiberacion, FueEntregada, TuvoEntrega
<1> QED BY <1>8, <1>9, <1>14, <1>15, <1>16, <1>17, <1>18, <1>19 DEF IInvCu, PasoCu

-----------------------------------------------------------------------------
(* The bell                                                                  *)

\* Every event of the notice is delivered to a bell it is about.
LEMMA EntregarAvisoPreserva ==
    ASSUME IInvCu, EntregarAviso
    PROVE  IInvCu' /\ PasoCu
<1>1. /\ eventos # << >> /\ eventos' = Tail(eventos)
      /\ UNCHANGED <<vars, prestamos, deBaja, recordados, abierta>>
  BY DEF EntregarAviso
<1>2. TypeOKCu /\ eventos \in Seq(Eventos) /\ Len(eventos) \in Nat /\ Len(eventos) > 0
  BY <1>1 DEF IInvCu, TypeOKCu
<1>3. /\ eventos' \in Seq(Eventos) /\ Len(eventos') = Len(eventos) - 1
      /\ DOMAIN eventos' = 1..(Len(eventos) - 1) /\ DOMAIN eventos = 1..Len(eventos)
      /\ \A k \in 1..(Len(eventos) - 1) : eventos'[k] = eventos[k + 1]
      /\ Head(eventos) = eventos[1]
  BY <1>1, <1>2
<1>4. /\ eventos[1] \in Eventos
      /\ eventos[1] = "sin-devolver" => campana' = "sin_leer"
      /\ eventos[1] = "quedan" => campana' = campana
      /\ eventos[1] = "volvieron" => campana' = IF campana = "sin_leer" THEN "cerrada" ELSE campana
  BY <1>2, <1>3 DEF EntregarAviso, Eventos
<1>5. campana \in {"ninguna", "sin_leer", "leida", "cerrada"} /\ campana' \in {"ninguna", "sin_leer", "leida", "cerrada"}
  BY <1>2, <1>4 DEF TypeOKCu, Eventos
<1>6. AvisadoSigueAfuera' <=> AvisadoSigueAfuera
  BY <1>1, MismosPrestamos
<1>7. eventos[1] # "volvieron" => campana' \in {"sin_leer", "leida"}
  BY <1>2, <1>3, <1>4 DEF IInvCu, ColaVeraz, Eventos
<1>8. eventos' # << >> <=> Len(eventos) > 1
  BY <1>2, <1>3
<1>9. ColaVeraz'
  <2>1. eventos' # << >> => (AvisadoSigueAfuera' <=> eventos'[Len(eventos')] # "volvieron")
    <3> HAVE eventos' # << >>
    <3>1. eventos'[Len(eventos')] = eventos[Len(eventos)]
      BY <1>2, <1>3, <1>8
    <3> QED BY <1>1, <1>6, <3>1 DEF IInvCu, ColaVeraz
  <2>2. ASSUME NEW k \in DOMAIN eventos', eventos'[k] = "quedan"
        PROVE  IF k = 1 THEN campana' \in {"sin_leer", "leida"} ELSE eventos'[k - 1] # "volvieron"
    <3>1. k + 1 \in DOMAIN eventos /\ eventos[k + 1] = "quedan" /\ k \in Nat /\ k >= 1
      BY <1>2, <1>3, <2>2
    <3>2. eventos[(k + 1) - 1] # "volvieron"
      BY <3>1 DEF IInvCu, ColaVeraz
    <3>3. eventos[k] # "volvieron"
      BY <3>1, <3>2
    <3>4. CASE k = 1
      BY <1>7, <3>3, <3>4
    <3>5. CASE k # 1
      <4>1. eventos'[k - 1] = eventos[(k - 1) + 1] /\ (k - 1) + 1 = k
        BY <1>2, <1>3, <2>2, <3>1, <3>5
      <4> QED BY <3>3, <3>5, <4>1
    <3> QED BY <3>4, <3>5
  <2> QED BY <2>1, <2>2 DEF ColaVeraz
<1>10. CampanaVeraz'
  <2> SUFFICES ASSUME eventos' = << >>
               PROVE  /\ campana' = "sin_leer" => AvisadoSigueAfuera'
                      /\ campana' \in {"ninguna", "cerrada"} => ~AvisadoSigueAfuera'
    BY DEF CampanaVeraz
  <2>1. Len(eventos) = 1
    <3>1. ~(Len(eventos) > 1)
      BY <1>8
    <3>2. PICK n \in Nat : n = Len(eventos) /\ n > 0
      BY <1>2
    <3>3. n = 1
      BY <3>1, <3>2
    <3> QED BY <3>2, <3>3
  <2>2. AvisadoSigueAfuera' <=> eventos[1] # "volvieron"
    BY <1>1, <1>6, <2>1 DEF IInvCu, ColaVeraz
  <2>3. eventos[1] = "volvieron" => campana' # "sin_leer"
    BY <1>4
  <2> QED BY <1>7, <2>2, <2>3
<1>11. /\ IInv' /\ PrestamoConReserva' /\ LoEntregadoEnSuLugar' /\ PasoCu /\ Relojes' = Relojes
       /\ \A a : (EntregaFirme(a)' <=> EntregaFirme(a)) /\ (DevolucionFirme(a)' <=> DevolucionFirme(a))
  BY <1>1, NadaEscrito
<1>12. TypeOKCu'
  BY <1>1, <1>2, <1>3, <1>5, <1>11 DEF IInv, TypeOKCu, vars
<1>13. UnaSola' /\ LeidoSigueFirme'
  BY <1>1, <1>11 DEF IInvCu, UnaSola, LeidoSigueFirme
<1> QED BY <1>9, <1>10, <1>11, <1>12, <1>13 DEF IInvCu

LEMMA LeerAvisoPreserva ==
    ASSUME IInvCu, LeerAviso
    PROVE  IInvCu' /\ PasoCu
<1>1. /\ campana = "sin_leer" /\ campana' = "leida"
      /\ UNCHANGED <<vars, prestamos, deBaja, recordados, abierta, eventos>>
  BY DEF LeerAviso
<1>2. /\ IInv' /\ PrestamoConReserva' /\ LoEntregadoEnSuLugar' /\ PasoCu /\ Relojes' = Relojes
      /\ \A a : (EntregaFirme(a)' <=> EntregaFirme(a)) /\ (DevolucionFirme(a)' <=> DevolucionFirme(a))
  BY <1>1, NadaEscrito
<1>3. TypeOKCu'
  BY <1>1, <1>2 DEF IInvCu, IInv, TypeOKCu, vars
<1>4. UnaSola' /\ LeidoSigueFirme'
  BY <1>1, <1>2 DEF IInvCu, UnaSola, LeidoSigueFirme
<1>5. ColaVeraz' /\ CampanaVeraz'
  BY <1>1, MismosPrestamos DEF IInvCu, ColaVeraz, CampanaVeraz
<1> QED BY <1>2, <1>3, <1>4, <1>5 DEF IInvCu

-----------------------------------------------------------------------------
(* The operations of Reservas and of the inventory                           *)

\* A closing that is not NO_RETIRADA.
LEMMA CierreSinLiberar ==
    ASSUME IInvCu, NEW S \in SUBSET Ids, \A i \in S : Confirmada(i),
           NEW estado \in {"CANCELADA", "FINALIZADA"},
           reservas' = ConEstado(reservas, S, estado),
           grupos' = Recalculados(grupos, reservas', GruposDe(S))
    PROVE  /\ Conserva /\ EnSuLugar /\ NadaSeLibera /\ MismosGrupos /\ SinClaseNueva
           /\ \A i \in Ids : Confirmada(i)' => Confirmada(i)
<1>1. estado \in ReservaTerminal /\ TypeOK /\ Referencias
  BY DEF ReservaTerminal, EstadosReserva, IInvCu, IInv
<1>2. /\ Conserva /\ EnSuLugar /\ MismosGrupos /\ SinClaseNueva
      /\ \A i \in Ids \ S : reservas'[i] = reservas[i]
      /\ \A i \in S : reservas'[i].estado = estado
      /\ \A i \in Ids : Confirmada(i)' => Confirmada(i)
  BY <1>1, CierreQueHace
<1>3. NadaSeLibera
  BY <1>2 DEF NadaSeLibera, Confirmada
<1> QED BY <1>2, <1>3

\* Who keeps every row on its device keeps those that were handed out.
LEMMA EnSuLugarBasta ==
    ASSUME IInvCu, EnSuLugar
    PROVE  \A p \in Prestamos : Abierto(p) /\ prestamos[p].reserva # Nada =>
               reservas'[prestamos[p].reserva].equipo = reservas[prestamos[p].reserva].equipo
<1>1. \A p \in Prestamos : Abierto(p) /\ prestamos[p].reserva # Nada =>
         prestamos[p].reserva \in Ids /\ reservas[prestamos[p].reserva] # Nada
  BY DEF IInvCu, PrestamoConReserva, TypeOKCu, Prestamo, Abierto
<1> QED BY <1>1 DEF EnSuLugar

LEMMA SinTocarTablas ==
    ASSUME UNCHANGED <<reservas, grupos>>
    PROVE  Conserva /\ EnSuLugar /\ NadaSeLibera /\ SinClaseNueva
BY DEF Conserva, EnSuLugar, NadaSeLibera, SinClaseNueva, Confirmada

LEMMA SacarQueHace ==
    ASSUME IInvCu, NEW e \in Equipos, SacarDeCirculacion(e)
    PROVE  /\ Conserva /\ EnSuLugar /\ NadaSeLibera /\ SinClaseNueva
           /\ \A d \in Equipos : equipos'[d] = IF d = e THEN "fuera" ELSE equipos[d]
<1>1. PICK t \in Relojes :
         LET S == {i \in NoTerminadas(t) : reservas[i].equipo = e} IN
           /\ reservas' = ConEstado(reservas, S, "CANCELADA")
           /\ grupos' = Recalculados(grupos, reservas', GruposDe(S))
  BY DEF SacarDeCirculacion
<1>2. PICK S : /\ S = {i \in NoTerminadas(t) : reservas[i].equipo = e}
               /\ reservas' = ConEstado(reservas, S, "CANCELADA")
               /\ grupos' = Recalculados(grupos, reservas', GruposDe(S))
  BY <1>1
<1>3. S \in SUBSET Ids /\ \A i \in S : Confirmada(i)
  BY <1>2 DEF NoTerminadas
<1>4. \A d \in Equipos : equipos'[d] = IF d = e THEN "fuera" ELSE equipos[d]
  BY DEF SacarDeCirculacion, IInvCu, TypeOKCu, TypeOK
<1> QED BY <1>2, <1>3, <1>4, CierreSinLiberar

LEMMA CrearCuPreserva ==
    ASSUME IInvCu, CrearCu
    PROVE  IInvCu' /\ PasoCu
<1>1. PICK quien \in Usuarios, materia \in Materias, F \in Series, E \in (SUBSET Equipos) \ {{}} :
         \E T \in SUBSET E :
           /\ CrearReserva(quien, materia, F, E, T)
           /\ NoDesplazaLoEntregado
           /\ Coordinada(IF T = {} THEN "compartido" ELSE "exclusivo")
           /\ UNCHANGED custodia
  BY DEF CrearCu
<1>2. PICK T \in SUBSET E :
           /\ CrearReserva(quien, materia, F, E, T)
           /\ NoDesplazaLoEntregado
           /\ Coordinada(IF T = {} THEN "compartido" ELSE "exclusivo")
           /\ UNCHANGED custodia
  BY <1>1
<1>3. PICK m \in {"compartido", "exclusivo"} : PuedeCoordinar(m)
  BY <1>2 DEF Coordinada
<1>4. Next /\ UNCHANGED equipos
  BY <1>2 DEF Next, Crear, CrearReserva
<1>5. Conserva /\ NadaSeLibera
  BY <1>2, CrearQueHace DEF IInvCu
<1>6. \A p \in Prestamos : Abierto(p) /\ prestamos[p].reserva # Nada =>
         reservas'[prestamos[p].reserva].equipo = reservas[prestamos[p].reserva].equipo
  <2>1. \A p \in Prestamos : Abierto(p) /\ prestamos[p].reserva # Nada =>
           prestamos[p].reserva \in Ids /\ TuvoEntrega(prestamos[p].reserva)
    BY DEF IInvCu, TypeOKCu, Prestamo, Abierto, TuvoEntrega
  <2> QED BY <1>2, <2>1 DEF NoDesplazaLoEntregado
<1>7. /\ UNCHANGED <<prestamos, deBaja, recordados, abierta, eventos, campana>>
      /\ deBaja' \subseteq Equipos /\ \A e \in deBaja' : equipos'[e] = "fuera"
      /\ Afuera \cap deBaja' = {}
  BY <1>2, <1>4 DEF custodia, IInvCu, TypeOKCu, LoEntregadoEnSuLugar, NadaAfueraDadoDeBaja
<1> QED BY <1>3, <1>4, <1>5, <1>6, <1>7, CalendarioPreserva

LEMMA CambiarCuPreserva ==
    ASSUME IInvCu, CambiarCu
    PROVE  IInvCu' /\ PasoCu
<1>1. PICK quien \in Usuarios, i \in Ids, nuevo \in Equipos, soloEsta \in BOOLEAN :
         /\ CambiarEquipo(quien, i, nuevo, soloEsta)
         /\ \A j \in IF soloEsta THEN {i} ELSE SerieDesde(i) \cup {i} : ~TuvoEntrega(j)
         /\ Coordinada("compartido") /\ UNCHANGED custodia
  BY DEF CambiarCu
<1>2. Next /\ UNCHANGED equipos
  BY <1>1 DEF Next, Cambiar, CambiarEquipo
<1>3. /\ Conserva /\ NadaSeLibera /\ SinClaseNueva
      /\ \A j \in Ids \ (IF soloEsta THEN {i} ELSE SerieDesde(i) \cup {i}) : reservas'[j] = reservas[j]
  BY <1>1, CambiarQueHace DEF IInvCu
<1>4. \A p \in Prestamos : Abierto(p) /\ prestamos[p].reserva # Nada =>
         reservas'[prestamos[p].reserva].equipo = reservas[prestamos[p].reserva].equipo
  <2>1. \A p \in Prestamos : Abierto(p) /\ prestamos[p].reserva # Nada =>
           prestamos[p].reserva \in Ids /\ TuvoEntrega(prestamos[p].reserva)
    BY DEF IInvCu, TypeOKCu, Prestamo, Abierto, TuvoEntrega
  <2> QED BY <1>1, <1>3, <2>1
<1>5. /\ UNCHANGED <<prestamos, deBaja, recordados, abierta, eventos, campana>>
      /\ deBaja' \subseteq Equipos /\ \A e \in deBaja' : equipos'[e] = "fuera"
      /\ Afuera \cap deBaja' = {}
  BY <1>1, <1>2 DEF custodia, IInvCu, TypeOKCu, LoEntregadoEnSuLugar, NadaAfueraDadoDeBaja
<1>6. PuedeCoordinar("compartido")
  BY <1>1 DEF Coordinada
<1> QED BY <1>2, <1>3, <1>4, <1>5, <1>6, CalendarioPreserva

\* A block, its lifting and the two cascades: rows are closed or added, none moves.
LEMMA CoordinadaPreserva ==
    ASSUME IInvCu, NEW m \in {"compartido", "exclusivo"}, Coordinada(m), Next, UNCHANGED custodia,
           UNCHANGED equipos, Conserva, EnSuLugar, NadaSeLibera, SinClaseNueva
    PROVE  IInvCu' /\ PasoCu
<1>1. /\ UNCHANGED <<prestamos, deBaja, recordados, abierta, eventos, campana>>
      /\ deBaja' \subseteq Equipos /\ \A e \in deBaja' : equipos'[e] = "fuera"
      /\ Afuera \cap deBaja' = {}
  BY DEF custodia, IInvCu, TypeOKCu, LoEntregadoEnSuLugar, NadaAfueraDadoDeBaja
<1>2. PuedeCoordinar(m)
  BY DEF Coordinada
<1> QED BY <1>1, <1>2, EnSuLugarBasta, CalendarioPreserva

LEMMA BloquearCuPreserva ==
    ASSUME IInvCu, BloquearCu
    PROVE  IInvCu' /\ PasoCu
<1>1. Coordinada("compartido") /\ UNCHANGED custodia /\ Next
  BY DEF BloquearCu, Next
<1>2. CASE Bloquear
  <2>1. PICK quien \in Usuarios, f \in Franjas, E \in (SUBSET Equipos) \ {{}} : BloquearEquipos(quien, f, E)
    BY <1>2 DEF Bloquear
  <2>2. Conserva /\ EnSuLugar /\ NadaSeLibera /\ SinClaseNueva /\ UNCHANGED equipos
    BY <2>1, BloquearQueHace DEF IInvCu, BloquearEquipos
  <2> QED BY <1>1, <2>2, CoordinadaPreserva
<1>3. CASE Levantar
  <2>1. PICK quien \in Usuarios, g \in Grupos : LevantarBloqueo(quien, g)
    BY <1>3 DEF Levantar
  <2>2. PICK S : S = {i \in Ids : i[1] = g /\ Confirmada(i)} /\ Cerrar(S, "CANCELADA")
    BY <2>1 DEF LevantarBloqueo
  <2>3. Conserva /\ EnSuLugar /\ NadaSeLibera /\ SinClaseNueva /\ UNCHANGED equipos
    BY <2>2, CierreSinLiberar DEF Cerrar
  <2> QED BY <1>1, <2>3, CoordinadaPreserva
<1> QED BY <1>2, <1>3 DEF BloquearCu

LEMMA CascadaCuPreserva ==
    ASSUME IInvCu, CascadaCu
    PROVE  IInvCu' /\ PasoCu
<1>1. Coordinada("exclusivo") /\ UNCHANGED custodia /\ Next
  BY DEF CascadaCu, Next
<1>2. PICK S \in SUBSET Ids : (\A i \in S : Confirmada(i)) /\ Cerrar(S, "CANCELADA")
  <2>1. CASE QuedarSinDocente
    <3>1. PICK m \in Materias, t \in Relojes :
             Cerrar({i \in NoTerminadas(t) : ~EsBloqueo(i) /\ grupos[i[1]].materia = m}, "CANCELADA")
      BY <2>1 DEF QuedarSinDocente, CancelarFuturasDeMateria
    <3>2. PICK T : T = {i \in NoTerminadas(t) : ~EsBloqueo(i) /\ grupos[i[1]].materia = m}
                   /\ Cerrar(T, "CANCELADA")
      BY <3>1
    <3>3. T \in SUBSET Ids /\ \A i \in T : Confirmada(i)
      BY <3>2 DEF NoTerminadas
    <3> QED BY <3>2, <3>3
  <2>2. CASE CambiarJornada
    <3>1. PICK T \in SUBSET NoTerminadas(0) : CancelarPorIDs(T)
      BY <2>2 DEF CambiarJornada
    <3> QED BY <3>1 DEF CancelarPorIDs, NoTerminadas
  <2> QED BY <2>1, <2>2 DEF CascadaCu
<1>3. Conserva /\ EnSuLugar /\ NadaSeLibera /\ SinClaseNueva /\ UNCHANGED equipos
  BY <1>2, CierreSinLiberar DEF Cerrar
<1> QED BY <1>1, <1>3, CoordinadaPreserva

\* The inventory: what changes is which devices are discharged or out of circulation.
LEMMA InventarioPreserva ==
    ASSUME IInvCu, PuedeCoordinar("exclusivo"), [Next]_vars,
           UNCHANGED <<prestamos, recordados, abierta, eventos, campana>>,
           Conserva, EnSuLugar, NadaSeLibera, SinClaseNueva,
           deBaja' \subseteq Equipos, \A e \in deBaja' : equipos'[e] = "fuera",
           Afuera \cap deBaja' = {}
    PROVE  IInvCu' /\ PasoCu
BY EnSuLugarBasta, CalendarioPreserva

LEMMA InventarioCuPreserva ==
    ASSUME IInvCu, InventarioCu
    PROVE  IInvCu' /\ PasoCu
<1>1. PICK e \in Editables : \/ SacarDeCirculacion(e)
                             \/ e \notin deBaja /\ \E c \in Condiciones : CambiarCondicion(e, c)
  BY DEF InventarioCu
<1>2. /\ PuedeCoordinar("exclusivo") /\ e \in Equipos
      /\ UNCHANGED <<prestamos, deBaja, recordados, abierta, eventos, campana>>
  BY CustodiaAssumption DEF InventarioCu, Coordinada, custodia
<1>3. /\ deBaja \subseteq Equipos /\ \A d \in deBaja : equipos[d] = "fuera"
      /\ Afuera \cap deBaja = {} /\ equipos \in [Equipos -> Condiciones]
  BY DEF IInvCu, TypeOKCu, TypeOK, LoEntregadoEnSuLugar, NadaAfueraDadoDeBaja
<1>4. CASE SacarDeCirculacion(e)
  <2>1. Next
    BY <1>2, <1>4 DEF Next, Sacar
  <2>2. \A d \in deBaja' : equipos'[d] = "fuera"
    BY <1>2, <1>3, <1>4, SacarQueHace
  <2> QED BY <1>2, <1>3, <1>4, <2>1, <2>2, SacarQueHace, InventarioPreserva
<1>5. CASE e \notin deBaja /\ \E c \in Condiciones : CambiarCondicion(e, c)
  <2>1. PICK c \in Condiciones : CambiarCondicion(e, c)
    BY <1>5
  <2>2. Next /\ UNCHANGED <<reservas, grupos>> /\ \A d \in deBaja' : equipos'[d] = "fuera"
    BY <1>2, <1>3, <1>5, <2>1 DEF Next, Condicion, CambiarCondicion
  <2> QED BY <1>2, <1>3, <2>2, SinTocarTablas, InventarioPreserva
<1> QED BY <1>1, <1>4, <1>5

LEMMA DarDeBajaPreserva ==
    ASSUME IInvCu, NEW e \in Editables, DarDeBaja(e)
    PROVE  IInvCu' /\ PasoCu
<1>1. /\ PuedeCoordinar("exclusivo") /\ e \in Equipos /\ deBaja' = deBaja \cup {e}
      /\ UNCHANGED <<prestamos, recordados, abierta, eventos, campana>>
  BY CustodiaAssumption DEF DarDeBaja, Coordinada
<1>2. /\ deBaja \subseteq Equipos /\ \A d \in deBaja : equipos[d] = "fuera"
      /\ Afuera \cap deBaja = {}
  BY DEF IInvCu, TypeOKCu, LoEntregadoEnSuLugar, NadaAfueraDadoDeBaja
<1>3. deBaja' \subseteq Equipos /\ Afuera \cap deBaja' = {}
  BY <1>1, <1>2 DEF DarDeBaja, PuedeDarseDeBaja
<1>4. CASE SacarDeCirculacion(e)
  <2>1. Next
    BY <1>1, <1>4 DEF Next, Sacar
  <2>2. \A d \in deBaja' : equipos'[d] = "fuera"
    BY <1>1, <1>2, <1>4, SacarQueHace
  <2> QED BY <1>1, <1>3, <1>4, <2>1, <2>2, SacarQueHace, InventarioPreserva
<1>5. CASE equipos[e] = "fuera" /\ UNCHANGED vars
  <2>1. UNCHANGED <<reservas, grupos, equipos>>
    BY <1>5 DEF vars
  <2>2. \A d \in deBaja' : equipos'[d] = "fuera"
    BY <1>1, <1>2, <1>5, <2>1
  <2> QED BY <1>1, <1>3, <1>5, <2>1, <2>2, SinTocarTablas, InventarioPreserva
<1> QED BY <1>4, <1>5 DEF DarDeBaja

LEMMA ReactivarPreserva ==
    ASSUME IInvCu, NEW e \in Editables, Reactivar(e)
    PROVE  IInvCu' /\ PasoCu
<1>1. /\ PuedeCoordinar("exclusivo") /\ e \in Equipos /\ deBaja' = deBaja \ {e}
      /\ UNCHANGED <<prestamos, recordados, abierta, eventos, campana>>
  BY CustodiaAssumption DEF Reactivar, Coordinada
<1>2. /\ deBaja \subseteq Equipos /\ \A d \in deBaja : equipos[d] = "fuera"
      /\ Afuera \cap deBaja = {} /\ equipos \in [Equipos -> Condiciones]
  BY DEF IInvCu, TypeOKCu, TypeOK, LoEntregadoEnSuLugar, NadaAfueraDadoDeBaja
<1>3. /\ [Next]_vars /\ UNCHANGED <<reservas, grupos>>
      /\ \A d \in deBaja' : equipos'[d] = "fuera"
  <2>1. CASE UNCHANGED vars
    BY <1>1, <1>2, <2>1 DEF vars
  <2>2. CASE \E c \in Condiciones : CambiarCondicion(e, c)
    BY <1>1, <1>2, <2>2 DEF Next, Condicion, CambiarCondicion
  <2> QED BY <2>1, <2>2 DEF Reactivar
<1>4. deBaja' \subseteq Equipos /\ Afuera \cap deBaja' = {}
  BY <1>1, <1>2
<1> QED BY <1>1, <1>3, <1>4, SinTocarTablas, InventarioPreserva

LEMMA CancelarCuPreserva ==
    ASSUME IInvCu, CancelarCu \/ FinalizarCu
    PROVE  IInvCu' /\ PasoCu
<1>1. Coordinada("ninguno") /\ UNCHANGED custodia /\ Next
  BY DEF CancelarCu, FinalizarCu, Next
<1>2. PICK S \in SUBSET Ids, estado \in {"CANCELADA", "FINALIZADA"} :
         (\A i \in S : Confirmada(i)) /\ Cerrar(S, estado)
  <2>1. CASE Cancelar
    <3>1. PICK quien \in Usuarios, i \in Ids : CancelarReserva(quien, i)
      BY <2>1 DEF Cancelar
    <3> QED BY <3>1 DEF CancelarReserva
  <2>2. CASE CancelarSerie
    <3>1. PICK quien \in Usuarios, g \in Grupos, b \in BOOLEAN : CancelarOcurrencia(quien, g, b)
      BY <2>2 DEF CancelarSerie
    <3>2. PICK G : Cerrar({i \in Ids : i[1] \in G /\ Confirmada(i)}, "CANCELADA")
      BY <3>1 DEF CancelarOcurrencia
    <3>3. PICK T : T = {i \in Ids : i[1] \in G /\ Confirmada(i)} /\ Cerrar(T, "CANCELADA")
      BY <3>2
    <3>4. T \in SUBSET Ids /\ \A i \in T : Confirmada(i)
      BY <3>3
    <3> QED BY <3>3, <3>4
  <2>3. CASE FinalizarLote
    <3>1. PICK t \in Relojes, lote \in SUBSET Vencidas(ahora) : Cerrar(lote, "FINALIZADA")
      BY <2>3 DEF FinalizarLote
    <3>2. lote \in SUBSET Ids /\ \A i \in lote : Confirmada(i)
      BY <3>1 DEF Vencidas
    <3> QED BY <3>1, <3>2
  <2> QED BY <2>1, <2>2, <2>3 DEF CancelarCu, FinalizarCu
<1>3. /\ Conserva /\ EnSuLugar /\ NadaSeLibera /\ MismosGrupos /\ SinClaseNueva
      /\ \A i \in Ids : Confirmada(i)' => Confirmada(i)
      /\ UNCHANGED <<equipos, ahora>>
  BY <1>2, CierreSinLiberar DEF Cerrar
<1>4. \A i \in Ids : reservas[i] # Nada /\ i[1] \in GruposTomados => reservas'[i] = reservas[i]
  BY <1>1 DEF Coordinada
<1>5. \A p \in Procesos : abierta[p] # Nada => abierta[p].reloj \in Relojes'
  BY <1>3 DEF IInvCu, LeidoSigueFirme, Relojes
<1> QED BY <1>1, <1>3, <1>4, <1>5, MientrasTanto

LEMMA PasaElTiempoCuPreserva ==
    ASSUME IInvCu, PasaElTiempoCu
    PROVE  IInvCu' /\ PasoCu
<1>1. /\ ahora' = ahora + 1 /\ Next /\ UNCHANGED custodia /\ UNCHANGED <<reservas, grupos, equipos>>
  BY DEF PasaElTiempoCu, PasaElTiempo, Next
<1>2. /\ Conserva /\ EnSuLugar /\ NadaSeLibera /\ MismosGrupos /\ SinClaseNueva
      /\ \A i \in Ids : Confirmada(i)' => Confirmada(i)
  BY <1>1, SinTocarTablas DEF MismosGrupos, Confirmada
<1>3. \A p \in Procesos : abierta[p] # Nada => abierta[p].reloj \in Relojes'
  <2> SUFFICES ASSUME NEW p \in Procesos, abierta[p] # Nada PROVE abierta[p].reloj \in Relojes'
    OBVIOUS
  <2>1. PICK t : t = abierta[p].reloj
    OBVIOUS
  <2>2. t \in Relojes
    BY <2>1 DEF IInvCu, LeidoSigueFirme
  <2>3. ahora - t < Retraso
    BY <2>1 DEF PasaElTiempoCu, EnCurso
  <2>4. ahora \in Nat /\ t \in Nat
    BY <2>2, IInvTablas DEF IInvCu, IInv, Relojes
  <2>5. t \in 0..ahora' /\ ahora' - t <= Retraso
    BY <1>1, <2>2, <2>3, <2>4, ReservasAssumption DEF Relojes
  <2> QED BY <2>1, <2>5 DEF Relojes
<1>4. UNCHANGED equipos /\ \A i \in Ids : reservas'[i] = reservas[i]
  BY <1>1
<1> QED BY <1>1, <1>2, <1>3, <1>4, MientrasTanto

-----------------------------------------------------------------------------
(* Every step                                                                *)

LEMMA InicioCu == InitCu => IInvCu
<1> SUFFICES ASSUME InitCu PROVE IInvCu
  OBVIOUS
<1>1. IInv /\ Init
  BY InitIInv DEF InitCu
<1>2. /\ \A p \in Prestamos : prestamos[p] = Nada
      /\ \A p \in Procesos : abierta[p] = Nada
      /\ deBaja = {} /\ recordados = {} /\ eventos = << >> /\ campana = "ninguna"
  BY DEF InitCu
<1>3. TypeOKCu
  BY <1>1, <1>2 DEF IInv, TypeOKCu, InitCu
<1>4. UnaSola /\ LeidoSigueFirme /\ PrestamoConReserva /\ LoEntregadoEnSuLugar
  BY <1>2 DEF UnaSola, LeidoSigueFirme, PrestamoConReserva, LoEntregadoEnSuLugar,
              EntregadaConservaSuEquipo, NadaAfueraDadoDeBaja, Abierto
<1>5. ColaVeraz /\ CampanaVeraz
  BY <1>2 DEF ColaVeraz, CampanaVeraz, AvisadoSigueAfuera, Abierto
<1> QED BY <1>1, <1>3, <1>4, <1>5 DEF IInvCu

\* Each action of the desk, the sweep, the bell and the inventory, and each operation of
\* Reservas as the loans see it.
LEMMA NextIInvCu == IInvCu /\ [NextCu]_varsCu => IInvCu' /\ (UNCHANGED varsCu \/ PasoCu)
<1> SUFFICES ASSUME IInvCu, [NextCu]_varsCu PROVE IInvCu' /\ (UNCHANGED varsCu \/ PasoCu)
  OBVIOUS
<1>1. CASE Entregar
  <2>1. PICK p \in Procesos, lote \in (SUBSET {i \in Ids : reservas[i] # Nada}) \ {{}},
             conNombre \in BOOLEAN, completa \in BOOLEAN : EmpezarEntrega(p, lote, conNombre, completa)
    BY <1>1 DEF Entregar
  <2> QED BY <2>1, EmpezarEntregaPreserva
<1>2. CASE Entregada
  BY <1>2, ConfirmarEntregaPreserva DEF Entregada
<1>3. CASE Soltar
  <2>1. PICK E \in (SUBSET Equipos) \ {{}}, r \in BOOLEAN, plazo \in Plazos : EntregarSuelta(E, r, plazo)
    BY <1>3 DEF Soltar
  <2> QED BY <2>1, EntregarSueltaPreserva
<1>4. CASE Recibir
  <2>1. PICK p \in Procesos, P \in (SUBSET Prestamos) \ {{}} : EmpezarDevolucion(p, P)
    BY <1>4 DEF Recibir
  <2> QED BY <2>1, EmpezarDevolucionPreserva
<1>5. CASE Recibida
  BY <1>5, ConfirmarDevolucionPreserva DEF Recibida
<1>6. CASE Barrer
  BY <1>6, EmpezarBarridoPreserva DEF Barrer
<1>7. CASE Barrido
  BY <1>7, ConfirmarBarridoPreserva DEF Barrido
<1>8. CASE EntregarAviso
  BY <1>8, EntregarAvisoPreserva
<1>9. CASE LeerAviso
  BY <1>9, LeerAvisoPreserva
<1>10. CASE Baja
  BY <1>10, DarDeBajaPreserva DEF Baja
<1>11. CASE Alta
  BY <1>11, ReactivarPreserva DEF Alta
<1>12. CASE CrearCu
  BY <1>12, CrearCuPreserva
<1>13. CASE CambiarCu
  BY <1>13, CambiarCuPreserva
<1>14. CASE BloquearCu
  BY <1>14, BloquearCuPreserva
<1>15. CASE CancelarCu \/ FinalizarCu
  BY <1>15, CancelarCuPreserva
<1>16. CASE CascadaCu
  BY <1>16, CascadaCuPreserva
<1>17. CASE InventarioCu
  BY <1>17, InventarioCuPreserva
<1>18. CASE PasaElTiempoCu
  BY <1>18, PasaElTiempoCuPreserva
<1>19. CASE UNCHANGED varsCu
  <2>1. UNCHANGED <<vars, prestamos, deBaja, recordados, abierta, eventos, campana>>
    BY <1>19 DEF varsCu, custodia
  <2>2. /\ IInv' /\ PrestamoConReserva' /\ LoEntregadoEnSuLugar' /\ Relojes' = Relojes
        /\ \A a : (EntregaFirme(a)' <=> EntregaFirme(a)) /\ (DevolucionFirme(a)' <=> DevolucionFirme(a))
    BY <2>1, NadaEscrito
  <2>3. TypeOKCu'
    BY <2>1, <2>2 DEF IInvCu, IInv, TypeOKCu, vars
  <2>4. UnaSola' /\ LeidoSigueFirme'
    BY <2>1, <2>2 DEF IInvCu, UnaSola, LeidoSigueFirme
  <2>5. ColaVeraz' /\ CampanaVeraz'
    BY <2>1, MismosPrestamos DEF IInvCu, ColaVeraz, CampanaVeraz
  <2> QED BY <1>19, <2>2, <2>3, <2>4, <2>5 DEF IInvCu
<1> QED BY <1>1, <1>2, <1>3, <1>4, <1>5, <1>6, <1>7, <1>8, <1>9, <1>10, <1>11, <1>12, <1>13, <1>14,
           <1>15, <1>16, <1>17, <1>18, <1>19 DEF NextCu

-----------------------------------------------------------------------------
(* The closing notice, when the ticker keeps its pace (CierreDeJornada)      *)

\* The sweep of p read the clock in this instant, and commits.
BarreAhora(p) == En(p, "barrer") /\ abierta'[p] = Nada /\ abierta[p].reloj = ahora

\* The instant t went by, or was swept.
Cumplido(t) == t < ahora \/ (t = ahora /\ alDia)

\* Every instant of a day, or of the next one, says which of the two it is of.
LEMMA DiaDeUnInstante ==
    ASSUME NEW J \in Nat \ {0}, NEW d \in Nat, d % J = 0, NEW t \in Nat, d <= t, t < d + 2 * J
    PROVE  t - (t % J) \in {d, d + J}
<1>1. PICK k \in Nat : k = d \div J
  OBVIOUS
<1>2. PICK q \in Nat : q = t \div J
  OBVIOUS
<1>3. PICK r \in 0..(J - 1) : r = t % J
  OBVIOUS
<1>4. d = J * k
  BY <1>1
<1>5. t = J * q + r
  BY <1>2, <1>3
<1>6. ~(q < k)
  <2>1. SUFFICES ASSUME q <= k - 1 PROVE FALSE
    OBVIOUS
  <2>2. J * q <= J * (k - 1)
    BY <2>1
  <2>3. J * (k - 1) = J * k - J
    OBVIOUS
  <2>4. QED  BY <1>4, <1>5, <2>2, <2>3
<1>7. ~(q >= k + 2)
  <2>1. SUFFICES ASSUME q >= k + 2 PROVE FALSE
    OBVIOUS
  <2>2. J * q >= J * (k + 2)
    BY <2>1
  <2>3. J * (k + 2) = J * k + 2 * J
    OBVIOUS
  <2>4. QED  BY <1>4, <1>5, <2>2, <2>3
<1>8. q = k \/ q = k + 1
  BY <1>6, <1>7
<1>9. J * (k + 1) = J * k + J
  OBVIOUS
<1>10. t - (t % J) = J * q
  BY <1>3, <1>5
<1>11. QED  BY <1>4, <1>8, <1>9, <1>10

\* In the instants that cut a day, the sweep looks at that day.
LEMMA ElCorteEsElDelDia ==
    ASSUME NEW c \in Cierres, NEW t \in CortanElDia(c)
    PROVE  c \in Cortes(t)
<1> DEFINE Pasado(dia) == {d \in Cierres : d.dia = dia /\ d.fin + GraciaCierre <= t /\ t - d.fin < Jornada}
<1>1. /\ c.dia \in Nat /\ c.fin \in Nat /\ c.dia <= c.fin /\ c.dia % Jornada = 0
      /\ Jornada \in Nat \ {0} /\ GraciaCierre \in Nat
  BY CustodiaAssumption, CierreAssumption
<1>2. /\ t \in Nat /\ c.fin + GraciaCierre <= t /\ t - c.fin < Jornada /\ t < c.dia + 2 * Jornada
      /\ \A d \in Cierres : d.dia > c.dia => t < d.fin + GraciaCierre
  BY DEF CortanElDia, VenceElCierre
<1>3. Cortes(t) = IF Pasado(DiaDe(t)) # {} THEN Pasado(DiaDe(t)) ELSE Pasado(DiaDe(t) - Jornada)
  BY DEF Cortes
<1>4. c \in Pasado(c.dia)
  BY <1>2
<1>5. DiaDe(t) \in {c.dia, c.dia + Jornada}
  <2>1. /\ c.dia \in Nat /\ c.dia % Jornada = 0 /\ Jornada \in Nat \ {0}
        /\ t \in Nat /\ c.dia <= t /\ t < c.dia + 2 * Jornada
    BY <1>1, <1>2
  <2>2. t - (t % Jornada) \in {c.dia, c.dia + Jornada}
    BY ONLY <2>1, DiaDeUnInstante
  <2>3. QED  BY <2>2 DEF DiaDe
<1>6. CASE DiaDe(t) = c.dia
  BY <1>3, <1>4, <1>6
<1>7. CASE DiaDe(t) = c.dia + Jornada
  <2>1. ASSUME NEW d \in Pasado(c.dia + Jornada) PROVE FALSE
    <3>1. d \in Cierres /\ d.dia = c.dia + Jornada /\ d.fin + GraciaCierre <= t
      OBVIOUS
    <3>2. d.dia > c.dia /\ d.fin \in Nat
      BY <1>1, <3>1, CustodiaAssumption
    <3>3. t < d.fin + GraciaCierre
      BY <1>2, <3>1, <3>2
    <3>4. QED  BY <1>1, <1>2, <3>1, <3>2, <3>3
  <2>2. DiaDe(t) - Jornada = c.dia
    BY <1>1, <1>7
  <2>3. QED  BY <1>3, <1>4, <1>7, <2>1, <2>2
<1>8. QED  BY <1>5, <1>6, <1>7

\* Every operation of Reservas leaves the clock alone, or lets one instant go by.
LEMMA ElRelojAvanza == ASSUME Next PROVE ahora' \in {ahora, ahora + 1}
<1>1. ASSUME NEW S, NEW estado, Cerrar(S, estado) PROVE ahora' = ahora
  BY <1>1 DEF Cerrar
<1>2. CASE Cancelar \/ CancelarSerie \/ Levantar
  BY <1>1, <1>2 DEF Cancelar, CancelarSerie, Levantar, CancelarReserva, CancelarOcurrencia,
     LevantarBloqueo
<1>3. CASE FinalizarLote \/ Liberar \/ QuedarSinDocente \/ CambiarJornada
  BY <1>1, <1>3 DEF FinalizarLote, Liberar, LiberarReservas, QuedarSinDocente,
     CancelarFuturasDeMateria, CambiarJornada, CancelarPorIDs
<1>4. CASE Crear \/ Bloquear \/ Cambiar
  BY <1>4 DEF Crear, CrearReserva, Bloquear, BloquearEquipos, Cambiar, CambiarEquipo
<1>5. CASE Sacar \/ Condicion \/ PasaElTiempo
  BY <1>5 DEF Sacar, SacarDeCirculacion, Condicion, CambiarCondicion, PasaElTiempo
<1>6. QED  BY <1>2, <1>3, <1>4, <1>5 DEF Next

\* An instant that went by had gone by already, or had been swept, or is swept now.
LEMMA InstantesCumplidos ==
    ASSUME IInvCu, NextCi, NEW t \in Nat, Cumplido(t)'
    PROVE  /\ ahora \in Nat /\ t <= ahora
           /\ Cumplido(t) \/ (t = ahora /\ \E p \in Procesos : BarreAhora(p))
<1>1. ahora \in Nat
  BY IInvTablas DEF IInvCu, IInv
<1>2. UNCHANGED varsCu \/ PasoDeReservas
  BY NextIInvCu DEF NextCi, PasoCu
<1>3. ahora' \in {ahora, ahora + 1}
  BY <1>2, ElRelojAvanza DEF PasoDeReservas, vars, varsCu
<1>4. CASE ahora' = ahora + 1
  <2>0. ahora' # ahora
    BY <1>1, <1>4
  <2>1. alDia /\ ~alDia'
    BY <2>0, Zenon DEF NextCi
  <2>2. t < ahora + 1
    BY <1>4, <2>1 DEF Cumplido
  <2>3. QED  BY <1>1, <2>1, <2>2 DEF Cumplido
<1>5. CASE ahora' = ahora
  <2>1. alDia' => alDia \/ \E p \in Procesos : BarreAhora(p)
    BY DEF NextCi, BarreAhora
  <2>2. t < ahora \/ (t = ahora /\ alDia')
    BY <1>5 DEF Cumplido
  <2>3. QED  BY <1>1, <2>1, <2>2 DEF Cumplido
<1>6. QED  BY <1>3, <1>4, <1>5


\* Handing out: each new loan says when, and the others are not touched.
LEMMA SalenAhora ==
    ASSUME NEW filas, NEW t, Salen(filas, t), NEW p \in Prestamos
    PROVE  prestamos'[p] = prestamos[p] \/ prestamos'[p].entregadoEn = t
<1>1. PICK P \in SUBSET SinRegistrar : \E quien \in Bijection(P, filas) :
        prestamos' = [q \in Prestamos |->
            IF q \in P
            THEN [equipo |-> quien[q].equipo, reserva |-> quien[q].reserva, entregadoEn |-> t,
                  vence |-> quien[q].vence, devuelto |-> FALSE, avisado |-> Nada]
            ELSE prestamos[q]]
  BY DEF Salen
<1>2. PICK quien :
        prestamos' = [q \in Prestamos |->
            IF q \in P
            THEN [equipo |-> quien[q].equipo, reserva |-> quien[q].reserva, entregadoEn |-> t,
                  vence |-> quien[q].vence, devuelto |-> FALSE, avisado |-> Nada]
            ELSE prestamos[q]]
  BY <1>1
<1>3. QED  BY <1>2

\* What a step may do to one loan: nothing, going out now, coming back, or, when the sweep
\* commits, being announced.
LEMMA QuePasaConUnPrestamo ==
    ASSUME IInvCu, NextCu, NEW p \in Prestamos
    PROVE  \/ \E q \in Procesos : ConfirmarBarrido(q)
           \/ /\ \A q \in Procesos : ~BarreAhora(q)
              /\ \/ prestamos'[p] = prestamos[p]
                 \/ \E r \in Relojes : prestamos'[p].entregadoEn = r
                 \/ prestamos'[p] = [prestamos[p] EXCEPT !.devuelto = TRUE]
<1>1. TypeOKCu /\ UnaSola
  BY DEF IInvCu
<1>2. CASE Entregada
  <2>1. PICK q \in Procesos : ConfirmarEntrega(q)
    BY <1>2 DEF Entregada
  <2>2. abierta[q] # Nada /\ abierta[q].op = "entregar"
    BY <2>1 DEF ConfirmarEntrega, En
  <2>3. \A x \in Procesos : ~BarreAhora(x)
    BY <1>1, <2>2 DEF BarreAhora, En, UnaSola
  <2>4. abierta[q].reloj \in Relojes
    BY <2>2 DEF IInvCu, LeidoSigueFirme
  <2>5. \E filas : Salen(filas, abierta[q].reloj)
    BY <2>1 DEF ConfirmarEntrega
  <2>6. QED  BY <2>3, <2>4, <2>5, SalenAhora
<1>3. CASE Soltar
  <2>1. PICK E \in (SUBSET Equipos) \ {{}}, r \in BOOLEAN, plazo \in Plazos : EntregarSuelta(E, r, plazo)
    BY <1>3 DEF Soltar
  <2>2. abierta' = abierta
    BY <2>1 DEF EntregarSuelta
  <2>3. \E filas : \E t \in Relojes : Salen(filas, t)
    BY <2>1 DEF EntregarSuelta
  <2>4. QED  BY <2>2, <2>3, SalenAhora DEF BarreAhora, En
<1>4. CASE Recibida
  <2>1. PICK q \in Procesos : ConfirmarDevolucion(q)
    BY <1>4 DEF Recibida
  <2>2. abierta[q] # Nada /\ abierta[q].op = "recibir"
    BY <2>1 DEF ConfirmarDevolucion, En
  <2>3. \A x \in Procesos : ~BarreAhora(x)
    BY <1>1, <2>2 DEF BarreAhora, En, UnaSola
  <2>4. prestamos'[p] = IF p \in abierta[q].prestamos
                        THEN [prestamos[p] EXCEPT !.devuelto = TRUE] ELSE prestamos[p]
    BY <2>1 DEF ConfirmarDevolucion
  <2>5. QED  BY <2>3, <2>4
<1>5. CASE Barrido
  BY <1>5 DEF Barrido
<1>6. CASE Entregar \/ Recibir \/ Barrer
  <2>0. PICK q \in Procesos : \E a : Abrir(q, a)
    BY <1>6 DEF Entregar, EmpezarEntrega, Recibir, EmpezarDevolucion, Barrer, EmpezarBarrido
  <2>1. PICK a : Abrir(q, a)
    BY <2>0
  <2>2. prestamos' = prestamos /\ abierta[q] = Nada /\ abierta' = [abierta EXCEPT ![q] = a]
    BY <2>1 DEF Abrir
  <2>3. \A x \in Procesos : abierta[x] # Nada => abierta'[x] # Nada
    BY <1>1, <2>2 DEF TypeOKCu
  <2>4. QED  BY <2>2, <2>3 DEF BarreAhora, En
<1>7. CASE EntregarAviso \/ LeerAviso \/ Baja \/ Alta
  <2>1. prestamos' = prestamos /\ abierta' = abierta
    BY <1>7 DEF EntregarAviso, LeerAviso, Baja, DarDeBaja, Alta, Reactivar
  <2>2. QED  BY <2>1 DEF BarreAhora, En
<1>8. CASE \/ CrearCu \/ CambiarCu \/ BloquearCu \/ CancelarCu \/ FinalizarCu \/ CascadaCu
           \/ InventarioCu \/ PasaElTiempoCu
  <2>1. UNCHANGED custodia
    BY <1>8 DEF CrearCu, CambiarCu, BloquearCu, CancelarCu, FinalizarCu, CascadaCu,
       InventarioCu, PasaElTiempoCu
  <2>2. QED  BY <2>1 DEF custodia, BarreAhora, En
<1>9. QED  BY <1>2, <1>3, <1>4, <1>5, <1>6, <1>7, <1>8 DEF NextCu

\* The step that is not a sweep owes nobody a notice that was not owed.
LEMMA SinBarrerNadaSeDebe ==
    ASSUME IInvCu, TodaDemoraSeAvisa, NextCi, Retraso < GraciaCierre,
           NEW p \in Prestamos, NEW c \in Cierres, c.dia \in DiasAtendidos,
           \A q \in Procesos : ~ConfirmarBarrido(q), QuedoAfuera(p, c, CortanElDia(c))'
    PROVE  prestamos'[p].avisado # Nada
<1>1. PICK t \in CortanElDia(c) :
        /\ Cumplido(t)' /\ prestamos'[p].entregadoEn <= t
        /\ prestamos'[p].vence = Nada \/ prestamos'[p].vence <= t
  BY DEF QuedoAfuera, Cumplido
<1>2. Abierto(p)' /\ prestamos'[p].entregadoEn <= c.fin
  BY DEF QuedoAfuera
<1>3. t \in Nat /\ c.fin + GraciaCierre <= t
  BY DEF CortanElDia, VenceElCierre
<1>4. /\ \A q \in Procesos : ~BarreAhora(q)
      /\ \/ prestamos'[p] = prestamos[p]
         \/ \E r \in Relojes : prestamos'[p].entregadoEn = r
         \/ prestamos'[p] = [prestamos[p] EXCEPT !.devuelto = TRUE]
  BY QuePasaConUnPrestamo DEF NextCi
<1>5. ahora \in Nat /\ t <= ahora /\ Cumplido(t)
  BY <1>1, <1>3, <1>4, InstantesCumplidos
<1>6. CASE prestamos'[p] = prestamos[p]
  <2>1. QuedoAfuera(p, c, CortanElDia(c))
    BY <1>1, <1>2, <1>5, <1>6 DEF QuedoAfuera, Cumplido, Abierto
  <2>2. QED  BY <1>6, <2>1 DEF TodaDemoraSeAvisa
<1>7. CASE \E r \in Relojes : prestamos'[p].entregadoEn = r
  <2>1. PICK r \in Relojes : prestamos'[p].entregadoEn = r
    BY <1>7
  <2>2. r \in Nat /\ ahora - r <= Retraso /\ r <= c.fin
    BY <1>2, <2>1 DEF Relojes
  <2>3. Retraso \in Nat /\ GraciaCierre \in Nat /\ c.fin \in Nat
    BY ReservasAssumption, CustodiaAssumption
  <2>4. QED  BY <1>3, <1>5, <2>2, <2>3
<1>8. CASE prestamos'[p] = [prestamos[p] EXCEPT !.devuelto = TRUE] /\ prestamos'[p] # prestamos[p]
  <2>1. prestamos'[p] \in Prestamo \cup {Nada} /\ prestamos'[p] # Nada
    BY <1>2, NextIInvCu DEF NextCi, IInvCu, TypeOKCu, Abierto
  <2>2. "devuelto" \in DOMAIN prestamos'[p] /\ DOMAIN prestamos'[p] = DOMAIN prestamos[p]
    BY <1>8, <2>1 DEF Prestamo
  <2>3. prestamos'[p].devuelto
    BY <1>8, <2>2
  <2>4. QED  BY <1>2, <2>3 DEF Abierto
<1>9. QED  BY <1>4, <1>6, <1>7, <1>8

\* The sweep announces every loan it finds owed.
LEMMA BarrerAvisa ==
    ASSUME IInvCu, TodaDemoraSeAvisa, NextCi, NEW x \in Procesos,
           ConfirmarBarrido(x), NEW p \in Prestamos, NEW c \in Cierres, c.dia \in DiasAtendidos,
           QuedoAfuera(p, c, CortanElDia(c))'
    PROVE  prestamos'[p].avisado # Nada
<1>1. PICK t \in CortanElDia(c) :
        /\ Cumplido(t)' /\ prestamos'[p].entregadoEn <= t
        /\ prestamos'[p].vence = Nada \/ prestamos'[p].vence <= t
  BY DEF QuedoAfuera, Cumplido
<1>2. Abierto(p)' /\ prestamos'[p].entregadoEn <= c.fin
  BY DEF QuedoAfuera
<1>3. t \in Nat
  BY DEF CortanElDia, VenceElCierre
<1>4. PICK r \in Nat : r = abierta[x].reloj
  BY DEF ConfirmarBarrido, En, IInvCu, TypeOKCu, Transaccion
<1>5. prestamos' = [q \in Prestamos |-> IF q \in ParaAvisar(r) THEN [prestamos[q] EXCEPT !.avisado = r]
                                        ELSE prestamos[q]]
  BY <1>4 DEF ConfirmarBarrido
<1>6. CASE p \in ParaAvisar(r)
  <2>1. prestamos[p] \in Prestamo
    BY <1>6 DEF ParaAvisar, EntraEnElCorte, Abierto, IInvCu, TypeOKCu
  <2>2. prestamos'[p].avisado = r
    BY <1>5, <1>6, <2>1 DEF Prestamo
  <2>3. QED  BY <2>2, CustodiaAssumption
<1>7. CASE p \notin ParaAvisar(r)
  <2>1. prestamos'[p] = prestamos[p]
    BY <1>5, <1>7
  <2>2. Abierto(p) /\ prestamos[p].entregadoEn <= c.fin /\ prestamos[p].entregadoEn <= t
        /\ (prestamos[p].vence = Nada \/ prestamos[p].vence <= t)
    BY <1>1, <1>2, <2>1 DEF Abierto
  <2>3. CASE Cumplido(t)
    <3>1. QuedoAfuera(p, c, CortanElDia(c))
      BY <2>2, <2>3 DEF QuedoAfuera, Cumplido
    <3>2. QED  BY <2>1, <3>1 DEF TodaDemoraSeAvisa
  <2>4. CASE t = ahora /\ \E q \in Procesos : BarreAhora(q)
    <3>1. r = t
      BY <1>4, <2>4 DEF BarreAhora, ConfirmarBarrido, En, IInvCu, UnaSola
    <3>2. c \in Cortes(t)
      BY ElCorteEsElDelDia
    <3>3. prestamos[p].avisado # Nada
      BY <1>7, <2>2, <3>1, <3>2 DEF ParaAvisar, EntraEnElCorte
    <3>4. QED  BY <2>1, <3>3
  <2>5. QED  BY <1>1, <1>3, <2>3, <2>4, InstantesCumplidos
<1>8. QED  BY <1>6, <1>7

-----------------------------------------------------------------------------
(* Theorems                                                                  *)

\* Whatever the calendar, the devices, the desks and the retraso of their clocks.
THEOREM CustodiaCoherente == SpecCu => []IInvCu
<1>1. IInvCu /\ [NextCu]_varsCu => IInvCu'
  BY NextIInvCu
<1> QED BY <1>1, InicioCu, PTL DEF SpecCu

\* What is out is the device its reservation names, and is not discharged meanwhile.
THEOREM LoEntregadoSigueEnSuLugar == SpecCu => []LoEntregadoEnSuLugar
<1>1. IInvCu => LoEntregadoEnSuLugar
  BY DEF IInvCu
<1> QED BY <1>1, CustodiaCoherente, PTL

\* The bell tells the truth once its queue is empty.
THEOREM CampanaSiempreVeraz == SpecCu => []CampanaVeraz
<1>1. IInvCu => CampanaVeraz
  BY DEF IInvCu
<1> QED BY <1>1, CustodiaCoherente, PTL

\* A device that leaves before its class leaves over nobody's head.
THEOREM NadieSeAdelantaPisando == SpecCu => AdelantoSinPisar
<1>1. IInvCu /\ [NextCu]_varsCu => [PasoAdelanto]_varsCu
  BY NextIInvCu DEF PasoCu
<1>2. SpecCu => [][PasoAdelanto]_varsCu
  BY <1>1, CustodiaCoherente, PTL DEF SpecCu
<1> QED BY <1>2 DEF AdelantoSinPisar, PasoAdelanto

\* NO_RETIRADA is never written over what somebody took, and the sweep only writes it on
\* the classes it reminded.
THEOREM LiberarSiempreJustificado == SpecCu => LiberacionJustificada
<1>1. IInvCu /\ [NextCu]_varsCu => [PasoLiberacion]_varsCu
  BY NextIInvCu DEF PasoCu
<1>2. SpecCu => [][PasoLiberacion]_varsCu
  BY <1>1, CustodiaCoherente, PTL DEF SpecCu
<1> QED BY <1>2 DEF LiberacionJustificada, PasoLiberacion

\* The desk, the sweep and the inventory implement Reservas: every step of theirs is one
\* of its operations or leaves its tables alone.
THEOREM CustodiaImplementaReservas == SpecCu => Spec
<1>1. InitCu => Init
  BY DEF InitCu
<1>2. IInvCu /\ [NextCu]_varsCu => [Next]_vars
  BY NextIInvCu DEF PasoCu, PasoDeReservas, varsCu
<1> QED BY <1>1, <1>2, CustodiaCoherente, PTL DEF SpecCu, Spec

\* So what Reservas promises holds with loans: no double booking, groups that agree with
\* their reservations, nothing promised on a device out of circulation, nothing closed
\* that is written again.
THEOREM ReservasConPrestamos ==
    SpecCu => /\ [](NoSolapamiento /\ GrupoCoherente /\ SinPromesasFueraDeCirculacion)
              /\ CierreDefinitivo /\ TransicionesDeGrupo /\ LoIntocableNoSeDesplaza
<1>1. SpecCu => [](NoSolapamiento /\ GrupoCoherente /\ SinPromesasFueraDeCirculacion)
  BY CustodiaImplementaReservas, SinSolapamientos, GruposCoherentes, SinPromesasRotas, PTL
<1>2. SpecCu => CierreDefinitivo /\ TransicionesDeGrupo /\ LoIntocableNoSeDesplaza
  BY CustodiaImplementaReservas, CierreEsDefinitivo, GruposTransicionan, NadieTocaLoIntocable
<1> QED BY <1>1, <1>2

\* No device that stayed out after an attended day goes without its notice, while the sweep
\* keeps its pace (cortarLaJornada), in whatever order its days close, if the wait after a
\* closing is longer than the delay of a commit.
THEOREM TodaDemoraSiempreSeAvisa ==
    ASSUME Retraso < GraciaCierre
    PROVE  SpecCi => []TodaDemoraSeAvisa
<1>1. InitCi => IInvCu /\ TodaDemoraSeAvisa
  <2>1. InitCi => \A p \in Prestamos : ~Abierto(p)
    BY DEF InitCi, InitCu, Abierto
  <2>2. QED  BY <2>1, InicioCu DEF InitCi, TodaDemoraSeAvisa, QuedoAfuera
<1>2. IInvCu /\ TodaDemoraSeAvisa /\ [NextCi]_varsCi => IInvCu' /\ TodaDemoraSeAvisa'
  <2>1. SUFFICES ASSUME IInvCu, TodaDemoraSeAvisa, [NextCi]_varsCi
                 PROVE  IInvCu' /\ TodaDemoraSeAvisa'
    OBVIOUS
  <2>2. IInvCu'
    BY <2>1, NextIInvCu DEF NextCi, varsCi
  <2>3. CASE UNCHANGED varsCi
    <3>1. UNCHANGED <<prestamos, ahora, alDia>>
      BY <2>3 DEF varsCi, varsCu, vars, custodia
    <3>2. QED  BY <2>1, <2>2, <3>1 DEF TodaDemoraSeAvisa, QuedoAfuera, Abierto
  <2>4. CASE NextCi
    <3>1. SUFFICES ASSUME NEW p \in Prestamos, NEW c \in Cierres, c.dia \in DiasAtendidos,
                          QuedoAfuera(p, c, CortanElDia(c))'
                   PROVE  prestamos'[p].avisado # Nada
      BY <2>2 DEF TodaDemoraSeAvisa
    <3>2. CASE \E x \in Procesos : ConfirmarBarrido(x)
      BY <2>1, <2>4, <3>1, <3>2, BarrerAvisa
    <3>3. CASE \A x \in Procesos : ~ConfirmarBarrido(x)
      BY <2>1, <2>4, <3>1, <3>3, SinBarrerNadaSeDebe
    <3>4. QED  BY <3>2, <3>3
  <2>5. QED  BY <2>1, <2>3, <2>4
<1>3. QED  BY <1>1, <1>2, PTL DEF SpecCi
=============================================================================
