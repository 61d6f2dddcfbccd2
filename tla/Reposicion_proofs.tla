-------------------------- MODULE Reposicion_proofs --------------------------
(* The replacement cascade, proved for every table of marks, every inventory  *)
(* and every set of classes: the plan the search leaves is one the component   *)
(* may write, and every step of the search brings it nearer its end.          *)
EXTENDS Reposicion, Reservas_proofs, Ordenadas_proofs

-----------------------------------------------------------------------------
(* The inductive invariant                                                   *)

EnCascada == repaso <= Len(plan) + 1

\* What was checked of the request before the search still holds of the tables.
PedidoPosible ==
    /\ PuedeReservar(pedido.materia, pedido.quien)
    /\ pedido.E \subseteq Reservables /\ NuevosGrupos \subseteq Libres
    /\ \A f \in FranjasPedidas : ~YaTermino(f, ahora)

LoDesplazaElPedido(i) == SePuedeRobar(pedido.materia, i, ahora)

LoDesplaza(j, i) == SePuedeRobar(MateriaDe(j), i, ahora)

\* Who is in the plan: classes in force, each displaced by somebody who may.
PlanJusto ==
    /\ Iniciales # {} /\ Iniciales \subseteq Vistos
    /\ \A i \in Vistos : Confirmada(i)
    /\ \A i \in Iniciales : LoDesplazaElPedido(i)
    /\ \A i \in Vistos \ Iniciales : \E j \in Vistos \ {i} : LoDesplaza(j, i)

\* What the plan gives is given once, and is nobody else's: not the new class's, not that
\* of somebody the plan leaves where they are.
PlanSinPisarse ==
    /\ \A i \in Vistos, e \in Equipos : destino[i] = e =>
          e \in Reservables /\ ~Protegido(i, e) /\ EnMedio(i, e) = {}
    /\ \A i, j \in Vistos, e \in Equipos :
          i # j /\ destino[i] = e /\ destino[j] = e => ~Solapan(FranjaDe(i), FranjaDe(j))

\* Who the second pass left without a device still has none free.
LoDescartado ==
    \A k \in DOMAIN plan, i \in Vistos : plan[k] = i /\ k < repaso /\ destino[i] = Nada =>
        \A e \in Opciones(i) : ~Libre(i, e)

Busqueda == PedidoPosible /\ PlanJusto /\ PlanSinPisarse /\ LoDescartado

IInvR ==
    /\ IInv /\ TypeOKR
    /\ repaso # 0 => cola = << >>
    /\ EnCascada => Busqueda

-----------------------------------------------------------------------------
(* Lemmas about the orders of the search                                     *)

LEMMA IdsFinitos == IsFiniteSet(Ids)
BY FS_Product, ReposicionAssumption DEF Ids

\* ordenarReservasParaReposicion keeps the reservations it is given, each once.
LEMMA EnOrdenDe ==
    ASSUME NEW S \in SUBSET Ids, \A i \in S : FranjaDe(i).ini \in Nat
    PROVE  EnOrden(S) \in Seq(S) /\ IsInjective(EnOrden(S)) /\ Range(EnOrden(S)) = S
<1> DEFINE R == {p \in S \X S : VaAntes(p[1], p[2])}
<1>1. IsFiniteSet(S)
  BY IdsFinitos, FS_Subset
<1>2. \A i, j \in S : <<i, j>> \in R <=> VaAntes(i, j)
  OBVIOUS
<1> HIDE DEF R
<1>3. OrdenTotal(R, S)
  <2>1. \A i \in S : OrdenIds[i] \in Nat
    BY ReposicionAssumption
  <2>2. \A i \in S : ~VaAntes(i, i)
    BY <2>1 DEF VaAntes
  <2>3. \A i, j, k \in S : VaAntes(i, j) /\ VaAntes(j, k) => VaAntes(i, k)
    BY <2>1 DEF VaAntes
  <2>4. \A i, j \in S : i # j => VaAntes(i, j) \/ VaAntes(j, i)
    <3> SUFFICES ASSUME NEW i \in S, NEW j \in S, i # j PROVE VaAntes(i, j) \/ VaAntes(j, i)
      OBVIOUS
    <3>1. OrdenIds[i] # OrdenIds[j]
      BY ReposicionAssumption DEF IsInjective
    <3> QED BY <2>1, <3>1 DEF VaAntes
  <2> QED BY <1>2, <2>2, <2>3, <2>4 DEF OrdenTotal
<1>4. PICK s \in SetToSeqs(S) : \A j, k \in DOMAIN s : j < k => <<s[j], s[k]>> \in R
  BY <1>1, <1>3, HayOrdenada
<1>5. \A j \in DOMAIN s : s[j] \in S
  BY <1>1, Enumerada
<1>6. \A j, k \in DOMAIN s : j < k => VaAntes(s[j], s[k])
  BY <1>2, <1>4, <1>5
<1>7. EnOrden(S) \in SetToSeqs(S)
  BY <1>4, <1>6 DEF EnOrden
<1> QED BY <1>1, <1>7, Enumerada DEF IsInjective

\* ocupantesDelPlan answers each of those it finds, once.
LEMMA EnElPlanDe ==
    ASSUME plan \in Seq(Ids), IsInjective(plan), NEW S \in SUBSET Vistos
    PROVE  EnElPlan(S) \in Seq(S) /\ IsInjective(EnElPlan(S)) /\ Range(EnElPlan(S)) = S
<1> DEFINE R == {p \in S \X S : Puesto(p[1]) < Puesto(p[2])}
<1>0. S \in SUBSET Ids
  BY DEF Vistos, Range
<1>1. IsFiniteSet(S)
  BY <1>0, IdsFinitos, FS_Subset
<1>2. \A i, j \in S : <<i, j>> \in R <=> Puesto(i) < Puesto(j)
  OBVIOUS
<1> HIDE DEF R
<1>3. \A i \in S : Puesto(i) \in DOMAIN plan /\ plan[Puesto(i)] = i
  BY DEF Puesto, Vistos, Range
<1>4. \A i \in S : Puesto(i) \in Nat
  BY <1>3
<1>5. OrdenTotal(R, S)
  <2>1. \A i \in S : ~(Puesto(i) < Puesto(i))
    BY <1>4
  <2>2. \A i, j, k \in S : Puesto(i) < Puesto(j) /\ Puesto(j) < Puesto(k) => Puesto(i) < Puesto(k)
    BY <1>4
  <2>3. \A i, j \in S : i # j => Puesto(i) < Puesto(j) \/ Puesto(j) < Puesto(i)
    BY <1>3, <1>4
  <2> QED BY <1>2, <2>1, <2>2, <2>3 DEF OrdenTotal
<1>6. PICK s \in SetToSeqs(S) : \A j, k \in DOMAIN s : j < k => <<s[j], s[k]>> \in R
  BY <1>1, <1>5, HayOrdenada
<1>7. \A j \in DOMAIN s : s[j] \in S
  BY <1>1, Enumerada
<1>8. \A j, k \in DOMAIN s : j < k => Puesto(s[j]) < Puesto(s[k])
  BY <1>2, <1>6, <1>7
<1>9. EnElPlan(S) \in SetToSeqs(S)
  BY <1>6, <1>8 DEF EnElPlan
<1> QED BY <1>1, <1>9, Enumerada DEF IsInjective

\* The order of OpcionesDeReposicion has a first among any devices.
LEMMA PrimeroEs ==
    ASSUME NEW i, MateriaDe(i) \in Materias, reservas[i].equipo \in Equipos,
           NEW D \in SUBSET Equipos, D # {}
    PROVE  Primero(i, D) \in D
<1> DEFINE m == MateriaDe(i)
           orden == Desempate[reservas[i].equipo]
           T(d) == Tramo(m, d)
           P(d) == Prioridad[m][d]
<1>1. \A d \in D : T(d) \in Nat /\ P(d) \in Nat /\ orden[d] \in Nat
  BY DominioAssumption, ReposicionAssumption DEF Tramo
<1>2. \A d, e \in D : d # e => orden[d] # orden[e]
  <2>1. orden \in [Equipos -> Nat] /\ IsInjective(orden)
    BY ReposicionAssumption
  <2> QED BY <2>1 DEF IsInjective
<1> HIDE DEF m, orden, T, P
<1> DEFINE TT == {T(d) : d \in D}
<1>3. PICK t \in TT : \A u \in TT : t <= u
  <2>1. TT # {} /\ TT \in SUBSET Nat
    BY <1>1
  <2> HIDE DEF TT
  <2> QED BY <2>1, HayPrimero
<1> DEFINE D1 == {d \in D : T(d) = t}
           PP == {P(d) : d \in D1}
<1>4. PICK p \in PP : \A u \in PP : p <= u
  <2>1. PP # {} /\ PP \in SUBSET Nat
    BY <1>1, <1>3
  <2> HIDE DEF PP
  <2> QED BY <2>1, HayPrimero
<1> DEFINE D2 == {d \in D1 : P(d) = p}
           OO == {orden[d] : d \in D2}
<1>5. PICK o \in OO : \A u \in OO : o <= u
  <2>1. OO # {} /\ OO \in SUBSET Nat
    BY <1>1, <1>4
  <2> HIDE DEF OO
  <2> QED BY <2>1, HayPrimero
<1>6. PICK d \in D2 : orden[d] = o
  BY <1>5
<1>7. ASSUME NEW e \in D \ {d}
      PROVE  \/ T(d) < T(e)
             \/ /\ T(d) = T(e)
                /\ \/ P(d) < P(e)
                   \/ P(d) = P(e) /\ orden[d] < orden[e]
  <2>1. d \in D /\ e \in D /\ d # e /\ T(d) = t /\ P(d) = p /\ t <= T(e)
    BY <1>3, <1>6
  <2>2. T(e) = t => p <= P(e)
    BY <1>4, <2>1
  <2>3. T(e) = t /\ P(e) = p => orden[d] <= orden[e]
    BY <1>5, <1>6, <2>1
  <2>5. orden[d] # orden[e]
    BY <1>2, <2>1
  <2>4. T(e) \in Nat /\ P(e) \in Nat /\ orden[e] \in Nat /\ orden[d] \in Nat
        /\ T(d) \in Nat /\ P(d) \in Nat
    BY <1>1, <2>1
  <2> HIDE DEF TT, PP, OO, D1, D2
  <2> QED BY <2>1, <2>2, <2>3, <2>4, <2>5
<1>8. \E x \in D : \A e \in D \ {x} :
          \/ T(x) < T(e)
          \/ /\ T(x) = T(e)
             /\ \/ P(x) < P(e)
                \/ P(x) = P(e) /\ orden[x] < orden[e]
  <2>1. d \in D
    BY <1>6
  <2> HIDE DEF TT, PP, OO, D1, D2
  <2> QED BY <2>1, <1>7
<1>9. Primero(i, D) = CHOOSE x \in D : \A e \in D \ {x} :
          \/ T(x) < T(e)
          \/ /\ T(x) = T(e)
             /\ \/ P(x) < P(e)
                \/ P(x) = P(e) /\ orden[x] < orden[e]
  BY DEF Primero, T, P, m, orden
<1> QED BY <1>8, <1>9

-----------------------------------------------------------------------------
(* What the search does not touch                                            *)

\* Whoever may be displaced is a class.
LEMMA QuienSeDesplaza ==
    ASSUME IInvR, EnCascada, NEW i \in Vistos
    PROVE  /\ i \in Ids /\ Confirmada(i) /\ reservas[i].equipo \in Equipos
           /\ MateriaDe(i) \in Materias /\ FranjaDe(i) \in Franjas
           /\ FranjaDe(i).ini \in Nat /\ FranjaDe(i).fin \in Nat
           /\ SePuedeRobarPorHorario(FranjaDe(i), ahora)
           /\ i \in NoEmpezadas(ahora)
<1>1. TypeOK /\ Referencias
  BY DEF IInvR, IInv
<1>2. i \in Ids
  BY DEF IInvR, TypeOKR, Vistos, Range
<1>3. Confirmada(i) /\ reservas[i] # Nada
  BY DEF IInvR, Busqueda, PlanJusto, Confirmada
<1>4. ~EsBloqueo(i) /\ SePuedeRobarPorHorario(FranjaDe(i), ahora)
  <2>1. CASE i \in Iniciales
    BY <2>1 DEF IInvR, Busqueda, PlanJusto, LoDesplazaElPedido, SePuedeRobar
  <2>2. CASE i \notin Iniciales
    BY <2>2 DEF IInvR, Busqueda, PlanJusto, LoDesplaza, SePuedeRobar
  <2> QED BY <2>1, <2>2
<1>5. /\ reservas[i] \in Reserva /\ grupos[i[1]] \in FilasGrupo \ {Nada}
      /\ FranjaDe(i) \in Franjas /\ FranjaDe(i).ini \in Nat /\ FranjaDe(i).fin \in Nat
  BY <1>1, <1>2, <1>3, FilaTipo
<1>6. MateriaDe(i) \in Materias
  <2>1. grupos[i[1]] \in Grupo
    BY <1>4, <1>5 DEF FilasGrupo, EsBloqueo, Operacion, Grupo
  <2> QED BY <2>1 DEF MateriaDe, Grupo
<1>7. ~YaEmpezo(FranjaDe(i), ahora)
  <2>1. ahora \in Nat
    BY <1>1, IInvTablas
  <2> QED BY <1>4, <1>5, <2>1, DominioAssumption DEF SePuedeRobarPorHorario, YaEmpezo
<1> QED BY <1>2, <1>3, <1>4, <1>5, <1>6, <1>7 DEF NoEmpezadas, Reserva

\* The tables and the request stand still while the plan is made.
LEMMA TablasQuietas ==
    ASSUME UNCHANGED <<vars, pedido>>, NEW i, NEW j, NEW e
    PROVE  /\ Confirmada(i)' <=> Confirmada(i)
           /\ FranjaDe(i)' = FranjaDe(i) /\ MateriaDe(i)' = MateriaDe(i)
           /\ Protegido(i, e)' <=> Protegido(i, e)
           /\ Opciones(i)' = Opciones(i) /\ Reservables' = Reservables
           /\ Iniciales' = Iniciales
           /\ Solapamientos({e}, {FranjaDe(i)})' = Solapamientos({e}, {FranjaDe(i)})
           /\ LoDesplazaElPedido(i)' <=> LoDesplazaElPedido(i)
           /\ LoDesplaza(j, i)' <=> LoDesplaza(j, i)
           /\ PedidoPosible' <=> PedidoPosible
<1>1. UNCHANGED <<reservas, grupos, equipos, ahora, pedido>>
  BY DEF vars
<1>2. \A k : (Confirmada(k)' <=> Confirmada(k)) /\ FranjaDe(k)' = FranjaDe(k) /\ MateriaDe(k)' = MateriaDe(k)
             /\ (EsBloqueo(k)' <=> EsBloqueo(k))
  BY <1>1 DEF Confirmada, FranjaDe, MateriaDe, EsBloqueo
<1>3. FranjasPedidas' = FranjasPedidas /\ NuevosGrupos' = NuevosGrupos /\ Reservables' = Reservables /\ Libres' = Libres
  BY <1>1 DEF FranjasPedidas, NuevosGrupos, Reservables, Libres
<1>4. Iniciales' = Iniciales
  BY <1>1, <1>2, <1>3 DEF Iniciales, Solapamientos
<1>5. Solapamientos({e}, {FranjaDe(i)})' = Solapamientos({e}, {FranjaDe(i)})
  BY <1>1, <1>2 DEF Solapamientos
<1>6. Protegido(i, e)' <=> Protegido(i, e)
  BY <1>1, <1>2, <1>3 DEF Protegido
<1>7. Opciones(i)' = Opciones(i)
  BY <1>1, <1>2, <1>3 DEF Opciones
<1>8. (LoDesplazaElPedido(i)' <=> LoDesplazaElPedido(i)) /\ (LoDesplaza(j, i)' <=> LoDesplaza(j, i))
  BY <1>1 DEF LoDesplazaElPedido, LoDesplaza, SePuedeRobar, EsBloqueo, FranjaDe, MateriaDe
<1>9. PedidoPosible' <=> PedidoPosible
  BY <1>1, <1>3 DEF PedidoPosible, PuedeReservar, YaTermino
<1> QED BY <1>2, <1>3, <1>4, <1>5, <1>6, <1>7, <1>8, <1>9

LEMMA EnTiposSeq == ASSUME NEW S, NEW s \in Seq(S), NEW T, Range(s) \subseteq T PROVE s \in Seq(T)
<1>1. DOMAIN s = 1..Len(s) /\ Len(s) \in Nat /\ s = [k \in 1..Len(s) |-> s[k]]
  OBVIOUS
<1>2. \A k \in 1..Len(s) : s[k] \in T
  BY <1>1 DEF Range
<1> QED BY <1>1, <1>2

-----------------------------------------------------------------------------
(* The steps of the search                                                   *)

\* The body of SoloCorreQuienPrefiere.
PasoSoloCorre ==
    \A j \in Vistos :
        destino[j] # Nada /\ destino'[j] # destino[j] =>
          \E i \in Vistos : /\ destino'[i] = destino[j]
                            /\ Solapan(FranjaDe(i), FranjaDe(j))
                            /\ Prefiere(MateriaDe(i), MateriaDe(j), destino[j])
                            /\ SePuedeRobarPorHorario(FranjaDe(j), ahora)

\* The devices that somebody may still be given for the first time.
PorIntentar == {p \in Ids \X Equipos : p[1] \in Vistos => p[2] \notin intentados[p[1]]}

\* Every step has fewer devices to try, or as many and a shorter queue, or the same queue
\* and one place less of the second pass to go.
PasoAvanza ==
    \/ Cardinality(PorIntentar') < Cardinality(PorIntentar)
    \/ /\ PorIntentar' = PorIntentar
       /\ Len(cola') < Len(cola)
    \/ /\ PorIntentar' = PorIntentar
       /\ UNCHANGED <<plan, cola>>
       /\ repaso' = repaso + 1 /\ repaso < Len(plan) + 2

LEMMA Cabeza ==
    ASSUME IInvR, repaso = 0, cola # << >>
    PROVE  /\ EnCascada
           /\ Head(cola) \in Range(cola) /\ Head(cola) \in Vistos /\ destino[Head(cola)] = Nada
           /\ Tail(cola) \in Seq(Ids) /\ IsInjective(Tail(cola))
           /\ Range(Tail(cola)) = Range(cola) \ {Head(cola)}
           /\ Range(cola) \subseteq Vistos /\ Len(Tail(cola)) < Len(cola)
<1>1. cola \in Seq(Vistos) /\ IsInjective(cola) /\ plan \in Seq(Ids)
  BY DEF IInvR, TypeOKR
<1>2. Range(cola) \subseteq Vistos /\ Vistos \subseteq Ids
  BY <1>1 DEF Range, Vistos
<1>3. cola \in Seq(Ids)
  BY <1>1, <1>2, EnTiposSeq
<1>4. EnCascada
  BY <1>1 DEF EnCascada
<1>5. Len(cola) \in Nat
  BY <1>1
<1> QED BY <1>2, <1>3, <1>4, <1>5, SinLaPrimera DEF IInvR, TypeOKR

\* What Asignar writes.
LEMMA AsignarEscribe ==
    ASSUME IInvR, repaso = 0, cola # << >>, NEW e \in Equipos,
           Asignar(Head(cola), e)
    PROVE  /\ plan' \in Seq(Ids) /\ IsInjective(plan') /\ Len(plan') >= Len(plan)
           /\ EnMedio(Head(cola), e) \in SUBSET Ids
           /\ \A j \in EnMedio(Head(cola), e) : Confirmada(j) /\ j \notin Vistos
           /\ Vistos' = Vistos \cup EnMedio(Head(cola), e)
           /\ cola' \in Seq(Vistos') /\ IsInjective(cola')
           /\ Range(cola') = (Range(cola) \ {Head(cola)})
                              \cup Ocupantes(Head(cola), e) \cup EnMedio(Head(cola), e)
           /\ destino' = [j \in Vistos' |->
                            IF j = Head(cola) THEN e
                            ELSE IF j \in Ocupantes(Head(cola), e) \cup EnMedio(Head(cola), e) THEN Nada
                            ELSE destino[j]]
           /\ intentados' = [j \in Vistos' |->
                               IF j = Head(cola) THEN intentados[j] \cup {e}
                               ELSE IF j \in EnMedio(Head(cola), e) THEN {} ELSE intentados[j]]
<1> DEFINE i == Head(cola)
           C == Ocupantes(i, e)
           N == EnMedio(i, e)
           d == EnOrden(N)
           c == EnElPlan(C)
<1>1. plan \in Seq(Ids) /\ IsInjective(plan) /\ Nada \notin Equipos /\ Len(plan) \in Nat
  BY ReservasAssumption DEF IInvR, TypeOKR
<1>2. N \in SUBSET Ids /\ \A j \in N : Confirmada(j) /\ j \notin Vistos
  BY DEF EnMedio, Solapamientos
<1>3. \A j \in N : FranjaDe(j).ini \in Nat
  <2> TAKE j \in N
  <2>1. j \in Ids /\ reservas[j] # Nada
    BY <1>2 DEF Confirmada
  <2> QED BY <2>1, FilaTipo DEF IInvR, IInv
<1>4. C \in SUBSET Vistos /\ \A j \in C : destino[j] = e
  BY DEF Ocupantes
<1>5. Vistos \in SUBSET Ids
  BY <1>1 DEF Vistos, Range
<1> HIDE DEF N, C
<1>6. d \in Seq(N) /\ IsInjective(d) /\ Range(d) = N
  BY <1>2, <1>3, EnOrdenDe
<1>7. c \in Seq(C) /\ IsInjective(c) /\ Range(c) = C
  BY <1>1, <1>4, EnElPlanDe
<1> HIDE DEF d, c
<1>8. d \in Seq(Ids) /\ c \in Seq(Ids)
  BY <1>2, <1>4, <1>5, <1>6, <1>7, EnTiposSeq
<1>9. /\ plan' = plan \o d
      /\ cola' = Tail(cola) \o c \o d
      /\ destino' = [j \in Vistos \cup N |->
                        IF j = i THEN e ELSE IF j \in C \cup N THEN Nada ELSE destino[j]]
      /\ intentados' = [j \in Vistos \cup N |->
                           IF j = i THEN intentados[i] \cup {e}
                           ELSE IF j \in N THEN {} ELSE intentados[j]]
  BY <1>6 DEF Asignar, d, c, N, C, i
<1>10. Vistos \cap N = {}
  BY <1>2
<1>11. /\ plan' \in Seq(Ids) /\ IsInjective(plan') /\ Vistos' = Vistos \cup N
       /\ Len(plan') = Len(plan) + Len(d)
  <2>1. Range(plan) \cap Range(d) = {}
    BY <1>6, <1>10 DEF Vistos
  <2>2. /\ plan \o d \in Seq(Ids) /\ Len(plan \o d) = Len(plan) + Len(d)
        /\ IsInjective(plan \o d) /\ Range(plan \o d) = Range(plan) \cup Range(d)
    BY <1>1, <1>6, <1>8, <2>1, UnaTrasOtra
  <2> QED BY <1>6, <1>9, <2>2 DEF Vistos
<1>12. Len(d) \in Nat
  BY <1>8
<1> DEFINE r == Tail(cola)
           u == r \o c
<1>13. /\ r \in Seq(Ids) /\ IsInjective(r)
       /\ Range(r) = Range(cola) \ {i}
       /\ \A j \in Range(cola) : destino[j] = Nada /\ j \in Vistos
  BY Cabeza DEF i, IInvR, TypeOKR
<1>14. Range(r) \cap Range(c) = {}
  BY <1>1, <1>4, <1>7, <1>13
<1>a. cola' = u \o d
  BY <1>9
<1> HIDE DEF r
<1>15. u \in Seq(Ids) /\ IsInjective(u) /\ Range(u) = Range(r) \cup C
  BY <1>7, <1>8, <1>13, <1>14, UnaTrasOtra
<1>16. Range(u) \cap Range(d) = {}
  BY <1>4, <1>6, <1>10, <1>13, <1>15
<1> HIDE DEF u
<1>17. u \o d \in Seq(Ids) /\ IsInjective(u \o d) /\ Range(u \o d) = Range(u) \cup N
  BY <1>6, <1>8, <1>15, <1>16, UnaTrasOtra
<1>18. cola' \in Seq(Ids) /\ IsInjective(cola') /\ Range(cola') = (Range(cola) \ {i}) \cup C \cup N
  BY <1>a, <1>13, <1>15, <1>17
<1>19. cola' \in Seq(Vistos')
  <2>1. Range(cola') \subseteq Vistos'
    BY <1>4, <1>11, <1>13, <1>18
  <2> QED BY <1>18, <2>1, EnTiposSeq
<1>20. Len(plan') >= Len(plan)
  BY <1>1, <1>11, <1>12
<1>21. intentados' = [j \in Vistos' |-> IF j = i THEN intentados[j] \cup {e}
                                        ELSE IF j \in N THEN {} ELSE intentados[j]]
  BY <1>9, <1>11
<1> QED BY <1>2, <1>9, <1>11, <1>18, <1>19, <1>20, <1>21 DEF i, N, C

\* Solapan does not tell one slot from the other.
LEMMA SolapanSimetrico == ASSUME NEW f, NEW g PROVE Solapan(f, g) <=> Solapan(g, f)
BY DEF Solapan

\* A turn that gives somebody a device, whether it was free or had to be taken.
LEMMA AsignarPreserva ==
    ASSUME IInvR, repaso = 0, cola # << >>, UNCHANGED <<vars, pedido, repaso>>,
           NEW e \in Opciones(Head(cola)) \ intentados[Head(cola)],
           ~Protegido(Head(cola), e),
           \A j \in Ocupantes(Head(cola), e) : PuedeCorrer(Head(cola), j, e),
           \A j \in EnMedio(Head(cola), e) : LoDesplaza(Head(cola), j),
           Asignar(Head(cola), e)
    PROVE  IInvR' /\ PasoSoloCorre /\ PasoAvanza
<1> DEFINE i == Head(cola)
           C == Ocupantes(i, e)
           N == EnMedio(i, e)
<1>0. e \in Reservables /\ e \in Equipos /\ e # Nada
  BY ReservasAssumption DEF Opciones, Reservables
<1>1. /\ plan' \in Seq(Ids) /\ IsInjective(plan') /\ Len(plan') >= Len(plan)
      /\ N \in SUBSET Ids
      /\ \A j \in N : Confirmada(j) /\ j \notin Vistos
      /\ Vistos' = Vistos \cup N
      /\ cola' \in Seq(Vistos') /\ IsInjective(cola')
      /\ Range(cola') = (Range(cola) \ {i}) \cup C \cup N
      /\ destino' = [j \in Vistos' |-> IF j = i THEN e ELSE IF j \in C \cup N THEN Nada ELSE destino[j]]
      /\ intentados' = [j \in Vistos' |-> IF j = i THEN intentados[j] \cup {e}
                                          ELSE IF j \in N THEN {} ELSE intentados[j]]
  BY <1>0, AsignarEscribe
<1>2. i \in Vistos /\ destino[i] = Nada /\ EnCascada /\ Range(cola) \subseteq Vistos
  BY Cabeza
<1>3. C \in SUBSET Vistos /\ \A j \in C : destino[j] = e /\ Solapan(FranjaDe(j), FranjaDe(i))
  BY DEF Ocupantes
<1>4. \A j \in Vistos \ C : destino[j] = e => ~Solapan(FranjaDe(j), FranjaDe(i))
  BY DEF Ocupantes
<1>5. i \notin C /\ i \notin N
  BY <1>0, <1>1, <1>2, <1>3
<1>6. Solapamientos({e}, {FranjaDe(i)}) \subseteq Vistos \cup N
  BY DEF EnMedio
<1>7. /\ ~Protegido(i, e)
      /\ \A j \in C : PuedeCorrer(i, j, e)
      /\ \A j \in N : LoDesplaza(i, j)
      /\ e \notin intentados[i]
  OBVIOUS
<1>8. UNCHANGED <<vars, pedido>> /\ repaso' = 0
  OBVIOUS
<1>9. TypeOKR /\ Busqueda /\ IInv
  BY <1>2 DEF IInvR
<1> HIDE DEF i, C, N
<1>10. destino'[i] = e /\ \A j \in Vistos \ (C \cup {i}) : destino'[j] = destino[j]
  BY <1>1, <1>2
<1>11. \A j \in Vistos' : j # i /\ destino'[j] # Nada => j \in Vistos \ C /\ destino'[j] = destino[j]
  BY <1>1
<1>12. IInv'
  BY <1>8, <1>9, QuietoPreserva
<1>13. TypeOKR'
  <2>1. pedido' \in Pedido
    BY <1>8, <1>9 DEF TypeOKR
  <2>2. destino' \in [Vistos' -> Equipos \cup {Nada}]
    <3>1. \A j \in Vistos : destino[j] \in Equipos \cup {Nada}
      BY <1>9 DEF TypeOKR
    <3> QED BY <1>0, <1>1, <3>1
  <2>3. \A j \in Range(cola') : destino'[j] = Nada
    <3>1. \A j \in Range(cola) : destino[j] = Nada
      BY <1>9 DEF TypeOKR
    <3> QED BY <1>1, <1>2, <1>3, <1>5, <3>1
  <2>4. intentados' \in [Vistos' -> SUBSET Equipos]
    <3>1. \A j \in Vistos : intentados[j] \subseteq Equipos
      BY <1>9 DEF TypeOKR
    <3>2. ASSUME NEW j \in Vistos' PROVE intentados'[j] \in SUBSET Equipos
      <4>1. CASE j = i
        <5>1. intentados'[j] = intentados[i] \cup {e}
          BY <1>1, <4>1
        <5> QED BY <1>0, <1>2, <3>1, <5>1
      <4>2. CASE j \in N /\ j # i
        <5>1. intentados'[j] = {}
          BY <1>1, <4>2
        <5> QED BY <5>1
      <4>3. CASE j \notin N /\ j # i
        <5>1. intentados'[j] = intentados[j] /\ j \in Vistos
          BY <1>1, <4>3
        <5> QED BY <3>1, <5>1
      <4> QED BY <4>1, <4>2, <4>3
    <3>3. intentados' = [j \in Vistos' |-> intentados'[j]]
      BY <1>1
    <3> QED BY <3>2, <3>3
  <2>5. repaso' \in 0..Len(plan') + 2
    <3>1. Len(plan') \in Nat
      BY <1>1
    <3>2. 0 \in 0..Len(plan') + 2
      BY <3>1
    <3> QED BY <1>8, <3>2
  <2>6. TypeOK'
    BY <1>12 DEF IInv
  <2> QED BY <1>1, <2>1, <2>2, <2>3, <2>4, <2>5, <2>6 DEF TypeOKR
<1>14. PlanJusto'
  <2>1. Iniciales' # {} /\ Iniciales' \subseteq Vistos' /\ Iniciales' = Iniciales
    BY <1>1, <1>8, <1>9, TablasQuietas DEF Busqueda, PlanJusto
  <2>2. \A j \in Vistos' : Confirmada(j)'
    <3> TAKE j \in Vistos'
    <3>1. Confirmada(j)
      BY <1>1, <1>9 DEF Busqueda, PlanJusto
    <3> QED BY <1>8, <3>1, TablasQuietas
  <2>3. \A j \in Iniciales' : LoDesplazaElPedido(j)'
    <3> TAKE j \in Iniciales'
    <3>1. LoDesplazaElPedido(j)
      BY <2>1, <1>9 DEF Busqueda, PlanJusto
    <3> QED BY <1>8, <3>1, TablasQuietas
  <2>4. ASSUME NEW j \in Vistos' \ Iniciales'
        PROVE  \E k \in Vistos' \ {j} : LoDesplaza(k, j)'
    <3>1. \E k \in Vistos' \ {j} : LoDesplaza(k, j)
      <4>1. CASE j \in N
        BY <1>1, <1>2, <1>5, <1>7, <4>1
      <4>2. CASE j \notin N
        <5>1. j \in Vistos \ Iniciales
          BY <1>1, <2>1, <4>2
        <5>2. \E k \in Vistos \ {j} : LoDesplaza(k, j)
          BY <1>9, <5>1 DEF Busqueda, PlanJusto
        <5> QED BY <1>1, <5>2
      <4> QED BY <4>1, <4>2
    <3> QED BY <1>8, <3>1, TablasQuietas
  <2> QED BY <2>1, <2>2, <2>3, <2>4 DEF PlanJusto
<1>15. PlanSinPisarse'
  <2>1. ASSUME NEW j \in Vistos', NEW x \in Equipos, destino'[j] = x
        PROVE  x \in Reservables' /\ ~Protegido(j, x)' /\ EnMedio(j, x)' = {}
    <3>1. x # Nada
      BY ReservasAssumption
    <3>2. CASE j = i
      <4>1. x = e
        BY <1>10, <2>1, <3>2
      <4>2. Solapamientos({x}, {FranjaDe(j)})' \subseteq Vistos'
        BY <1>1, <1>6, <1>8, <3>2, <4>1, TablasQuietas
      <4> QED BY <1>0, <1>7, <1>8, <3>2, <4>1, <4>2, TablasQuietas DEF EnMedio
    <3>3. CASE j # i
      <4>1. j \in Vistos /\ destino[j] = x
        BY <1>11, <2>1, <3>1, <3>3
      <4>2. x \in Reservables /\ ~Protegido(j, x) /\ Solapamientos({x}, {FranjaDe(j)}) \subseteq Vistos
        BY <1>9, <4>1 DEF Busqueda, PlanSinPisarse, EnMedio
      <4>3. Solapamientos({x}, {FranjaDe(j)})' \subseteq Vistos'
        BY <1>1, <1>8, <4>2, TablasQuietas
      <4> QED BY <1>8, <4>2, <4>3, TablasQuietas DEF EnMedio
    <3> QED BY <3>2, <3>3
  <2>2. ASSUME NEW j \in Vistos', NEW k \in Vistos', NEW x \in Equipos,
               j # k, destino'[j] = x, destino'[k] = x
        PROVE  ~Solapan(FranjaDe(j), FranjaDe(k))
    <3>1. x # Nada
      BY ReservasAssumption
    <3>2. CASE j = i
      BY <1>4, <1>10, <1>11, <2>2, <3>1, <3>2, SolapanSimetrico
    <3>3. CASE k = i
      BY <1>4, <1>10, <1>11, <2>2, <3>1, <3>3
    <3>4. CASE j # i /\ k # i
      BY <1>9, <1>11, <2>2, <3>1, <3>4 DEF Busqueda, PlanSinPisarse
    <3> QED BY <3>2, <3>3, <3>4
  <2>3. \A j : FranjaDe(j)' = FranjaDe(j)
    BY <1>8, TablasQuietas
  <2>4. \A j, k \in Vistos', x \in Equipos :
           j # k /\ destino'[j] = x /\ destino'[k] = x => ~Solapan(FranjaDe(j), FranjaDe(k))'
    BY <2>2, <2>3 DEF Solapan
  <2> QED BY <2>1, <2>4 DEF PlanSinPisarse
<1>16. LoDescartado'
  <2>1. \A k \in DOMAIN plan' : ~(k < repaso')
    BY <1>1, <1>8
  <2> QED BY <2>1 DEF LoDescartado
<1>17. IInvR'
  <2>1. PedidoPosible'
    BY <1>8, <1>9, TablasQuietas DEF Busqueda
  <2> QED BY <1>8, <1>12, <1>13, <1>14, <1>15, <1>16, <2>1 DEF IInvR, Busqueda
<1>18. PasoSoloCorre
  <2> SUFFICES ASSUME NEW j \in Vistos, destino[j] # Nada, destino'[j] # destino[j]
               PROVE  \E k \in Vistos : /\ destino'[k] = destino[j]
                                        /\ Solapan(FranjaDe(k), FranjaDe(j))
                                        /\ Prefiere(MateriaDe(k), MateriaDe(j), destino[j])
                                        /\ SePuedeRobarPorHorario(FranjaDe(j), ahora)
    BY DEF PasoSoloCorre
  <2>1. j \in C
    BY <1>2, <1>10
  <2> QED BY <1>2, <1>3, <1>7, <1>10, <2>1, SolapanSimetrico DEF PuedeCorrer
<1>19. PasoAvanza
  <2>1. PorIntentar' \in SUBSET PorIntentar
    <3>1. \A j \in Vistos : j \in Vistos' /\ intentados[j] \subseteq intentados'[j]
      BY <1>1
    <3> QED BY <3>1 DEF PorIntentar
  <2>2. <<i, e>> \in PorIntentar /\ <<i, e>> \notin PorIntentar'
    <3>1. i \in Ids
      BY <1>2, <1>9 DEF TypeOKR, Vistos, Range
    <3>2. e \in intentados'[i] /\ i \in Vistos'
      BY <1>1, <1>2
    <3> QED BY <1>0, <1>2, <1>7, <3>1, <3>2 DEF PorIntentar
  <2>3. IsFiniteSet(PorIntentar)
    <3>1. IsFiniteSet(Ids \X Equipos)
      BY IdsFinitos, FS_Product, ReposicionAssumption
    <3>2. PorIntentar \in SUBSET (Ids \X Equipos)
      BY DEF PorIntentar
    <3> QED BY <3>1, <3>2, FS_Subset
  <2>4. Cardinality(PorIntentar') < Cardinality(PorIntentar)
    <3> DEFINE A == PorIntentar
               B == PorIntentar'
    <3>1. B \in SUBSET A /\ A # B /\ IsFiniteSet(A)
      BY <2>1, <2>2, <2>3
    <3> HIDE DEF A, B
    <3>2. IsFiniteSet(B) /\ Cardinality(B) <= Cardinality(A) /\ Cardinality(A) # Cardinality(B)
      BY <3>1, FS_Subset
    <3>3. Cardinality(A) \in Nat /\ Cardinality(B) \in Nat
      BY <3>1, <3>2, FS_CardinalityType
    <3>4. Cardinality(B) < Cardinality(A)
      BY <3>2, <3>3
    <3> QED BY <3>4 DEF A, B
  <2> QED BY <2>4 DEF PasoAvanza
<1> QED BY <1>17, <1>18, <1>19

\* While nobody enters the plan and nobody loses what it gave, what was said of the request
\* and of those displaced goes on holding, and what was not free does not become so.
LEMMA MismoPlan ==
    ASSUME IInvR, EnCascada, UNCHANGED <<vars, pedido, plan>>,
           \A j \in Vistos : destino[j] # Nada => destino'[j] = destino[j]
    PROVE  /\ IInv' /\ PedidoPosible' /\ PlanJusto' /\ Vistos' = Vistos
           /\ \A i \in Vistos, e \in Equipos : Libre(i, e)' => Libre(i, e)
<1>1. UNCHANGED <<vars, pedido>> /\ Vistos' = Vistos
  BY DEF Vistos
<1>2. Busqueda /\ IInv
  BY DEF IInvR
<1>3. IInv'
  BY <1>1, <1>2, QuietoPreserva
<1>4. PedidoPosible'
  BY <1>1, <1>2, TablasQuietas DEF Busqueda
<1>5. PlanJusto'
  <2>1. Iniciales' # {} /\ Iniciales' \subseteq Vistos' /\ Iniciales' = Iniciales
    BY <1>1, <1>2, TablasQuietas DEF Busqueda, PlanJusto
  <2>2. \A j \in Vistos' : Confirmada(j)'
    <3> TAKE j \in Vistos'
    <3>1. Confirmada(j)
      BY <1>1, <1>2 DEF Busqueda, PlanJusto
    <3> QED BY <1>1, <3>1, TablasQuietas
  <2>3. \A j \in Iniciales' : LoDesplazaElPedido(j)'
    <3> TAKE j \in Iniciales'
    <3>1. LoDesplazaElPedido(j)
      BY <2>1, <1>2 DEF Busqueda, PlanJusto
    <3> QED BY <1>1, <3>1, TablasQuietas
  <2>4. \A j \in Vistos' \ Iniciales' : \E k \in Vistos' \ {j} : LoDesplaza(k, j)'
    <3> TAKE j \in Vistos' \ Iniciales'
    <3>1. PICK k \in Vistos \ {j} : LoDesplaza(k, j)
      BY <1>1, <1>2, <2>1 DEF Busqueda, PlanJusto
    <3>2. LoDesplaza(k, j)'
      BY <1>1, <3>1, TablasQuietas
    <3> QED BY <1>1, <3>1, <3>2
  <2> QED BY <2>1, <2>2, <2>3, <2>4 DEF PlanJusto
<1>6. ASSUME NEW i \in Vistos, NEW e \in Equipos, Libre(i, e)' PROVE Libre(i, e)
  <2>1. ~Protegido(i, e)' /\ EnMedio(i, e)' = {} /\ Ocupantes(i, e)' = {}
    BY <1>6 DEF Libre
  <2>2. ~Protegido(i, e)
    BY <1>1, <2>1, TablasQuietas
  <2>3. EnMedio(i, e) = {}
    BY <1>1, <2>1, TablasQuietas DEF EnMedio
  <2>4. Ocupantes(i, e) = {}
    <3> SUFFICES ASSUME NEW j \in Ocupantes(i, e) PROVE FALSE
      OBVIOUS
    <3>1. j \in Vistos /\ destino[j] = e /\ Solapan(FranjaDe(j), FranjaDe(i)) /\ e # Nada
      BY ReservasAssumption DEF Ocupantes
    <3>2. destino'[j] = e /\ FranjaDe(j)' = FranjaDe(j) /\ FranjaDe(i)' = FranjaDe(i)
      BY <1>1, <3>1, TablasQuietas
    <3>3. j \in Ocupantes(i, e)'
      BY <1>1, <3>1, <3>2 DEF Ocupantes, Solapan
    <3> QED BY <2>1, <3>3
  <2> QED BY <2>2, <2>3, <2>4 DEF Libre
<1> QED BY <1>1, <1>3, <1>4, <1>5, <1>6

\* A turn that finds nothing, and the end of the queue.
LEMMA SinAsignarPreserva ==
    ASSUME IInvR, repaso = 0, UNCHANGED <<vars, pedido, plan, destino, intentados>>,
           \/ cola # << >> /\ cola' = Tail(cola) /\ repaso' = 0
           \/ cola = << >> /\ cola' = cola /\ repaso' = 1
    PROVE  IInvR' /\ PasoSoloCorre /\ PasoAvanza
<1>1. /\ TypeOKR /\ EnCascada /\ Busqueda
      /\ plan \in Seq(Ids) /\ Len(plan) \in Nat /\ DOMAIN plan = 1..Len(plan) /\ cola \in Seq(Vistos)
  BY DEF IInvR, TypeOKR, EnCascada
<1>2. IInv' /\ PedidoPosible' /\ PlanJusto' /\ Vistos' = Vistos
  BY <1>1, MismoPlan
<1>3. cola' \in Seq(Vistos) /\ IsInjective(cola') /\ Range(cola') \subseteq Range(cola)
  <2>1. CASE cola # << >> /\ cola' = Tail(cola)
    BY <1>1, <2>1, Cabeza
  <2>2. CASE cola' = cola
    BY <1>1, <2>2 DEF TypeOKR
  <2> QED BY <2>1, <2>2
<1>4. TypeOKR'
  <2>1. repaso' \in 0..Len(plan') + 2
    BY <1>1
  <2> QED BY <1>1, <1>2, <1>3, <2>1 DEF TypeOKR, IInv
<1>5. PlanSinPisarse'
  <2>1. UNCHANGED <<vars, pedido>> /\ destino' = destino /\ Vistos' = Vistos
    BY <1>2
  <2>2. ASSUME NEW j \in Vistos, NEW x \in Equipos, destino[j] = x
        PROVE  x \in Reservables' /\ ~Protegido(j, x)' /\ EnMedio(j, x)' = {}
    <3>1. x \in Reservables /\ ~Protegido(j, x) /\ EnMedio(j, x) = {}
      BY <1>1, <2>2 DEF Busqueda, PlanSinPisarse
    <3> QED BY <2>1, <3>1, TablasQuietas DEF EnMedio
  <2>3. ASSUME NEW j \in Vistos, NEW k \in Vistos, NEW x \in Equipos,
               j # k, destino[j] = x, destino[k] = x
        PROVE  ~Solapan(FranjaDe(j), FranjaDe(k))'
    <3>1. ~Solapan(FranjaDe(j), FranjaDe(k))
      BY <1>1, <2>3 DEF Busqueda, PlanSinPisarse
    <3>2. FranjaDe(j)' = FranjaDe(j) /\ FranjaDe(k)' = FranjaDe(k)
      BY <2>1, TablasQuietas
    <3> QED BY <3>1, <3>2 DEF Solapan
  <2> QED BY <2>1, <2>2, <2>3 DEF PlanSinPisarse
<1>6. LoDescartado'
  <2>1. \A k \in DOMAIN plan' : ~(k < repaso')
    BY <1>1
  <2> QED BY <2>1 DEF LoDescartado
<1>7. repaso' # 0 => cola' = << >>
  OBVIOUS
<1>8. PasoSoloCorre
  BY DEF PasoSoloCorre
<1>9. PasoAvanza
  <2>1. PorIntentar' = PorIntentar
    BY <1>2 DEF PorIntentar
  <2>2. CASE cola # << >> /\ cola' = Tail(cola)
    BY <2>1, <2>2, Cabeza DEF PasoAvanza
  <2>3. CASE cola' = cola /\ repaso' = 1
    BY <1>1, <2>1, <2>3 DEF PasoAvanza
  <2> QED BY <2>2, <2>3
<1> QED BY <1>2, <1>4, <1>5, <1>6, <1>7, <1>8, <1>9 DEF IInvR, Busqueda

LEMMA TurnoPreserva ==
    ASSUME IInvR, Turno
    PROVE  IInvR' /\ PasoSoloCorre /\ PasoAvanza
<1> DEFINE i == Head(cola)
           quedan == Opciones(i) \ intentados[i]
           libres == {e \in quedan : Libre(i, e)}
           tomables == {e \in quedan : Tomable(i, e)}
<1>1. /\ repaso = 0 /\ cola # << >> /\ UNCHANGED <<vars, pedido, repaso>>
      /\ IF libres # {} THEN Asignar(i, Primero(i, libres))
         ELSE IF tomables # {} THEN Asignar(i, Primero(i, tomables)) ELSE QuedarSinEquipo(i)
  BY DEF Turno
<1>2. i \in Vistos /\ EnCascada
  BY <1>1, Cabeza
<1>3. quedan \in SUBSET Equipos
  BY DEF Opciones, Reservables
<1>4. \A D \in SUBSET quedan : D # {} => Primero(i, D) \in D
  BY <1>2, <1>3, PrimeroEs, QuienSeDesplaza
<1>5. CASE libres # {}
  <2> DEFINE e == Primero(i, libres)
  <2>1. e \in libres
    BY <1>4, <1>5
  <2>2. Asignar(i, e)
    BY <1>1, <1>5
  <2> HIDE DEF e
  <2>3. /\ e \in quedan /\ ~Protegido(i, e)
        /\ Ocupantes(i, e) = {} /\ EnMedio(i, e) = {}
    BY <2>1 DEF Libre
  <2> QED BY <1>1, <2>2, <2>3, AsignarPreserva
<1>6. CASE libres = {} /\ tomables # {}
  <2> DEFINE e == Primero(i, tomables)
  <2>1. e \in tomables
    BY <1>4, <1>6
  <2>2. Asignar(i, e)
    BY <1>1, <1>6
  <2> HIDE DEF e
  <2>3. /\ e \in quedan /\ ~Protegido(i, e)
        /\ \A j \in Ocupantes(i, e) : PuedeCorrer(i, j, e)
        /\ \A j \in EnMedio(i, e) : LoDesplaza(i, j)
    BY <2>1 DEF Tomable, LoDesplaza
  <2> QED BY <1>1, <2>2, <2>3, AsignarPreserva
<1>7. CASE libres = {} /\ tomables = {}
  <2>1. QuedarSinEquipo(i)
    BY <1>1, <1>7
  <2>2. cola' = Tail(cola) /\ UNCHANGED <<plan, destino, intentados>> /\ repaso' = 0
    BY <1>1, <2>1 DEF QuedarSinEquipo
  <2> QED BY <1>1, <2>2, SinAsignarPreserva
<1> QED BY <1>5, <1>6, <1>7

\* One place of the second pass.
LEMMA RepasarPreserva ==
    ASSUME IInvR, Repasar
    PROVE  IInvR' /\ PasoSoloCorre /\ PasoAvanza
<1> DEFINE i == plan[repaso]
           e == Primero(i, Faltante(i))
<1>1. /\ repaso \in 1..Len(plan) /\ repaso' = repaso + 1
      /\ UNCHANGED <<vars, pedido, plan, cola, intentados>>
      /\ destino' = IF destino[i] = Nada /\ Faltante(i) # {}
                    THEN [destino EXCEPT ![i] = e] ELSE destino
  BY DEF Repasar
<1>2. /\ TypeOKR /\ plan \in Seq(Ids) /\ Len(plan) \in Nat /\ DOMAIN plan = 1..Len(plan)
      /\ repaso # 0 /\ cola = << >> /\ EnCascada
  BY <1>1 DEF IInvR, TypeOKR, EnCascada
<1>3. Busqueda /\ i \in Vistos
  BY <1>1, <1>2 DEF IInvR, Vistos, Range
<1>4. destino[i] = Nada /\ Faltante(i) # {} => e \in Opciones(i) /\ Libre(i, e) /\ e \in Reservables /\ e \in Equipos
  <2>1. Faltante(i) \in SUBSET Equipos
    BY DEF Faltante, Opciones, Reservables
  <2>2. Faltante(i) # {} => e \in Faltante(i)
    BY <1>2, <1>3, <2>1, PrimeroEs, QuienSeDesplaza
  <2> QED BY <2>2 DEF Faltante, Opciones, Reservables
<1>5. DOMAIN destino = Vistos /\ Nada \notin Equipos
  BY <1>2, ReservasAssumption DEF TypeOKR
<1> HIDE DEF e, i
<1>6. /\ \A j \in Vistos : destino[j] # Nada => destino'[j] = destino[j]
      /\ \A j \in Vistos \ {i} : destino'[j] = destino[j]
      /\ destino[i] = Nada /\ Faltante(i) # {} => destino'[i] = e
  BY <1>1, <1>3, <1>5
<1>7. IInv' /\ PedidoPosible' /\ PlanJusto' /\ Vistos' = Vistos
      /\ \A j \in Vistos, x \in Equipos : Libre(j, x)' => Libre(j, x)
  BY <1>1, <1>2, <1>6, MismoPlan
<1>8. UNCHANGED <<vars, pedido>>
  BY <1>1
<1>9. TypeOKR'
  <2>1. destino' \in [Vistos -> Equipos \cup {Nada}]
    BY <1>1, <1>2, <1>4 DEF TypeOKR
  <2>2. repaso' \in 0..Len(plan') + 2
    BY <1>1, <1>2
  <2>3. \A j \in Range(cola') : destino'[j] = Nada
    BY <1>1, <1>2 DEF Range
  <2> QED BY <1>1, <1>2, <1>7, <2>1, <2>2, <2>3 DEF TypeOKR, IInv
<1>10. ASSUME NEW j \in Vistos, NEW x \in Equipos, destino'[j] = x, destino[j] # x
       PROVE  j = i /\ x = e /\ Libre(i, e) /\ e \in Reservables
  <2>1. j = i /\ destino' # destino /\ x # Nada
    BY <1>5, <1>6, <1>10
  <2>2. destino[i] = Nada /\ Faltante(i) # {}
    BY <1>1, <2>1
  <2> QED BY <1>4, <1>6, <1>10, <2>1, <2>2
<1>11. PlanSinPisarse'
  <2>1. ASSUME NEW j \in Vistos, NEW x \in Equipos, destino'[j] = x
        PROVE  x \in Reservables' /\ ~Protegido(j, x)' /\ EnMedio(j, x)' = {}
    <3>1. x \in Reservables /\ ~Protegido(j, x) /\ EnMedio(j, x) = {}
      <4>1. CASE destino[j] = x
        BY <1>3, <4>1 DEF Busqueda, PlanSinPisarse
      <4>2. CASE destino[j] # x
        BY <1>10, <2>1, <4>2 DEF Libre
      <4> QED BY <4>1, <4>2
    <3> QED BY <1>7, <1>8, <3>1, TablasQuietas DEF EnMedio
  <2>2. ASSUME NEW j \in Vistos, NEW k \in Vistos, NEW x \in Equipos,
               j # k, destino'[j] = x, destino'[k] = x
        PROVE  ~Solapan(FranjaDe(j), FranjaDe(k))
    <3>1. CASE destino[j] = x /\ destino[k] = x
      BY <1>3, <2>2, <3>1 DEF Busqueda, PlanSinPisarse
    <3>2. CASE destino[j] # x
      <4>1. j = i /\ Ocupantes(i, x) = {} /\ destino[k] = x
        BY <1>6, <1>10, <2>2, <3>2 DEF Libre
      <4>2. ~Solapan(FranjaDe(k), FranjaDe(i))
        BY <4>1 DEF Ocupantes
      <4> QED BY <4>1, <4>2, SolapanSimetrico
    <3>3. CASE destino[k] # x
      <4>1. k = i /\ Ocupantes(i, x) = {} /\ destino[j] = x
        BY <1>6, <1>10, <2>2, <3>3 DEF Libre
      <4> QED BY <4>1 DEF Ocupantes
    <3> QED BY <3>1, <3>2, <3>3
  <2>3. \A j : FranjaDe(j)' = FranjaDe(j)
    BY <1>8, TablasQuietas
  <2>4. \A j, k \in Vistos, x \in Equipos :
           j # k /\ destino'[j] = x /\ destino'[k] = x => ~Solapan(FranjaDe(j), FranjaDe(k))'
    BY <2>2, <2>3 DEF Solapan
  <2> QED BY <1>7, <2>1, <2>4 DEF PlanSinPisarse
<1>12. LoDescartado'
  <2> SUFFICES ASSUME NEW k \in DOMAIN plan, NEW j \in Vistos, plan[k] = j, k < repaso + 1,
                      destino'[j] = Nada, NEW x \in Opciones(j)', Libre(j, x)'
               PROVE  FALSE
    BY <1>1, <1>7 DEF LoDescartado
  <2>1. x \in Opciones(j) /\ x \in Equipos
    <3>1. x \in Opciones(j)
      BY <1>8, TablasQuietas
    <3> QED BY <3>1 DEF Opciones, Reservables
  <2>2. Libre(j, x) /\ destino[j] = Nada
    BY <1>6, <1>7, <2>1
  <2>3. CASE k < repaso
    BY <1>3, <2>1, <2>2, <2>3 DEF Busqueda, LoDescartado
  <2>4. CASE k = repaso
    <3>1. x \in Faltante(i) /\ j = i
      BY <2>1, <2>2, <2>4 DEF Faltante, i
    <3> QED BY <1>4, <1>5, <1>6, <2>2, <3>1
  <2>5. k \in Nat /\ repaso \in Nat
    BY <1>1, <1>2
  <2> QED BY <2>3, <2>4, <2>5
<1>13. PasoSoloCorre
  BY <1>6 DEF PasoSoloCorre
<1>14. PasoAvanza
  <2>1. PorIntentar' = PorIntentar
    BY <1>1, <1>7 DEF PorIntentar
  <2> QED BY <1>1, <1>2, <2>1 DEF PasoAvanza
<1> QED BY <1>1, <1>2, <1>7, <1>9, <1>11, <1>12, <1>13, <1>14 DEF IInvR, Busqueda

-----------------------------------------------------------------------------
(* What the plan amounts to                                                  *)

LEMMA PedidoTipo ==
    ASSUME pedido \in Pedido
    PROVE  /\ NuevosGrupos \in SUBSET Grupos /\ FranjasPedidas \in Series
           /\ FranjasPedidas \subseteq Franjas
           /\ pedido.nuevos \in Bijection(NuevosGrupos, FranjasPedidas)
           /\ \A g \in NuevosGrupos : pedido.nuevos[g] \in FranjasPedidas
           /\ pedido.regla \in ReglaDe(NuevosGrupos)
           /\ pedido.quien \in Usuarios /\ pedido.materia \in Materias
           /\ pedido.E \in SUBSET Equipos
           /\ \A g, h \in NuevosGrupos : g # h => ~Solapan(pedido.nuevos[g], pedido.nuevos[h])
<1>1. PICK G \in SUBSET Grupos, F \in Series : pedido.nuevos \in Bijection(G, F)
  BY DEF Pedido
<1>2. pedido.nuevos \in [G -> F] /\ \A f \in F : \E g \in G : pedido.nuevos[g] = f
  BY <1>1 DEF Bijection, Injection, Surjection
<1>3. NuevosGrupos = G /\ FranjasPedidas = F
  BY <1>2 DEF NuevosGrupos, FranjasPedidas, Range
<1>4. F \subseteq Franjas
  BY ReservasAssumption
<1> QED BY <1>1, <1>2, <1>3, <1>4 DEF Pedido, NuevosGrupos

\* The finished plan is one of those Reservas allows whoever asks.
LEMMA PlanPermitido ==
    ASSUME IInvR, EnCascada
    PROVE  destino \in PlanesDeReposicion(pedido.materia, Iniciales, ahora)
<1>1. Busqueda /\ TypeOKR /\ DOMAIN destino = Vistos
  BY DEF IInvR, TypeOKR
<1>2. \A i \in Vistos : destino[i] \in Reservables \cup {Nada}
  <2> TAKE i \in Vistos
  <2>1. destino[i] \in Equipos \cup {Nada}
    BY <1>1 DEF TypeOKR
  <2> QED BY <1>1, <2>1 DEF Busqueda, PlanSinPisarse
<1>3. destino \in [Vistos -> Reservables \cup {Nada}]
  BY <1>1, <1>2 DEF TypeOKR
<1>4. Vistos \in SUBSET NoEmpezadas(ahora)
  BY QuienSeDesplaza
<1>5. PlanJustificado(pedido.materia, Iniciales, destino, ahora)
  BY <1>1 DEF Busqueda, PlanJusto, PlanJustificado, LoDesplaza, LoDesplazaElPedido, MateriaDe
<1>6. Iniciales # {}
  BY <1>1 DEF Busqueda, PlanJusto
<1> QED BY <1>3, <1>4, <1>5, <1>6 DEF PlanesDeReposicion

\* The three ways a row in force got to the table that is written.
LEMMA FilasFinales ==
    ASSUME IInvR, EnCascada, NEW i \in Ids, ConfirmadaEn(TablaFinal, i)
    PROVE  \/ /\ i[1] \in NuevosGrupos /\ i[2] \in pedido.E
              /\ TablaFinal[i].equipo = i[2]
              /\ GruposConLosNuevos[i[1]].franja = pedido.nuevos[i[1]]
           \/ /\ i \in Vistos /\ destino[i] \in Equipos /\ TablaFinal[i].equipo = destino[i]
              /\ GruposConLosNuevos[i[1]].franja = FranjaDe(i)
           \/ /\ i \notin Vistos /\ Confirmada(i) /\ TablaFinal[i].equipo = reservas[i].equipo
              /\ GruposConLosNuevos[i[1]].franja = FranjaDe(i)
<1>1. /\ Busqueda /\ TypeOKR /\ TypeOK /\ Referencias /\ DOMAIN destino = Vistos
      /\ pedido \in Pedido
  BY DEF IInvR, TypeOKR, IInv
<1>2. i[1] \in Grupos /\ i[2] \in Equipos
  BY DEF Ids
<1>3. CASE i[1] \in NuevosGrupos /\ i[2] \in pedido.E
  <2>1. TablaFinal[i] = [estado |-> "CONFIRMADA", equipo |-> i[2]]
    BY <1>3 DEF TablaFinal, ConFilas
  <2>2. GruposConLosNuevos[i[1]].franja = pedido.nuevos[i[1]]
    BY <1>2, <1>3 DEF GruposConLosNuevos, ConClases, NuevosGrupos
  <2> QED BY <1>3, <2>1, <2>2
<1>4. CASE ~(i[1] \in NuevosGrupos /\ i[2] \in pedido.E)
  <2>1. TablaFinal[i] = AplicarPlan(reservas, destino)[i]
    BY <1>4 DEF TablaFinal, ConFilas
  <2>2. ASSUME reservas[i] # Nada PROVE GruposConLosNuevos[i[1]].franja = FranjaDe(i)
    <3>1. i[1] \notin NuevosGrupos
      BY <1>1, <1>2, <2>2 DEF Referencias, Busqueda, PedidoPosible, Libres
    <3> QED BY <1>2, <3>1 DEF GruposConLosNuevos, ConClases, NuevosGrupos, FranjaDe
  <2>3. CASE i \in Vistos
    <3>1. Confirmada(i) /\ reservas[i] # Nada
      BY <2>3, QuienSeDesplaza DEF Confirmada
    <3>2. reservas[i] \in Reserva
      BY <1>1, <3>1, FilaTipo
    <3>3. CASE destino[i] = Nada
      <4>1. TablaFinal[i] = [reservas[i] EXCEPT !.estado = "CANCELADA"]
        BY <1>1, <2>1, <2>3, <3>3 DEF AplicarPlan
      <4>2. TablaFinal[i].estado = "CANCELADA"
        BY <3>2, <4>1 DEF Reserva
      <4> QED BY <4>2 DEF ConfirmadaEn
    <3>4. CASE destino[i] # Nada
      <4>1. TablaFinal[i] = [reservas[i] EXCEPT !.equipo = destino[i]]
        BY <1>1, <2>1, <2>3, <3>4 DEF AplicarPlan
      <4>2. TablaFinal[i].equipo = destino[i]
        BY <3>2, <4>1 DEF Reserva
      <4>3. destino[i] \in Equipos
        BY <1>1, <2>3, <3>4 DEF TypeOKR
      <4> QED BY <2>2, <2>3, <3>1, <4>2, <4>3
    <3> QED BY <3>3, <3>4
  <2>4. CASE i \notin Vistos
    <3>1. TablaFinal[i] = reservas[i]
      BY <1>1, <2>1, <2>4 DEF AplicarPlan
    <3>2. Confirmada(i) /\ reservas[i] # Nada
      BY <3>1 DEF ConfirmadaEn, Confirmada
    <3> QED BY <2>2, <2>4, <3>1, <3>2
  <2> QED BY <2>3, <2>4
<1> QED BY <1>3, <1>4

\* no_solapamiento has nothing to reject in the table that is written.
LEMMA SinChoques ==
    ASSUME IInvR, EnCascada
    PROVE  SinSolapes(TablaFinal, GruposConLosNuevos)
<1> DEFINE rs == TablaFinal
           gs == GruposConLosNuevos
           Nueva(i) == /\ i[1] \in NuevosGrupos /\ i[2] \in pedido.E
                       /\ rs[i].equipo = i[2] /\ gs[i[1]].franja = pedido.nuevos[i[1]]
           Movida(i) == /\ i \in Vistos /\ destino[i] \in Equipos /\ rs[i].equipo = destino[i]
                        /\ gs[i[1]].franja = FranjaDe(i)
           Vieja(i) == /\ i \notin Vistos /\ Confirmada(i) /\ rs[i].equipo = reservas[i].equipo
                       /\ gs[i[1]].franja = FranjaDe(i)
           Choca(i, j) == rs[i].equipo = rs[j].equipo /\ Solapan(gs[i[1]].franja, gs[j[1]].franja)
<1>1. Busqueda /\ TypeOKR /\ NoSolapamiento /\ pedido \in Pedido
  BY DEF IInvR, TypeOKR, IInv
<1>a. \A i \in Ids : i = <<i[1], i[2]>>
  BY DEF Ids
<1>2. \A i \in Ids : ConfirmadaEn(rs, i) => Nueva(i) \/ Movida(i) \/ Vieja(i)
  <2> SUFFICES ASSUME NEW i \in Ids, ConfirmadaEn(rs, i) PROVE Nueva(i) \/ Movida(i) \/ Vieja(i)
    OBVIOUS
  <2> QED BY FilasFinales
<1>3. \A i : Nueva(i) => pedido.nuevos[i[1]] \in FranjasPedidas
  BY <1>1, PedidoTipo
<1>4. \A i, j \in Ids : Nueva(i) /\ Nueva(j) /\ i # j => ~Choca(i, j)
  <2> SUFFICES ASSUME NEW i \in Ids, NEW j \in Ids, Nueva(i), Nueva(j), i # j, rs[i].equipo = rs[j].equipo
               PROVE  ~Solapan(gs[i[1]].franja, gs[j[1]].franja)
    OBVIOUS
  <2>1. i[2] = j[2] /\ i = <<i[1], i[2]>> /\ j = <<j[1], j[2]>>
    BY <1>a
  <2>2. i[1] # j[1]
    BY <2>1
  <2>3. ~Solapan(pedido.nuevos[i[1]], pedido.nuevos[j[1]])
    BY <1>1, <2>2, PedidoTipo
  <2> QED BY <2>3
<1>5. \A i, j \in Ids : Nueva(i) /\ Movida(j) => ~Choca(i, j) /\ ~Choca(j, i)
  <2> SUFFICES ASSUME NEW i \in Ids, NEW j \in Ids, Nueva(i), Movida(j), rs[i].equipo = rs[j].equipo
               PROVE  ~Solapan(FranjaDe(j), pedido.nuevos[i[1]])
    BY SolapanSimetrico
  <2>1. destino[j] \in pedido.E /\ j \in Vistos /\ destino[j] \in Equipos
    OBVIOUS
  <2>2. ~Protegido(j, destino[j])
    BY <1>1, <2>1 DEF Busqueda, PlanSinPisarse
  <2> QED BY <1>3, <2>1, <2>2 DEF Protegido
<1>6. \A i, j \in Ids : Nueva(i) /\ Vieja(j) => ~Choca(i, j) /\ ~Choca(j, i)
  <2> SUFFICES ASSUME NEW i \in Ids, NEW j \in Ids, Nueva(i), Vieja(j), rs[i].equipo = rs[j].equipo
               PROVE  ~Solapan(FranjaDe(j), pedido.nuevos[i[1]])
    BY SolapanSimetrico
  <2>1. reservas[j].equipo \in pedido.E /\ j \notin Vistos /\ Confirmada(j)
    OBVIOUS
  <2>2. j \notin Iniciales
    BY <1>1, <2>1 DEF Busqueda, PlanJusto
  <2> QED BY <1>3, <2>1, <2>2 DEF Iniciales, Solapamientos
<1>7. \A i, j \in Ids : Movida(i) /\ Movida(j) /\ i # j => ~Choca(i, j)
  <2> SUFFICES ASSUME NEW i \in Ids, NEW j \in Ids, Movida(i), Movida(j), i # j, rs[i].equipo = rs[j].equipo
               PROVE  ~Solapan(FranjaDe(i), FranjaDe(j))
    OBVIOUS
  <2>1. /\ i \in Vistos /\ j \in Vistos /\ destino[i] \in Equipos /\ destino[i] = destino[j]
    OBVIOUS
  <2> QED BY <1>1, <2>1 DEF Busqueda, PlanSinPisarse
<1>8. \A i, j \in Ids : Movida(i) /\ Vieja(j) => ~Choca(i, j) /\ ~Choca(j, i)
  <2> SUFFICES ASSUME NEW i \in Ids, NEW j \in Ids, Movida(i), Vieja(j), rs[i].equipo = rs[j].equipo
               PROVE  ~Solapan(FranjaDe(j), FranjaDe(i))
    BY SolapanSimetrico
  <2>1. destino[i] \in Equipos /\ i \in Vistos /\ reservas[j].equipo = destino[i] /\ j \notin Vistos /\ Confirmada(j)
    OBVIOUS
  <2>2. EnMedio(i, destino[i]) = {}
    BY <1>1, <2>1 DEF Busqueda, PlanSinPisarse
  <2> QED BY <2>1, <2>2 DEF EnMedio, Solapamientos
<1>9. \A i, j \in Ids : Vieja(i) /\ Vieja(j) /\ i # j => ~Choca(i, j)
  BY <1>1 DEF NoSolapamiento, SinSolapes, Confirmada, FranjaDe
<1>10. \A i, j \in Ids : ConfirmadaEn(rs, i) /\ ConfirmadaEn(rs, j) /\ i # j => ~Choca(i, j)
  <2> HIDE DEF Nueva, Movida, Vieja, Choca, rs
  <2> QED BY <1>2, <1>4, <1>5, <1>6, <1>7, <1>8, <1>9
<1> HIDE DEF rs, gs
<1>11. SinSolapes(rs, gs)
  BY <1>10 DEF SinSolapes, ConfirmadaEn
<1> QED BY <1>11 DEF rs, gs

\* The step that writes is a CrearReserva of the component.
LEMMA EscribirCrea ==
    ASSUME IInvR, Escribir
    PROVE  /\ EnCascada /\ pedido.E # {}
           /\ CrearReserva(pedido.quien, pedido.materia, FranjasPedidas, pedido.E, pedido.E)
<1> DEFINE t == ahora
           rs == AplicarPlan(reservas, destino)
           gs == GruposConLosNuevos
           q == pedido.quien
           m == pedido.materia
           F == FranjasPedidas
           E == pedido.E
           G == NuevosGrupos
           n == pedido.nuevos
           r == pedido.regla
<1>1. /\ repaso = Len(plan) + 1
      /\ reservas' = ConFilas(rs, G, E)
      /\ grupos' = Recalculados(gs, rs, GruposDe(Canceladas(destino)))
      /\ UNCHANGED <<equipos, ahora>>
  BY DEF Escribir, Planificado, TablaFinal
<1>2. EnCascada /\ Len(plan) \in Nat
  BY <1>1 DEF EnCascada, IInvR, TypeOKR
<1>3. Busqueda /\ TypeOK /\ pedido \in Pedido
  BY <1>2 DEF IInvR, TypeOKR, IInv
<1>4. t \in Relojes
  <2>1. ahora \in Nat /\ ahora \in 0..ahora /\ ahora - ahora = 0
    BY <1>3, IInvTablas
  <2> QED BY <2>1, ReservasAssumption DEF Relojes
<1>5. /\ PuedeReservar(m, q) /\ E \subseteq Reservables /\ G \in SUBSET Libres
      /\ \A f \in F : ~YaTermino(f, t)
  BY <1>3 DEF Busqueda, PedidoPosible
<1>6. destino \in PlanesDeReposicion(m, Solapamientos(E, F), t)
  BY <1>2, PlanPermitido DEF Iniciales
<1>7. \A i \in Solapamientos(E, F) : reservas[i].equipo \in E
  BY DEF Solapamientos
<1>8. n \in Bijection(G, F) /\ r \in ReglaDe(G)
  BY <1>3, PedidoTipo
<1>9. gs = ConClases(grupos, n, m, q, r)
  BY DEF GruposConLosNuevos
<1>10. SinSolapes(reservas', gs)
  BY <1>1, <1>2, SinChoques DEF TablaFinal
<1>11. E # {}
  <2>1. PICK i \in Iniciales : TRUE
    BY <1>3 DEF Busqueda, PlanJusto
  <2> QED BY <2>1 DEF Iniciales, Solapamientos
<1> HIDE DEF t, rs, gs, q, m, F, E, G, n, r
<1>12. \E nuevos \in Bijection(G, F), regla \in ReglaDe(G) :
          /\ reservas' = ConFilas(rs, G, E)
          /\ SinSolapes(reservas', ConClases(grupos, nuevos, m, q, regla))
          /\ grupos' = Recalculados(ConClases(grupos, nuevos, m, q, regla), rs,
                                    GruposDe(Canceladas(destino)))
  BY <1>1, <1>8, <1>9, <1>10
<1>13. \E p \in PlanesDeReposicion(m, Solapamientos(E, F), t), H \in SUBSET Libres :
       \E nuevos \in Bijection(H, F), regla \in ReglaDe(H) :
          /\ reservas' = ConFilas(AplicarPlan(reservas, p), H, E)
          /\ SinSolapes(reservas', ConClases(grupos, nuevos, m, q, regla))
          /\ grupos' = Recalculados(ConClases(grupos, nuevos, m, q, regla), AplicarPlan(reservas, p),
                                    GruposDe(Canceladas(p)))
  BY <1>5, <1>6, <1>12 DEF rs
<1>14. CrearReserva(q, m, F, E, E)
  BY <1>1, <1>4, <1>5, <1>7, <1>13 DEF CrearReserva
<1> QED BY <1>2, <1>11, <1>14 DEF q, m, F, E

LEMMA EscribirPreserva ==
    ASSUME IInvR, Escribir
    PROVE  IInvR' /\ PasoSoloCorre /\ PasoAvanza /\ Paso
<1>1. /\ repaso = Len(plan) + 1 /\ repaso' = repaso + 1
      /\ UNCHANGED <<pedido, plan, cola, destino, intentados>>
  BY DEF Escribir, Planificado
<1>2. TypeOKR /\ IInv /\ Len(plan) \in Nat /\ pedido \in Pedido
  BY DEF IInvR, TypeOKR
<1>3. IInv' /\ Paso
  <2>1. /\ pedido.quien \in Usuarios /\ pedido.materia \in Materias
        /\ FranjasPedidas \in Series /\ pedido.E \in SUBSET Equipos
    BY <1>2, PedidoTipo
  <2> QED BY <1>2, <2>1, EscribirCrea, CrearPreserva
<1>4. Vistos' = Vistos
  BY <1>1 DEF Vistos
<1>5. TypeOKR'
  <2>1. repaso' \in 0..Len(plan') + 2
    BY <1>1, <1>2
  <2> QED BY <1>1, <1>2, <1>3, <1>4, <2>1 DEF TypeOKR, IInv
<1>6. ~EnCascada' /\ (repaso' # 0 => cola' = << >>)
  BY <1>1, <1>2 DEF EnCascada, IInvR
<1>7. PasoSoloCorre
  BY <1>1 DEF PasoSoloCorre
<1>8. PasoAvanza
  <2>1. PorIntentar' = PorIntentar
    BY <1>1, <1>4 DEF PorIntentar
  <2> QED BY <1>1, <1>2, <2>1 DEF PasoAvanza
<1> QED BY <1>3, <1>5, <1>6, <1>7, <1>8 DEF IInvR

-----------------------------------------------------------------------------
(* Theorems                                                                  *)

LEMMA InitIInvR == InitR => IInvR
<1> SUFFICES ASSUME InitR PROVE IInvR
  OBVIOUS
<1>1. /\ TypeOK /\ Referencias
      /\ NoSolapamiento /\ GrupoCoherente /\ SinPromesasFueraDeCirculacion
      /\ Iniciales # {}
      /\ \A i \in Iniciales : SePuedeRobar(pedido.materia, i, ahora)
      /\ plan = EnOrden(Iniciales) /\ cola = plan
      /\ destino = [i \in Vistos |-> Nada] /\ intentados = [i \in Vistos |-> {}]
      /\ repaso = 0
  BY DEF InitR
<1>2. PedidoPosible
  BY DEF InitR, PedidoPosible
<1>3. pedido \in Pedido
  BY ReposicionAssumption DEF InitR
<1>4. Iniciales \in SUBSET Ids /\ \A i \in Iniciales : Confirmada(i) /\ FranjaDe(i).ini \in Nat
  <2> SUFFICES ASSUME NEW i \in Iniciales PROVE i \in Ids /\ Confirmada(i) /\ FranjaDe(i).ini \in Nat
    OBVIOUS
  <2>1. i \in Ids /\ Confirmada(i)
    BY DEF Iniciales, Solapamientos
  <2> QED BY <1>1, <2>1, FilaTipo DEF Confirmada
<1>5. plan \in Seq(Ids) /\ IsInjective(plan) /\ Vistos = Iniciales /\ cola \in Seq(Vistos)
  BY <1>1, <1>4, EnOrdenDe, EnTiposSeq DEF Vistos
<1>6. Len(plan) \in Nat
  BY <1>5
<1>7. TypeOKR
  <2>1. 0 \in 0..Len(plan) + 2
    BY <1>6
  <2>2. \A i \in Range(cola) : destino[i] = Nada
    BY <1>1 DEF Vistos
  <2> QED BY <1>1, <1>3, <1>5, <2>1, <2>2 DEF TypeOKR
<1>8. PlanJusto
  BY <1>1, <1>4, <1>5 DEF PlanJusto, LoDesplazaElPedido
<1>9. PlanSinPisarse
  <2>1. \A i \in Vistos : destino[i] \notin Equipos
    BY <1>1, ReservasAssumption
  <2> QED BY <2>1 DEF PlanSinPisarse
<1>10. LoDescartado
  <2>1. \A k \in DOMAIN plan : ~(k < repaso)
    BY <1>1, <1>5
  <2> QED BY <2>1 DEF LoDescartado
<1> QED BY <1>1, <1>2, <1>7, <1>8, <1>9, <1>10 DEF IInvR, IInv, Busqueda

LEMMA NextIInvR ==
    ASSUME IInvR, NextR
    PROVE  IInvR' /\ PasoSoloCorre /\ PasoAvanza
<1>1. CASE Turno
  BY <1>1, TurnoPreserva
<1>2. CASE FinDeCola
  <2>1. /\ repaso = 0 /\ cola = << >> /\ repaso' = 1
        /\ UNCHANGED <<vars, pedido, plan, cola, destino, intentados>>
    BY <1>2 DEF FinDeCola
  <2> QED BY <2>1, SinAsignarPreserva
<1>3. CASE Repasar
  BY <1>3, RepasarPreserva
<1>4. CASE Escribir
  BY <1>4, EscribirPreserva
<1> QED BY <1>1, <1>2, <1>3, <1>4 DEF NextR

LEMMA QuietoR ==
    ASSUME IInvR, UNCHANGED varsR
    PROVE  IInvR'
<1>1. UNCHANGED <<reservas, grupos, equipos, ahora, pedido, plan, cola, destino, intentados, repaso>>
  BY DEF varsR
<1>2. UNCHANGED <<vars, pedido>> /\ Vistos' = Vistos
  BY <1>1 DEF vars, Vistos
<1>3. IInv'
  BY <1>2, QuietoPreserva DEF IInvR
<1>4. TypeOKR' /\ (repaso' # 0 => cola' = << >>)
  BY <1>1, <1>2, <1>3 DEF IInvR, IInv, TypeOKR
<1>5. ASSUME EnCascada' PROVE Busqueda'
  <2>1. EnCascada
    BY <1>1, <1>5 DEF EnCascada
  <2>2. PedidoPosible' /\ PlanJusto' /\ \A i \in Vistos, e \in Equipos : Libre(i, e)' => Libre(i, e)
    BY <1>1, <1>2, <2>1, MismoPlan
  <2>3. PlanSinPisarse'
    <3>1. \A i : FranjaDe(i)' = FranjaDe(i)
      BY <1>2, TablasQuietas
    <3>2. \A i, e : (Protegido(i, e)' <=> Protegido(i, e)) /\ EnMedio(i, e)' = EnMedio(i, e)
                    /\ Reservables' = Reservables
      BY <1>2, TablasQuietas DEF EnMedio
    <3>3. \A i, j : Solapan(FranjaDe(i), FranjaDe(j))' <=> Solapan(FranjaDe(i), FranjaDe(j))
      BY <3>1 DEF Solapan
    <3> QED BY <1>1, <1>2, <2>1, <3>2, <3>3 DEF PlanSinPisarse, IInvR, Busqueda
  <2>4. LoDescartado'
    <3>1. \A i : Opciones(i)' = Opciones(i)
      BY <1>2, TablasQuietas
    <3>2. \A i : Opciones(i) \subseteq Equipos
      BY DEF Opciones, Reservables
    <3> QED BY <1>1, <1>2, <2>1, <2>2, <3>1, <3>2 DEF LoDescartado, IInvR, Busqueda
  <2> QED BY <2>2, <2>3, <2>4 DEF Busqueda
<1> QED BY <1>3, <1>4, <1>5 DEF IInvR

\* The plan is at every step of the search one that may still be written.
THEOREM BusquedaCoherente == SpecR => []IInvR
<1>1. InitR => IInvR
  BY InitIInvR
<1>2. IInvR /\ [NextR]_varsR => IInvR'
  BY NextIInvR, QuietoR
<1> QED BY <1>1, <1>2, PTL DEF SpecR

\* The plan and its queue keep their types: nobody is twice in either.
THEOREM BusquedaTipos == SpecR => []TypeOKR
<1>1. IInvR => TypeOKR
  BY DEF IInvR
<1> QED BY <1>1, BusquedaCoherente, PTL

\* A finished plan meets nobody, and cancels nobody for whom there is a device free.
THEOREM PlanSiempreCorrecto == SpecR => []PlanCorrecto
<1>1. IInvR => PlanCorrecto
  <2> SUFFICES ASSUME IInvR, Planificado PROVE PlanSinChoques /\ NadieSinEquipoHabiendoLibre
    BY DEF PlanCorrecto, PlanSinChoques, NadieSinEquipoHabiendoLibre
  <2>1. repaso = Len(plan) + 1 /\ Len(plan) \in Nat /\ DOMAIN plan = 1..Len(plan) /\ EnCascada
    BY DEF Planificado, IInvR, TypeOKR, EnCascada
  <2>2. PlanSinChoques
    BY <2>1, SinChoques DEF PlanSinChoques
  <2>3. \A i \in Vistos : destino[i] = Nada => \A e \in Opciones(i) : ~Libre(i, e)
    <3> TAKE i \in Vistos
    <3>1. PICK k \in DOMAIN plan : plan[k] = i
      BY DEF Vistos, Range
    <3>2. k < repaso
      BY <2>1
    <3> QED BY <2>1, <3>1, <3>2 DEF IInvR, Busqueda, LoDescartado
  <2> QED BY <2>2, <2>3 DEF NadieSinEquipoHabiendoLibre
<1> QED BY <1>1, BusquedaCoherente, PTL

\* What the whole search writes is one CrearReserva of the component.
THEOREM LaBusquedaEsUnaCreacion == SpecR => EsUnaCreacion
<1> DEFINE A == UNCHANGED vars
                \/ CrearReserva(pedido.quien, pedido.materia, FranjasPedidas, pedido.E, pedido.E)
<1>1. IInvR /\ [NextR]_varsR => [A]_vars
  <2> SUFFICES ASSUME IInvR, NextR PROVE A
    BY DEF varsR, vars
  <2>1. CASE Turno
    BY <2>1 DEF Turno
  <2>2. CASE FinDeCola
    BY <2>2 DEF FinDeCola
  <2>3. CASE Repasar
    BY <2>3 DEF Repasar
  <2>4. CASE Escribir
    BY <2>4, EscribirCrea
  <2> QED BY <2>1, <2>2, <2>3, <2>4 DEF NextR
<1>2. SpecR => [][A]_vars
  BY <1>1, BusquedaCoherente, PTL DEF SpecR
<1> QED BY <1>2 DEF EsUnaCreacion

\* The search, however long, is a behaviour of Reservas: its steps leave the tables alone
\* or create a class, and with that every guarantee of Reservas holds of the cascade.
THEOREM LaBusquedaImplementaReservas ==
    SpecR => [][Next]_vars /\ []IInv /\ LoIntocableNoSeDesplaza /\ CierreDefinitivo
<1>1. IInvR /\ [NextR]_varsR => [Next]_vars
  <2> SUFFICES ASSUME IInvR, NextR PROVE [Next]_vars
    BY DEF varsR, vars
  <2>1. CASE UNCHANGED vars
    BY <2>1
  <2>2. CASE Escribir
    <3>1. /\ pedido.quien \in Usuarios /\ pedido.materia \in Materias
          /\ FranjasPedidas \in Series /\ pedido.E \in SUBSET Equipos
      BY PedidoTipo DEF IInvR, TypeOKR
    <3>2. pedido.E \in (SUBSET Equipos) \ {{}} /\ pedido.E \in SUBSET pedido.E
      BY <2>2, <3>1, EscribirCrea
    <3>3. CrearReserva(pedido.quien, pedido.materia, FranjasPedidas, pedido.E, pedido.E)
      BY <2>2, EscribirCrea
    <3>4. Crear
      BY <3>1, <3>2, <3>3 DEF Crear
    <3> QED BY <3>4 DEF Next
  <2> QED BY <2>1, <2>2 DEF NextR, Turno, FinDeCola, Repasar
<1>2. IInvR => IInv
  BY DEF IInvR
<1>3. IInv /\ [Next]_vars => [PasoLoIntocable]_vars /\ [PasoCierreDefinitivo]_vars
  BY NextIInv DEF Paso
<1>4. SpecR => [][Next]_vars /\ []IInv
  BY <1>1, <1>2, BusquedaCoherente, PTL DEF SpecR
<1>5. SpecR => [][PasoLoIntocable]_vars /\ [][PasoCierreDefinitivo]_vars
  BY <1>3, <1>4, PTL
<1> QED BY <1>4, <1>5 DEF LoIntocableNoSeDesplaza, PasoLoIntocable, CierreDefinitivo, PasoCierreDefinitivo

\* Whoever loses a device of the plan loses it to a strictly stronger claim.
THEOREM SoloSeCorreAlQueCede == SpecR => SoloCorreQuienPrefiere
<1>1. IInvR /\ [NextR]_varsR => [PasoSoloCorre]_varsR
  BY NextIInvR
<1>2. SpecR => [][PasoSoloCorre]_varsR
  BY <1>1, BusquedaCoherente, PTL DEF SpecR
<1> QED BY <1>2 DEF SoloCorreQuienPrefiere, PasoSoloCorre

Medidas ==
    /\ Cardinality(PorIntentar) \in Nat
    /\ Len(cola) \in Nat
    /\ repaso \in Nat /\ Len(plan) \in Nat /\ repaso <= Len(plan) + 2

\* No step of the search undoes the progress of another: there are fewer devices to try,
\* or as many and a shorter queue, or a place less of the second pass. The three are
\* counted with natural numbers, so no run of the search is infinite.
THEOREM CadaPasoAvanza == SpecR => []Medidas /\ [][PasoAvanza]_varsR
<1>1. IInvR => Medidas
  <2> SUFFICES ASSUME IInvR PROVE Medidas
    OBVIOUS
  <2>1. IsFiniteSet(Ids \X Equipos) /\ PorIntentar \in SUBSET (Ids \X Equipos)
    BY IdsFinitos, FS_Product, ReposicionAssumption DEF PorIntentar
  <2>2. Cardinality(PorIntentar) \in Nat
    BY <2>1, FS_Subset, FS_CardinalityType
  <2>3. Len(cola) \in Nat /\ repaso \in Nat /\ Len(plan) \in Nat /\ repaso <= Len(plan) + 2
    BY DEF IInvR, TypeOKR
  <2> QED BY <2>2, <2>3 DEF Medidas
<1>2. IInvR /\ [NextR]_varsR => [PasoAvanza]_varsR
  BY NextIInvR
<1> QED BY <1>1, <1>2, BusquedaCoherente, PTL DEF SpecR
=============================================================================
