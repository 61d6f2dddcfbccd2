----------------------------- MODULE Gestion_proofs -----------------------------
(* Proofs about what an Admin manages of people and years, as MCGestion puts it  *)
(* together: the accounts of Cuentas, the passwords and sessions of Credenciales,*)
(* and the requests, courses and years of PedidosDeMateria, EdicionDeCurso and   *)
(* CierreAnual, which share no state; each for any number of rows, people and    *)
(* requests.                                                                     *)
EXTENDS Cuentas, Credenciales, PedidosDeMateria, EdicionDeCurso, CierreAnual,
        SequenceTheorems, FiniteSetTheorems, WellFoundedInduction, TLAPS

-----------------------------------------------------------------------------
(* Cuentas                                                                   *)

\* The transaction that prepares a discharge holds the institutional lock alone.
Prepara(x) == x.op = "baja" /\ x.paso \in {"contar", "contando", "escribir"}

\* A request only goes on to its write with a reading that admits the change, and
\* without counting only if no admin is lost.
BienLeido(x) ==
    /\ x.op \in Cambios \ {"baja"} => Admite(x.leida, x.op)
    /\ Prepara(x) => x.leida.estado \in {"APROBADA", "BAJA"}
    /\ x.paso = "escribir" =>
          /\ x.op # "degradar"
          /\ x.op = "baja" => ~(x.leida.rol = "ADMIN" /\ x.leida.estado = "APROBADA")

LeidoBien == \A p \in Procesos : abierta[p] # Nada => BienLeido(abierta[p])

\* The rows a request holds are of admins, and of no other request.
FilasPropias ==
    /\ \A p \in Procesos : abierta[p] # Nada => abierta[p].tomadas \subseteq AdminsAprobados
    /\ \A p, q \in Procesos :
          p # q /\ abierta[p] # Nada /\ abierta[q] # Nada
          => abierta[p].tomadas \cap abierta[q].tomadas = {}

UnoCoordina == \A p, q \in Procesos : Coordina(p) /\ Coordina(q) => p = q

SinBajaTodavia == \A p \in Procesos : Coordina(p) => bajas[abierta[p].u] = Nada

PedidosSanos == LeidoBien /\ FilasPropias /\ UnoCoordina /\ SinBajaTodavia

BajasDeBaja == \A u \in Personas : bajas[u] # Nada => cuentas[u].estado = "BAJA"

\* What was announced is not pending, nor ever will be.
AnunciadoNoVuelve ==
    \A u \in Personas, m \in Materias :
        anuncios[<<u, m>>] # 0 =>
            \/ bajas[u] # Nada /\ m \notin bajas[u].pendientes
            \/ cuentas[u].estado = "ELIMINADA"

TablasSanas ==
    /\ SiempreHayAdmin
    /\ BajasDeBaja
    /\ BajaSinRestos
    /\ AnunciadoNoVuelve
    /\ UnAnuncioPorMateria
    /\ ClaseConDocente

IInvCt == TypeOKCt /\ PedidosSanos /\ TablasSanas

-----------------------------------------------------------------------------
(* The beginning                                                             *)

\* One admin, no request, and the discharges that migration 020 left pending.
LEMMA InicioCt == ASSUME CuentasAssumption, InitCt PROVE IInvCt
<1>1. Nada \notin ProcesoBaja /\ Nada \notin Pedido /\ Primera \in Personas
  BY DEF CuentasAssumption
<1>2. TypeOKCt
  <2>1. cuentas \in [Personas -> Usuario]
    BY DEF InitCt, Usuario, Roles, Estados
  <2>2. asignados \subseteq Personas \X Materias
    BY DEF InitCt, CuentasAssumption
  <2>3. bajas \in [Personas -> ProcesoBaja \cup {Nada}]
    BY DEF InitCt, ProcesoBaja, MateriasDeDocente
  <2>4. QED  BY <2>1, <2>2, <2>3 DEF InitCt, TypeOKCt
<1>3. PedidosSanos
  BY DEF InitCt, PedidosSanos, LeidoBien, FilasPropias, UnoCoordina, SinBajaTodavia, Coordina
<1>4. SiempreHayAdmin
  BY <1>1 DEF InitCt, SiempreHayAdmin, AdminsAprobados, AdminActivo, Aprobada
<1>5. BajasDeBaja
  <2>1. \A u \in Personas : bajas[u] # Nada => u \in Legadas /\ u # Primera
    BY <1>1 DEF InitCt, MateriasDeDocente, CuentasAssumption
  <2>2. QED  BY <2>1 DEF InitCt, BajasDeBaja
<1>6. BajaSinRestos
  <2>1. \A u \in Personas : bajas[u] # Nada => ~bajas[u].completada
    BY DEF InitCt
  <2>2. QED  BY <2>1 DEF BajaSinRestos
<1>7. AnunciadoNoVuelve /\ UnAnuncioPorMateria /\ ClaseConDocente
  BY DEF InitCt, AnunciadoNoVuelve, UnAnuncioPorMateria, ClaseConDocente
<1>8. QED  BY <1>2, <1>3, <1>4, <1>5, <1>6, <1>7 DEF IInvCt, TablasSanas

-----------------------------------------------------------------------------
(* One request takes a step                                                  *)

\* What a step of one request has to respect for the requests to stay sound.
LEMMA CambiaUnPedido ==
    ASSUME TypeOKCt, PedidosSanos, CuentasAssumption,
           NEW p \in Procesos, NEW x \in Pedido \cup {Nada},
           abierta' = [abierta EXCEPT ![p] = x],
           x # Nada => /\ BienLeido(x)
                       /\ x.tomadas \subseteq AdminsAprobados'
                       /\ x.tomadas \cap Ajenas(p) = {}
                       /\ Prepara(x) => PuedeCoordinar(p) /\ bajas'[x.u] = Nada,
           \A q \in Procesos \ {p} : abierta[q] # Nada =>
               /\ abierta[q].tomadas \subseteq AdminsAprobados'
               /\ Coordina(q) => bajas'[abierta[q].u] = Nada
    PROVE  PedidosSanos' /\ abierta' \in [Procesos -> Pedido \cup {Nada}]
<1>1. abierta \in [Procesos -> Pedido \cup {Nada}]
  BY DEF TypeOKCt
<1>2. abierta'[p] = x /\ \A q \in Procesos \ {p} : abierta'[q] = abierta[q]
  BY <1>1
<1>3. \A q \in Procesos : Coordina(q) <=> abierta[q] # Nada /\ Prepara(abierta[q])
  BY DEF Coordina, Prepara
<1>4. \A q \in Procesos : Coordina(q)' <=> abierta'[q] # Nada /\ Prepara(abierta'[q])
  BY DEF Coordina, Prepara
<1>5. LeidoBien'
  <2>1. \A q \in Procesos : abierta'[q] # Nada => BienLeido(abierta'[q])
    BY <1>2 DEF PedidosSanos, LeidoBien
  <2>2. QED  BY <2>1 DEF LeidoBien
<1>6. \A q \in Procesos \ {p} : abierta[q] # Nada => abierta[q].tomadas \subseteq Ajenas(p)
  BY DEF Ajenas
<1>7. FilasPropias'
  <2>1. \A q \in Procesos : abierta'[q] # Nada => abierta'[q].tomadas \subseteq AdminsAprobados'
    BY <1>2
  <2>2. \A q, r \in Procesos :
          q # r /\ abierta'[q] # Nada /\ abierta'[r] # Nada
          => abierta'[q].tomadas \cap abierta'[r].tomadas = {}
    <3>1. SUFFICES ASSUME NEW q \in Procesos, NEW r \in Procesos, q # r,
                          abierta'[q] # Nada, abierta'[r] # Nada
                   PROVE  abierta'[q].tomadas \cap abierta'[r].tomadas = {}
      OBVIOUS
    <3>2. CASE q = p  BY <3>1, <3>2, <1>2, <1>6
    <3>3. CASE r = p  BY <3>1, <3>3, <1>2, <1>6
    <3>4. CASE q # p /\ r # p
      BY <3>1, <3>4, <1>2 DEF PedidosSanos, FilasPropias
    <3>5. QED  BY <3>2, <3>3, <3>4
  <2>3. QED  BY <2>1, <2>2 DEF FilasPropias
<1>8. UnoCoordina'
  <2>1. \A q, r \in Procesos : Coordina(q)' /\ Coordina(r)' => q = r
    <3>1. SUFFICES ASSUME NEW q \in Procesos, NEW r \in Procesos, q # r,
                          Coordina(q)', Coordina(r)'
                   PROVE  FALSE
      OBVIOUS
    <3>2. CASE q = p  BY <3>1, <3>2, <1>2, <1>3, <1>4 DEF PuedeCoordinar
    <3>3. CASE r = p  BY <3>1, <3>3, <1>2, <1>3, <1>4 DEF PuedeCoordinar
    <3>4. CASE q # p /\ r # p
      BY <3>1, <3>4, <1>2, <1>3, <1>4 DEF PedidosSanos, UnoCoordina
    <3>5. QED  BY <3>2, <3>3, <3>4
  <2>2. QED  BY <2>1 DEF UnoCoordina
<1>9. SinBajaTodavia'
  <2>1. \A q \in Procesos : Coordina(q)' => bajas'[abierta'[q].u] = Nada
    BY <1>2, <1>3, <1>4
  <2>2. QED  BY <2>1 DEF SinBajaTodavia
<1>10. abierta' \in [Procesos -> Pedido \cup {Nada}]
  BY <1>1
<1>11. QED  BY <1>5, <1>7, <1>8, <1>9, <1>10 DEF PedidosSanos

\* A request that only reads leaves what is in the database as sound as it was.
LEMMA SoloLee ==
    ASSUME IInvCt, CuentasAssumption, UNCHANGED tablas,
           NEW p \in Procesos, NEW x \in Pedido \cup {Nada},
           abierta' = [abierta EXCEPT ![p] = x],
           x # Nada => /\ BienLeido(x)
                       /\ x.tomadas \subseteq AdminsAprobados
                       /\ x.tomadas \cap Ajenas(p) = {}
                       /\ Prepara(x) => PuedeCoordinar(p) /\ bajas[x.u] = Nada
    PROVE  IInvCt'
<1>1. /\ cuentas' = cuentas /\ asignados' = asignados /\ bajas' = bajas
      /\ clases' = clases /\ anuncios' = anuncios
  BY DEF tablas
<1>2. AdminsAprobados' = AdminsAprobados
  BY <1>1 DEF AdminsAprobados, AdminActivo, Aprobada
<1>3. \A q \in Procesos \ {p} : abierta[q] # Nada =>
        /\ abierta[q].tomadas \subseteq AdminsAprobados'
        /\ Coordina(q) => bajas'[abierta[q].u] = Nada
  BY <1>1, <1>2 DEF IInvCt, PedidosSanos, FilasPropias, SinBajaTodavia
<1>4. TypeOKCt /\ PedidosSanos
  BY DEF IInvCt
<1>5. PedidosSanos' /\ abierta' \in [Procesos -> Pedido \cup {Nada}]
  BY <1>1, <1>2, <1>3, <1>4, CambiaUnPedido
<1>6. TypeOKCt'
  BY <1>1, <1>4, <1>5 DEF TypeOKCt
<1>7. TablasSanas'
  BY <1>1 DEF IInvCt, TablasSanas, SiempreHayAdmin, BajasDeBaja, BajaSinRestos,
     AnunciadoNoVuelve, UnAnuncioPorMateria, ClaseConDocente, AdminsAprobados, AdminActivo,
     Aprobada, MateriasDeDocente, BajaPendiente
<1>8. QED  BY <1>5, <1>6, <1>7 DEF IInvCt
-----------------------------------------------------------------------------
(* The requests that only read                                               *)

\* What Abrir puts into the table of requests.
LEMMA PedidoAbierto ==
    ASSUME IInvCt, NEW p \in Procesos, NEW op \in Operaciones, NEW u \in Personas,
           NEW paso \in Pasos, NEW lista \in SUBSET Materias, Abrir(p, op, u, paso, lista)
    PROVE  \E x \in Pedido :
              /\ abierta' = [abierta EXCEPT ![p] = x]
              /\ x.op = op /\ x.u = u /\ x.paso = paso /\ x.leida = cuentas[u] /\ x.tomadas = {}
<1> DEFINE x == [op |-> op, u |-> u, paso |-> paso, leida |-> cuentas[u],
                 porTomar |-> {}, tomadas |-> {}, lista |-> lista, fallo |-> FALSE]
<1>1. cuentas[u] \in Usuario
  BY DEF IInvCt, TypeOKCt
<1>2. x \in Pedido
  BY <1>1 DEF Pedido
<1>3. QED  BY <1>2 DEF Abrir

\* A change of role or state is asked for on a reading that admits it.
LEMMA PidenUnCambio ==
    ASSUME IInvCt, CuentasAssumption, NEW p \in Procesos, NEW u \in Personas,
           NEW op \in Cambios \ {"baja"}, PedirCambio(p, u, op)
    PROVE  IInvCt'
<1>1. PrimerPaso(u, op) \in Pasos /\ op \in Operaciones
  BY DEF PrimerPaso, Pasos, Operaciones
<1>2. PICK x \in Pedido :
        /\ abierta' = [abierta EXCEPT ![p] = x]
        /\ x.op = op /\ x.u = u /\ x.paso = PrimerPaso(u, op) /\ x.leida = cuentas[u] /\ x.tomadas = {}
  BY <1>1, PedidoAbierto DEF PedirCambio
<1>3. x.paso = "escribir" => x.op # "degradar"
  BY <1>2 DEF PedirCambio, Admite, PrimerPaso, SacaUnAdmin
<1>4. BienLeido(x) /\ ~Prepara(x)
  BY <1>2, <1>3 DEF BienLeido, PedirCambio, Prepara
<1>5. UNCHANGED tablas
  BY DEF PedirCambio, Abrir
<1>6. QED  BY <1>2, <1>4, <1>5, SoloLee

\* A discharge is prepared on an account that is approved or was discharged long ago,
\* has nothing prepared yet, and by one request at a time.
LEMMA PidenUnaBaja ==
    ASSUME IInvCt, CuentasAssumption, NEW p \in Procesos, NEW u \in Personas, PedirBaja(p, u)
    PROVE  IInvCt'
<1>1. cuentas[u] \in Usuario /\ "baja" \in Operaciones
  BY DEF IInvCt, TypeOKCt, Operaciones, Cambios
<1>2. UNCHANGED tablas
  BY DEF PedirBaja, Abrir
<1>3. CASE bajas[u] = Nada
  <2>1. PrimerPaso(u, "baja") \in Pasos
    BY DEF PrimerPaso, Pasos
  <2>2. PICK x \in Pedido :
          /\ abierta' = [abierta EXCEPT ![p] = x] /\ x.op = "baja" /\ x.u = u
          /\ x.paso = PrimerPaso(u, "baja") /\ x.leida = cuentas[u] /\ x.tomadas = {}
    BY <1>1, <1>3, <2>1, PedidoAbierto DEF PedirBaja
  <2>3. x.leida.estado \in {"APROBADA", "BAJA"}
    BY <1>3, <2>2 DEF PedirBaja, Admite, PuedeTransicionarA, Destino
  <2>4. x.paso = "escribir" => ~(x.leida.rol = "ADMIN" /\ x.leida.estado = "APROBADA")
    BY <1>1, <2>2 DEF PrimerPaso, SacaUnAdmin, Usuario
  <2>5. BienLeido(x)
    BY <2>2, <2>3, <2>4 DEF BienLeido
  <2>6. PuedeCoordinar(p) /\ bajas[x.u] = Nada
    BY <1>3, <2>2 DEF PedirBaja
  <2>7. QED  BY <1>2, <2>2, <2>5, <2>6, SoloLee
<1>4. CASE bajas[u] # Nada
  <2>1. PICK x \in Pedido :
          /\ abierta' = [abierta EXCEPT ![p] = x] /\ x.op = "baja" /\ x.u = u
          /\ x.paso = "listar" /\ x.leida = cuentas[u] /\ x.tomadas = {}
    BY <1>1, <1>4, PedidoAbierto DEF PedirBaja, Pasos
  <2>2. BienLeido(x) /\ ~Prepara(x)
    BY <2>1 DEF BienLeido, Prepara
  <2>3. QED  BY <1>2, <2>1, <2>2, SoloLee
<1>5. QED  BY <1>3, <1>4

\* A teacher or an admin asks for a class.
LEMMA PidenUnaClase ==
    ASSUME IInvCt, CuentasAssumption, NEW p \in Procesos, NEW u \in Personas,
           NEW m \in Materias, PedirReserva(p, u, m)
    PROVE  IInvCt'
<1>1. PICK x \in Pedido :
        /\ abierta' = [abierta EXCEPT ![p] = x] /\ x.op = "reservar" /\ x.u = u
        /\ x.paso = "escribir" /\ x.leida = cuentas[u] /\ x.tomadas = {}
  <2>1. {m} \in SUBSET Materias /\ "escribir" \in Pasos /\ "reservar" \in Operaciones
    BY DEF Pasos, Operaciones
  <2>2. Abrir(p, "reservar", u, "escribir", {m})
    BY DEF PedirReserva
  <2>3. QED  BY <2>1, <2>2, PedidoAbierto
<1>2. BienLeido(x) /\ ~Prepara(x)
  BY <1>1 DEF BienLeido, Prepara, Cambios
<1>3. UNCHANGED tablas
  BY DEF PedirReserva, Abrir
<1>4. QED  BY <1>1, <1>2, <1>3, SoloLee

\* An open request that goes on is as sound as it was, whatever it read.
LEMMA SigueLeyendo ==
    ASSUME IInvCt, CuentasAssumption, UNCHANGED tablas, NEW p \in Procesos, abierta[p] # Nada,
           NEW x \in Pedido, abierta' = [abierta EXCEPT ![p] = x],
           x.op = abierta[p].op, x.u = abierta[p].u, x.leida = abierta[p].leida,
           x.paso # "escribir",
           x.paso \in {"contar", "contando"} => Prepara(abierta[p]) \/ x.op # "baja",
           x.tomadas \subseteq AdminsAprobados, x.tomadas \cap Ajenas(p) = {}
    PROVE  IInvCt'
<1>1. BienLeido(abierta[p])
  BY DEF IInvCt, PedidosSanos, LeidoBien
<1>2. Prepara(x) => Prepara(abierta[p])
  BY DEF Prepara
<1>3. BienLeido(x)
  BY <1>1, <1>2 DEF BienLeido
<1>4. Prepara(x) => PuedeCoordinar(p) /\ bajas[x.u] = Nada
  <2>1. Prepara(x) => Coordina(p)
    BY <1>2 DEF Coordina, Prepara
  <2>2. QED  BY <2>1 DEF IInvCt, PedidosSanos, UnoCoordina, SinBajaTodavia, PuedeCoordinar
<1>5. QED  BY <1>3, <1>4, SoloLee

\* The rows of an open request are of admins, and nobody else's.
LEMMA FilasDelPedido ==
    ASSUME IInvCt, NEW p \in Procesos, abierta[p] # Nada
    PROVE  /\ abierta[p] \in Pedido
           /\ abierta[p].tomadas \subseteq AdminsAprobados
           /\ abierta[p].tomadas \cap Ajenas(p) = {}
<1>1. \A q \in Procesos \ {p} : abierta[q] # Nada => abierta[p].tomadas \cap abierta[q].tomadas = {}
  BY DEF IInvCt, PedidosSanos, FilasPropias
<1>2. abierta[p].tomadas \cap Ajenas(p) = {}
  BY <1>1 DEF Ajenas
<1>3. QED  BY <1>2 DEF IInvCt, PedidosSanos, FilasPropias, TypeOKCt

\* Choosing the rows and locking them one by one.
LEMMA Cuentan ==
    ASSUME IInvCt, CuentasAssumption, NEW p \in Procesos, Contar(p) \/ TomarFila(p)
    PROVE  IInvCt'
<1>1. abierta[p] # Nada /\ UNCHANGED tablas
  BY DEF Contar, TomarFila, En
<1>2. /\ abierta[p] \in Pedido /\ abierta[p].tomadas \subseteq AdminsAprobados
      /\ abierta[p].tomadas \cap Ajenas(p) = {}
  BY <1>1, FilasDelPedido
<1>3. CASE Contar(p)
  <2> DEFINE x == [abierta[p] EXCEPT !.paso = "contando", !.porTomar = AdminsAprobados]
  <2>1. abierta' = [abierta EXCEPT ![p] = x]
    BY <1>3 DEF Contar
  <2>2. x \in Pedido
    BY <1>2 DEF Pedido, Pasos, AdminsAprobados
  <2>3. /\ x.op = abierta[p].op /\ x.u = abierta[p].u /\ x.leida = abierta[p].leida
        /\ x.paso = "contando" /\ x.tomadas = abierta[p].tomadas
    BY <1>2 DEF Pedido
  <2>4. Prepara(abierta[p]) \/ x.op # "baja"
    BY <1>3, <2>3 DEF Contar, En, Prepara
  <2> HIDE DEF x
  <2>5. QED  BY <1>1, <1>2, <2>1, <2>2, <2>3, <2>4, SigueLeyendo
<1>4. CASE TomarFila(p)
  <2>1. PICK v \in Primeras(abierta[p].porTomar) :
          /\ v \notin Ajenas(p)
          /\ abierta' = [abierta EXCEPT ![p].porTomar = @ \ {v},
                                       ![p].tomadas = IF TodaviaCuenta(v) THEN @ \cup {v} ELSE @]
    BY <1>4 DEF TomarFila
  <2> DEFINE tomadas == IF TodaviaCuenta(v) THEN abierta[p].tomadas \cup {v} ELSE abierta[p].tomadas
             x == [abierta[p] EXCEPT !.porTomar = @ \ {v}, !.tomadas = tomadas]
  <2>2. abierta' = [abierta EXCEPT ![p] = x]
    BY <2>1
  <2>3. v \in Personas
    BY <1>2 DEF Primeras, Pedido
  <2>4. tomadas \subseteq AdminsAprobados /\ tomadas \cap Ajenas(p) = {}
    BY <1>2, <2>1, <2>3 DEF TodaviaCuenta, AdminsAprobados
  <2>5. tomadas \subseteq Personas
    BY <2>4 DEF AdminsAprobados
  <2> HIDE DEF tomadas
  <2>6. x \in Pedido
    BY <1>2, <2>5 DEF Pedido
  <2>7. /\ x.op = abierta[p].op /\ x.u = abierta[p].u /\ x.leida = abierta[p].leida
        /\ x.paso = "contando" /\ x.tomadas = tomadas
    BY <1>2, <1>4 DEF Pedido, TomarFila, En
  <2>8. Prepara(abierta[p]) \/ x.op # "baja"
    BY <1>4, <2>7 DEF TomarFila, En, Prepara
  <2> HIDE DEF x
  <2>9. QED  BY <1>1, <2>2, <2>4, <2>6, <2>7, <2>8, SigueLeyendo
<1>5. QED  BY <1>3, <1>4

\* Listing the subjects of a discharge, or failing with one of them.
LEMMA SiguenLaBaja ==
    ASSUME IInvCt, CuentasAssumption, NEW p \in Procesos,
           ListarPendientes(p) \/ \E m \in Materias : FallarMateria(p, m)
    PROVE  IInvCt'
<1>1. abierta[p] # Nada /\ UNCHANGED tablas
  BY DEF ListarPendientes, FallarMateria, En
<1>2. /\ abierta[p] \in Pedido /\ abierta[p].tomadas \subseteq AdminsAprobados
      /\ abierta[p].tomadas \cap Ajenas(p) = {}
  BY <1>1, FilasDelPedido
<1>3. PICK lista \in SUBSET Materias, fallo \in BOOLEAN :
        abierta' = [abierta EXCEPT ![p] = [abierta[p] EXCEPT !.paso = "materias", !.lista = lista,
                                                            !.fallo = fallo]]
  <2>1. CASE ListarPendientes(p)
    <3>1. bajas[abierta[p].u] \in ProcesoBaja
      BY <1>2, <2>1 DEF ListarPendientes, BajaPendiente, IInvCt, TypeOKCt, Pedido
    <3>2. abierta' = [abierta EXCEPT ![p] = [abierta[p] EXCEPT !.paso = "materias",
                        !.lista = bajas[abierta[p].u].pendientes, !.fallo = abierta[p].fallo]]
      <4>1. ASSUME NEW L PROVE [abierta[p] EXCEPT !.paso = "materias", !.lista = L]
                = [abierta[p] EXCEPT !.paso = "materias", !.lista = L, !.fallo = abierta[p].fallo]
        BY <1>2 DEF Pedido
      <4>2. abierta' = [abierta EXCEPT ![p] = [abierta[p] EXCEPT !.paso = "materias",
                          !.lista = bajas[abierta[p].u].pendientes]]
        BY <2>1 DEF ListarPendientes
      <4>3. QED  BY <4>1, <4>2
    <3>3. QED  BY <1>2, <3>1, <3>2 DEF ProcesoBaja, Pedido
  <2>2. ASSUME NEW m \in Materias, FallarMateria(p, m)
        PROVE  abierta' = [abierta EXCEPT ![p] = [abierta[p] EXCEPT !.paso = "materias",
                             !.lista = abierta[p].lista \ {m}, !.fallo = TRUE]]
    <3>1. abierta[p].paso = "materias"
      BY <2>2 DEF FallarMateria, En
    <3>2. [abierta[p] EXCEPT !.lista = @ \ {m}, !.fallo = TRUE]
            = [abierta[p] EXCEPT !.paso = "materias", !.lista = abierta[p].lista \ {m}, !.fallo = TRUE]
      BY <1>2, <3>1 DEF Pedido
    <3>3. abierta' = [abierta EXCEPT ![p] = [abierta[p] EXCEPT !.lista = @ \ {m}, !.fallo = TRUE]]
      BY <2>2 DEF FallarMateria
    <3>4. QED  BY <3>2, <3>3
  <2>3. QED  BY <1>2, <2>1, <2>2 DEF Pedido
<1> DEFINE x == [abierta[p] EXCEPT !.paso = "materias", !.lista = lista, !.fallo = fallo]
<1>4. x \in Pedido
  BY <1>2 DEF Pedido, Pasos
<1>5. /\ x.op = abierta[p].op /\ x.u = abierta[p].u /\ x.leida = abierta[p].leida
      /\ x.paso = "materias" /\ x.tomadas = abierta[p].tomadas
  BY <1>2 DEF Pedido
<1>6. abierta' = [abierta EXCEPT ![p] = x]
  BY <1>3
<1> HIDE DEF x
<1>7. QED  BY <1>1, <1>2, <1>4, <1>5, <1>6, SigueLeyendo

\* A request that fails or dies leaves nothing behind but what it confirmed.
LEMMA SeDeshace ==
    ASSUME IInvCt, CuentasAssumption, NEW p \in Procesos, Deshacer(p)
    PROVE  IInvCt'
BY SoloLee DEF Deshacer, Cerrada
-----------------------------------------------------------------------------
(* What the writes have in common                                            *)

\* Whoever counted more than one admin holds the row of another than any given one.
LEMMA HayOtroAdmin ==
    ASSUME IInvCt, CuentasAssumption, NEW p \in Procesos, QuedaOtroAdmin(p), NEW u
    PROVE  \E v \in AdminsAprobados : v # u
<1>1. abierta[p] # Nada /\ Cardinality(abierta[p].tomadas) > 1
  BY DEF QuedaOtroAdmin, En
<1> DEFINE T == abierta[p].tomadas
<1>2. T \subseteq AdminsAprobados
  BY <1>1, FilasDelPedido
<1> HIDE DEF T
<1>3. CASE T \subseteq {u}
  <2>1. IsFiniteSet({u}) /\ Cardinality({u}) = 1
    BY FS_Singleton
  <2>2. IsFiniteSet(T) /\ Cardinality(T) <= 1
    BY <1>3, <2>1, FS_Subset
  <2>3. Cardinality(T) \in Nat
    BY <2>2, FS_CardinalityType
  <2>4. Cardinality(T) > 1
    BY <1>1 DEF T
  <2>5. QED  BY <2>2, <2>3, <2>4
<1>4. QED  BY <1>2, <1>3

\* Losing one admin nobody else holds takes no row from the other requests.
LEMMA OtrasFilas ==
    ASSUME IInvCt, NEW p \in Procesos, NEW u, u \notin Ajenas(p),
           AdminsAprobados \ {u} \subseteq AdminsAprobados'
    PROVE  \A q \in Procesos \ {p} :
              abierta[q] # Nada => abierta[q].tomadas \subseteq AdminsAprobados'
<1>1. SUFFICES ASSUME NEW q \in Procesos \ {p}, abierta[q] # Nada
               PROVE  abierta[q].tomadas \subseteq AdminsAprobados'
  OBVIOUS
<1>2. abierta[q].tomadas \subseteq AdminsAprobados
  BY <1>1 DEF IInvCt, PedidosSanos, FilasPropias
<1>3. u \notin abierta[q].tomadas
  BY <1>1 DEF Ajenas
<1>4. QED  BY <1>2, <1>3

\* Requests that stand still are as sound as they were while no admin is lost and no
\* discharge is prepared.
LEMMA PedidosQuietos ==
    ASSUME IInvCt, abierta' = abierta, AdminsAprobados \subseteq AdminsAprobados',
           \A q \in Procesos : Coordina(q) => bajas'[abierta[q].u] = Nada
    PROVE  PedidosSanos' /\ abierta' \in [Procesos -> Pedido \cup {Nada}]
<1>1. \A q \in Procesos : Coordina(q)' <=> Coordina(q)
  BY DEF Coordina
<1>2. LeidoBien'
  BY DEF IInvCt, PedidosSanos, LeidoBien, BienLeido
<1>3. FilasPropias'
  <2>1. \A q \in Procesos : abierta[q] # Nada => abierta[q].tomadas \subseteq AdminsAprobados'
    BY DEF IInvCt, PedidosSanos, FilasPropias
  <2>2. QED  BY <2>1 DEF IInvCt, PedidosSanos, FilasPropias
<1>4. UnoCoordina' /\ SinBajaTodavia'
  BY <1>1 DEF IInvCt, PedidosSanos, UnoCoordina, SinBajaTodavia
<1>5. QED  BY <1>2, <1>3, <1>4 DEF PedidosSanos, IInvCt, TypeOKCt

\* Who answers for the classes of a subject.
Atiende(u, m) ==
    \/ Aprobada(u) /\ <<u, m>> \in asignados
    \/ BajaPendiente(u) /\ m \in bajas[u].pendientes

\* The classes keep somebody when those who answer for them do.
LEMMA ClasesAtendidas ==
    ASSUME ClaseConDocente,
           \A c \in clases' :
              \/ c.comoAdmin
              \/ \E u \in Personas : Atiende(u, c.materia)'
              \/ /\ c \in clases
                 /\ \A u \in Personas : Atiende(u, c.materia) => \E v \in Personas : Atiende(v, c.materia)'
    PROVE  ClaseConDocente'
<1>1. \A c \in clases : ~c.comoAdmin => \E u \in Personas : Atiende(u, c.materia)
  BY DEF ClaseConDocente, Atiende
<1>2. \A c \in clases' : ~c.comoAdmin => \E u \in Personas : Atiende(u, c.materia)'
  BY <1>1
<1>3. QED  BY <1>2 DEF ClaseConDocente, Atiende

-----------------------------------------------------------------------------
(* Writes of a single step                                                   *)

\* A new account is no admin's that was, and nobody's class.
LEMMA SeCrea ==
    ASSUME IInvCt, CuentasAssumption, NEW u \in Personas, NEW rol \in Roles,
           NEW estado \in {"PENDIENTE", "APROBADA"}, Crear(u, rol, estado)
    PROVE  IInvCt'
<1>1. /\ cuentas \in [Personas -> Usuario] /\ asignados' = asignados /\ bajas' = bajas
      /\ clases' = clases /\ anuncios' = anuncios /\ abierta' = abierta
  BY DEF IInvCt, TypeOKCt, Crear
<1>2. cuentas[u].estado = "SIN_REGISTRAR"
  BY DEF Crear
<1>3. cuentas'[u] = [rol |-> rol, estado |-> estado] /\ \A v \in Personas \ {u} : cuentas'[v] = cuentas[v]
  BY <1>1 DEF Crear
<1>4. TypeOKCt'
  <2>1. [rol |-> rol, estado |-> estado] \in Usuario
    BY DEF Usuario, Estados
  <2>2. QED  BY <1>1, <2>1 DEF Crear, IInvCt, TypeOKCt
<1>5. AdminsAprobados \subseteq AdminsAprobados'
  BY <1>2, <1>3 DEF AdminsAprobados, AdminActivo, Aprobada
<1>6. PedidosSanos'
  <2>1. \A q \in Procesos : Coordina(q) => bajas'[abierta[q].u] = Nada
    BY <1>1 DEF IInvCt, PedidosSanos, SinBajaTodavia
  <2>2. QED  BY <1>1, <1>5, <2>1, PedidosQuietos
<1>7. bajas[u] = Nada
  BY <1>2 DEF IInvCt, TablasSanas, BajasDeBaja
<1>8. SiempreHayAdmin' /\ BajasDeBaja' /\ BajaSinRestos' /\ UnAnuncioPorMateria'
  BY <1>1, <1>3, <1>5, <1>7 DEF IInvCt, TablasSanas, SiempreHayAdmin, BajasDeBaja,
     BajaSinRestos, UnAnuncioPorMateria, MateriasDeDocente
<1>9. AnunciadoNoVuelve'
  BY <1>1, <1>2, <1>3, <1>7 DEF IInvCt, TablasSanas, AnunciadoNoVuelve
<1>10. ClaseConDocente'
  <2>1. \A v \in Personas : \A m : Atiende(v, m) => Atiende(v, m)'
    BY <1>1, <1>2, <1>3, <1>7 DEF Atiende, Aprobada, BajaPendiente
  <2>2. ClaseConDocente
    BY DEF IInvCt, TablasSanas
  <2>3. QED  BY <1>1, <2>1, <2>2, ClasesAtendidas
<1>11. QED  BY <1>4, <1>6, <1>8, <1>9, <1>10 DEF IInvCt, TablasSanas

\* An account that goes for good was no admin and answered for nothing.
LEMMA SeElimina ==
    ASSUME IInvCt, CuentasAssumption, NEW u \in Personas, Eliminar(u)
    PROVE  IInvCt'
<1>1. /\ cuentas \in [Personas -> Usuario] /\ bajas \in [Personas -> ProcesoBaja \cup {Nada}]
      /\ clases' = clases /\ anuncios' = anuncios /\ abierta' = abierta
      /\ asignados' = {a \in asignados : a[1] # u}
      /\ cuentas[u].estado \in {"BAJA", "RECHAZADA"} /\ ~BajaPendiente(u)
  BY DEF IInvCt, TypeOKCt, Eliminar
<1>2. /\ cuentas'[u].estado = "ELIMINADA" /\ \A v \in Personas \ {u} : cuentas'[v] = cuentas[v]
      /\ bajas'[u] = Nada /\ \A v \in Personas \ {u} : bajas'[v] = bajas[v]
      /\ cuentas' \in [Personas -> Usuario] /\ bajas' \in [Personas -> ProcesoBaja \cup {Nada}]
  BY <1>1 DEF Eliminar, Usuario, Estados
<1>3. TypeOKCt'
  BY <1>1, <1>2 DEF IInvCt, TypeOKCt
<1>4. AdminsAprobados \subseteq AdminsAprobados'
  BY <1>1, <1>2 DEF AdminsAprobados, AdminActivo, Aprobada
<1>5. PedidosSanos'
  <2>1. \A q \in Procesos : Coordina(q) => abierta[q].u \in Personas /\ bajas[abierta[q].u] = Nada
    BY DEF IInvCt, PedidosSanos, SinBajaTodavia, Coordina, TypeOKCt, Pedido
  <2>2. \A q \in Procesos : Coordina(q) => bajas'[abierta[q].u] = Nada
    BY <1>2, <2>1
  <2>3. QED  BY <1>1, <1>4, <2>2, PedidosQuietos
<1>6. SiempreHayAdmin' /\ BajasDeBaja' /\ UnAnuncioPorMateria'
  BY <1>1, <1>2, <1>4 DEF IInvCt, TablasSanas, SiempreHayAdmin, BajasDeBaja, UnAnuncioPorMateria
<1>7. BajaSinRestos'
  BY <1>1, <1>2 DEF IInvCt, TablasSanas, BajaSinRestos, MateriasDeDocente
<1>8. AnunciadoNoVuelve'
  BY <1>1, <1>2 DEF IInvCt, TablasSanas, AnunciadoNoVuelve
<1>9. ClaseConDocente'
  <2>1. \A v \in Personas, m \in Materias : Atiende(v, m) => Atiende(v, m)'
    BY <1>1, <1>2 DEF Atiende, Aprobada, BajaPendiente
  <2>2. ClaseConDocente /\ \A c \in clases : c.materia \in Materias
    BY DEF IInvCt, TablasSanas, TypeOKCt, Clase
  <2>3. QED  BY <1>1, <2>1, <2>2, ClasesAtendidas
<1>10. QED  BY <1>3, <1>5, <1>6, <1>7, <1>8, <1>9 DEF IInvCt, TablasSanas

\* What these writes leave alone: the accounts and the discharges.
LEMMA CuentasQuietas ==
    ASSUME IInvCt, UNCHANGED <<cuentas, bajas, anuncios>>
    PROVE  /\ AdminsAprobados' = AdminsAprobados
           /\ SiempreHayAdmin' /\ BajasDeBaja' /\ AnunciadoNoVuelve' /\ UnAnuncioPorMateria'
           /\ \A q \in Procesos : Coordina(q) => bajas'[abierta[q].u] = Nada
           /\ \A q \in Procesos : abierta[q] # Nada => abierta[q].tomadas \subseteq AdminsAprobados'
<1>1. AdminsAprobados' = AdminsAprobados
  BY DEF AdminsAprobados, AdminActivo, Aprobada
<1>2. SiempreHayAdmin' /\ BajasDeBaja' /\ AnunciadoNoVuelve' /\ UnAnuncioPorMateria'
  BY <1>1 DEF IInvCt, TablasSanas, SiempreHayAdmin, BajasDeBaja, AnunciadoNoVuelve, UnAnuncioPorMateria
<1>3. QED  BY <1>1, <1>2 DEF IInvCt, PedidosSanos, SinBajaTodavia, FilasPropias

\* Only an approved account, which has no discharge, is assigned a subject.
LEMMA SeAsigna ==
    ASSUME IInvCt, NEW u \in Personas, NEW m \in Materias, Asignar(u, m)
    PROVE  IInvCt'
<1>1. /\ cuentas' = cuentas /\ bajas' = bajas /\ clases' = clases /\ anuncios' = anuncios
      /\ abierta' = abierta /\ asignados' = asignados \cup {<<u, m>>} /\ Aprobada(u)
  BY DEF Asignar
<1>2. TypeOKCt'
  BY <1>1 DEF IInvCt, TypeOKCt
<1>3. PedidosSanos'
  BY <1>1, CuentasQuietas, PedidosQuietos
<1>4. BajaSinRestos'
  <2>1. bajas[u] = Nada
    BY <1>1 DEF IInvCt, TablasSanas, BajasDeBaja, Aprobada
  <2>2. QED  BY <1>1, <2>1 DEF IInvCt, TablasSanas, BajaSinRestos, MateriasDeDocente
<1>5. ClaseConDocente'
  <2>1. \A v \in Personas, n \in Materias : Atiende(v, n) => Atiende(v, n)'
    BY <1>1 DEF Atiende, Aprobada, BajaPendiente
  <2>2. ClaseConDocente /\ \A c \in clases : c.materia \in Materias
    BY DEF IInvCt, TablasSanas, TypeOKCt, Clase
  <2>3. QED  BY <1>1, <2>1, <2>2, ClasesAtendidas
<1>6. QED  BY <1>1, <1>2, <1>3, <1>4, <1>5, CuentasQuietas DEF IInvCt, TablasSanas

\* Whoever leaves a subject leaves another teacher, or no class of it.
LEMMA SeDesasigna ==
    ASSUME IInvCt, NEW u \in Personas, NEW m \in Materias, Desasignar(u, m)
    PROVE  IInvCt'
<1>1. /\ cuentas' = cuentas /\ bajas' = bajas /\ anuncios' = anuncios /\ abierta' = abierta
      /\ asignados' = asignados \ {<<u, m>>}
      /\ clases' = IF QuedaOtroDocenteActivo(m, u) THEN clases ELSE clases \ DeLaMateria(m)
  BY DEF Desasignar
<1>2. TypeOKCt'
  BY <1>1 DEF IInvCt, TypeOKCt
<1>3. PedidosSanos'
  BY <1>1, CuentasQuietas, PedidosQuietos
<1>4. BajaSinRestos'
  BY <1>1 DEF IInvCt, TablasSanas, BajaSinRestos, MateriasDeDocente
<1>5. ClaseConDocente'
  <2>1. ASSUME NEW c \in clases'
        PROVE  \/ \E v \in Personas : Atiende(v, c.materia)'
               \/ /\ c \in clases
                  /\ \A v \in Personas : Atiende(v, c.materia) => \E w \in Personas : Atiende(w, c.materia)'
    <3>1. c \in clases
      BY <1>1, <2>1
    <3>2. CASE c.materia = m
      <4>1. QuedaOtroDocenteActivo(m, u)
        BY <1>1, <2>1, <3>2 DEF DeLaMateria
      <4>2. PICK v \in Personas \ {u} : <<v, m>> \in asignados /\ Aprobada(v)
        BY <4>1 DEF QuedaOtroDocenteActivo
      <4>3. Atiende(v, m)'
        BY <1>1, <4>2 DEF Atiende, Aprobada
      <4>4. QED  BY <3>2, <4>3
    <3>3. CASE c.materia # m
      <4>1. \A v \in Personas : Atiende(v, c.materia) => Atiende(v, c.materia)'
        BY <1>1, <3>3 DEF Atiende, Aprobada, BajaPendiente
      <4>2. QED  BY <3>1, <4>1
    <3>4. QED  BY <3>2, <3>3
  <2>2. ClaseConDocente
    BY DEF IInvCt, TablasSanas
  <2>3. QED  BY <2>1, <2>2, ClasesAtendidas
<1>6. QED  BY <1>1, <1>2, <1>3, <1>4, <1>5, CuentasQuietas DEF IInvCt, TablasSanas

\* A class that is over needs nobody.
LEMMA SeTermina ==
    ASSUME IInvCt, NEW c \in clases, TerminaLaClase(c)
    PROVE  IInvCt'
<1>1. /\ cuentas' = cuentas /\ bajas' = bajas /\ anuncios' = anuncios /\ abierta' = abierta
      /\ asignados' = asignados /\ clases' = clases \ {c}
  BY DEF TerminaLaClase
<1>2. TypeOKCt'
  BY <1>1 DEF IInvCt, TypeOKCt
<1>3. PedidosSanos'
  BY <1>1, CuentasQuietas, PedidosQuietos
<1>4. BajaSinRestos' /\ ClaseConDocente'
  BY <1>1 DEF IInvCt, TablasSanas, BajaSinRestos, MateriasDeDocente, ClaseConDocente, Aprobada,
     BajaPendiente
<1>5. QED  BY <1>1, <1>2, <1>3, <1>4, CuentasQuietas DEF IInvCt, TablasSanas
-----------------------------------------------------------------------------
(* Writes of a request                                                       *)

\* A change that its reading admits closes no approved account and leaves an admin an
\* admin unless it is a demotion.
LEMMA LoQueCambia ==
    ASSUME NEW c \in Usuario, NEW op \in Cambios \ {"baja"}, Admite(c, op)
    PROVE  /\ Cambiada(c, op) \in Usuario
           /\ c.estado \in {"PENDIENTE", "APROBADA"}
           /\ c.estado = "APROBADA" => Cambiada(c, op).estado = "APROBADA"
           /\ op # "degradar" /\ c.estado = "APROBADA" /\ c.rol = "ADMIN"
              => Cambiada(c, op).rol = "ADMIN"
<1>1. CASE op = "promover"
  BY <1>1 DEF Admite, Cambiada, Usuario, Roles
<1>2. CASE op = "degradar"
  BY <1>2 DEF Admite, Cambiada, Usuario, Roles
<1>3. CASE op = "aprobar"
  BY <1>3 DEF Admite, Cambiada, Usuario, Estados, PuedeTransicionarA, Destino
<1>4. CASE op = "rechazar"
  BY <1>4 DEF Admite, Cambiada, Usuario, Estados, PuedeTransicionarA, Destino
<1>5. QED  BY <1>1, <1>2, <1>3, <1>4 DEF Cambios

\* Nothing of a closed request remains.
LEMMA SeCierra ==
    ASSUME IInvCt, CuentasAssumption, NEW p \in Procesos, Cerrada(p),
           \A q \in Procesos \ {p} : abierta[q] # Nada =>
               /\ abierta[q].tomadas \subseteq AdminsAprobados'
               /\ Coordina(q) => bajas'[abierta[q].u] = Nada
    PROVE  PedidosSanos' /\ abierta' \in [Procesos -> Pedido \cup {Nada}]
BY CambiaUnPedido DEF Cerrada, IInvCt

\* Approval, rejection, promotion and demotion: the last admin is never demoted.
LEMMA SeEscribe ==
    ASSUME IInvCt, CuentasAssumption, NEW p \in Procesos, EscribirCambio(p)
    PROVE  IInvCt'
<1> DEFINE u == abierta[p].u
           op == abierta[p].op
<1>1. /\ abierta[p] # Nada /\ abierta[p] \in Pedido /\ u \in Personas
      /\ op \in Cambios \ {"baja"} /\ cuentas[u] \in Usuario
  BY FilasDelPedido DEF EscribirCambio, PuedeEscribir, QuedaOtroAdmin, En, Pedido, IInvCt, TypeOKCt
<1>2. /\ u \notin Ajenas(p) /\ cuentas[u] = abierta[p].leida
      /\ asignados' = asignados /\ bajas' = bajas /\ clases' = clases /\ anuncios' = anuncios
      /\ Cerrada(p)
  BY DEF EscribirCambio, PuedeEscribir, SigueIgual
<1>3. Admite(cuentas[u], op)
  BY <1>1, <1>2 DEF IInvCt, PedidosSanos, LeidoBien, BienLeido
<1> DEFINE c == Cambiada(cuentas[u], op)
<1>4. /\ c \in Usuario /\ cuentas[u].estado \in {"PENDIENTE", "APROBADA"}
      /\ cuentas[u].estado = "APROBADA" => c.estado = "APROBADA"
      /\ op # "degradar" /\ cuentas[u].estado = "APROBADA" /\ cuentas[u].rol = "ADMIN" => c.rol = "ADMIN"
  BY <1>1, <1>3, LoQueCambia
<1>5. cuentas'[u] = c /\ \A v \in Personas \ {u} : cuentas'[v] = cuentas[v]
  BY <1>1 DEF EscribirCambio, IInvCt, TypeOKCt
<1>6. cuentas' \in [Personas -> Usuario]
  BY <1>1, <1>4 DEF EscribirCambio, IInvCt, TypeOKCt
<1> HIDE DEF c
<1>7. AdminsAprobados \ {u} \subseteq AdminsAprobados'
  BY <1>5 DEF AdminsAprobados, AdminActivo, Aprobada
<1>8. op = "degradar" => QuedaOtroAdmin(p)
  BY <1>1 DEF EscribirCambio, PuedeEscribir, En, IInvCt, PedidosSanos, LeidoBien, BienLeido
<1>9. SiempreHayAdmin'
  <2>1. CASE op = "degradar"
    <3>1. PICK v \in AdminsAprobados : v # u
      BY <1>8, <2>1, HayOtroAdmin
    <3>2. QED  BY <1>7, <3>1 DEF SiempreHayAdmin
  <2>2. CASE op # "degradar"
    <3>1. AdminsAprobados \subseteq AdminsAprobados'
      BY <1>4, <1>5, <2>2 DEF AdminsAprobados, AdminActivo, Aprobada
    <3>2. QED  BY <3>1 DEF SiempreHayAdmin, IInvCt, TablasSanas
  <2>3. QED  BY <2>1, <2>2
<1>10. PedidosSanos' /\ abierta' \in [Procesos -> Pedido \cup {Nada}]
  <2>1. \A q \in Procesos \ {p} : abierta[q] # Nada => abierta[q].tomadas \subseteq AdminsAprobados'
    BY <1>2, <1>7, OtrasFilas
  <2>2. \A q \in Procesos : Coordina(q) => bajas'[abierta[q].u] = Nada
    BY <1>2 DEF IInvCt, PedidosSanos, SinBajaTodavia
  <2>3. QED  BY <1>2, <2>1, <2>2, SeCierra
<1>11. bajas[u] = Nada
  BY <1>1, <1>4 DEF IInvCt, TablasSanas, BajasDeBaja
<1>12. BajasDeBaja' /\ BajaSinRestos' /\ UnAnuncioPorMateria'
  BY <1>2, <1>5, <1>11 DEF IInvCt, TablasSanas, BajasDeBaja, BajaSinRestos, UnAnuncioPorMateria,
     MateriasDeDocente
<1>13. AnunciadoNoVuelve'
  BY <1>2, <1>4, <1>5, <1>11 DEF IInvCt, TablasSanas, AnunciadoNoVuelve
<1>14. ClaseConDocente'
  <2>1. \A v \in Personas, m \in Materias : Atiende(v, m) => Atiende(v, m)'
    BY <1>2, <1>4, <1>5, <1>11 DEF Atiende, Aprobada, BajaPendiente
  <2>2. ClaseConDocente /\ \A k \in clases : k.materia \in Materias
    BY DEF IInvCt, TablasSanas, TypeOKCt, Clase
  <2>3. QED  BY <1>2, <2>1, <2>2, ClasesAtendidas
<1>15. TypeOKCt'
  BY <1>2, <1>6, <1>10 DEF IInvCt, TypeOKCt
<1>16. QED  BY <1>9, <1>10, <1>12, <1>13, <1>14, <1>15 DEF IInvCt, TablasSanas

\* A discharge is prepared with the subjects of the moment, and never of the last admin.
LEMMA SePrepara ==
    ASSUME IInvCt, CuentasAssumption, NEW p \in Procesos, PrepararBaja(p)
    PROVE  IInvCt'
<1> DEFINE u == abierta[p].u
           x == [abierta[p] EXCEPT !.paso = "listar", !.porTomar = {}, !.tomadas = {}]
<1>1. /\ abierta[p] # Nada /\ abierta[p] \in Pedido /\ u \in Personas
      /\ abierta[p].op = "baja" /\ abierta[p].paso \in {"escribir", "contando"}
  BY FilasDelPedido DEF PrepararBaja, PuedeEscribir, QuedaOtroAdmin, En, Pedido
<1>2. /\ u \notin Ajenas(p) /\ cuentas[u] = abierta[p].leida
      /\ asignados' = asignados /\ clases' = clases /\ anuncios' = anuncios
  BY DEF PrepararBaja, PuedeEscribir, SigueIgual
<1>3. Prepara(abierta[p]) /\ Coordina(p)
  BY <1>1 DEF Prepara, Coordina
<1>4. bajas[u] = Nada /\ cuentas[u].estado \in {"APROBADA", "BAJA"}
  BY <1>1, <1>2, <1>3 DEF IInvCt, PedidosSanos, SinBajaTodavia, LeidoBien, BienLeido
<1>5. /\ cuentas'[u].estado = "BAJA" /\ \A v \in Personas \ {u} : cuentas'[v] = cuentas[v]
      /\ cuentas' \in [Personas -> Usuario]
  BY <1>1 DEF PrepararBaja, IInvCt, TypeOKCt, Usuario, Estados
<1>6. MateriasDeDocente(u) \subseteq Materias
  BY DEF MateriasDeDocente
<1>7. /\ bajas'[u] = [pendientes |-> MateriasDeDocente(u), completada |-> FALSE]
      /\ \A v \in Personas \ {u} : bajas'[v] = bajas[v]
      /\ bajas' \in [Personas -> ProcesoBaja \cup {Nada}]
  BY <1>1, <1>6 DEF PrepararBaja, IInvCt, TypeOKCt, ProcesoBaja
<1>8. bajas'[u] # Nada
  <2>1. bajas'[u] \in ProcesoBaja
    BY <1>6, <1>7 DEF ProcesoBaja
  <2>2. QED  BY <2>1 DEF CuentasAssumption
<1>9. AdminsAprobados \ {u} \subseteq AdminsAprobados'
  BY <1>5 DEF AdminsAprobados, AdminActivo, Aprobada
<1>10. SiempreHayAdmin'
  <2>1. CASE u \in AdminsAprobados
    <3>1. cuentas[u].rol = "ADMIN" /\ cuentas[u].estado = "APROBADA"
      BY <2>1 DEF AdminsAprobados, AdminActivo, Aprobada
    <3>2. abierta[p].paso # "escribir"
      BY <1>1, <1>2, <3>1 DEF IInvCt, PedidosSanos, LeidoBien, BienLeido
    <3>3. QuedaOtroAdmin(p)
      BY <3>2 DEF PrepararBaja, PuedeEscribir, En
    <3>4. PICK v \in AdminsAprobados : v # u
      BY <3>3, HayOtroAdmin
    <3>5. QED  BY <1>9, <3>4 DEF SiempreHayAdmin
  <2>2. CASE u \notin AdminsAprobados
    BY <1>9, <2>2 DEF SiempreHayAdmin, IInvCt, TablasSanas
  <2>3. QED  BY <2>1, <2>2
<1>11. x \in Pedido /\ x.paso = "listar" /\ x.tomadas = {} /\ x.op = "baja"
  BY <1>1 DEF Pedido, Pasos
<1>12. abierta' = [abierta EXCEPT ![p] = x]
  BY DEF PrepararBaja
<1> HIDE DEF x
<1>13. PedidosSanos' /\ abierta' \in [Procesos -> Pedido \cup {Nada}]
  <2>1. BienLeido(x) /\ ~Prepara(x)
    BY <1>11 DEF BienLeido, Prepara
  <2>2. \A q \in Procesos \ {p} : abierta[q] # Nada => abierta[q].tomadas \subseteq AdminsAprobados'
    BY <1>2, <1>9, OtrasFilas
  <2>3. \A q \in Procesos \ {p} : ~Coordina(q)
    BY <1>3 DEF IInvCt, PedidosSanos, UnoCoordina
  <2>4. TypeOKCt /\ PedidosSanos
    BY DEF IInvCt
  <2>5. QED  BY <1>11, <1>12, <2>1, <2>2, <2>3, <2>4, CambiaUnPedido
<1>14. BajasDeBaja' /\ UnAnuncioPorMateria'
  BY <1>2, <1>5, <1>7 DEF IInvCt, TablasSanas, BajasDeBaja, UnAnuncioPorMateria
<1>15. BajaSinRestos'
  BY <1>2, <1>7 DEF IInvCt, TablasSanas, BajaSinRestos, MateriasDeDocente
<1>16. AnunciadoNoVuelve'
  <2>1. \A m \in Materias : anuncios[<<u, m>>] = 0
    BY <1>1, <1>4 DEF IInvCt, TablasSanas, AnunciadoNoVuelve
  <2>2. QED  BY <1>2, <1>5, <1>7, <2>1 DEF IInvCt, TablasSanas, AnunciadoNoVuelve
<1>17. ClaseConDocente'
  <2>1. \A v \in Personas, m \in Materias : Atiende(v, m) => Atiende(v, m)'
    <3>1. \A v \in Personas, m \in Materias : v = u /\ Atiende(v, m) => Atiende(v, m)'
      BY <1>4, <1>7, <1>8 DEF Atiende, BajaPendiente, MateriasDeDocente
    <3>2. \A v \in Personas \ {u}, m \in Materias : Atiende(v, m) => Atiende(v, m)'
      BY <1>2, <1>5, <1>7 DEF Atiende, Aprobada, BajaPendiente
    <3>3. QED  BY <3>1, <3>2
  <2>2. ClaseConDocente /\ \A k \in clases : k.materia \in Materias
    BY DEF IInvCt, TablasSanas, TypeOKCt, Clase
  <2>3. QED  BY <1>2, <2>1, <2>2, ClasesAtendidas
<1>18. TypeOKCt'
  BY <1>2, <1>5, <1>7, <1>13 DEF IInvCt, TypeOKCt
<1>19. QED  BY <1>10, <1>13, <1>14, <1>15, <1>16, <1>17, <1>18 DEF IInvCt, TablasSanas

\* A subject of a discharge is announced when it stops being pending, and its classes
\* are cancelled unless another teacher has them.
LEMMA SeCompletaLaMateria ==
    ASSUME IInvCt, CuentasAssumption, NEW p \in Procesos, NEW m \in Materias, CompletarMateria(p, m)
    PROVE  IInvCt'
<1> DEFINE u == abierta[p].u
           huerfana == Pendiente(p, m) /\ ~QuedaOtroDocenteActivo(m, u)
           x == [abierta[p] EXCEPT !.lista = @ \ {m}]
<1>1. /\ abierta[p] # Nada /\ abierta[p] \in Pedido /\ u \in Personas /\ abierta[p].paso = "materias"
      /\ abierta[p].tomadas \subseteq AdminsAprobados /\ abierta[p].tomadas \cap Ajenas(p) = {}
  BY FilasDelPedido DEF CompletarMateria, En, Pedido
<1>2. /\ cuentas' = cuentas /\ asignados' = asignados /\ PuedeCoordinar(p)
      /\ clases' = IF huerfana THEN clases \ DeLaMateria(m) ELSE clases
      /\ anuncios' = IF huerfana THEN [anuncios EXCEPT ![<<u, m>>] = @ + 1] ELSE anuncios
      /\ bajas[u] # Nada
  BY DEF CompletarMateria
<1>3. bajas[u] \in ProcesoBaja
  BY <1>1, <1>2 DEF IInvCt, TypeOKCt
<1>4. /\ bajas' = [bajas EXCEPT ![u] = [bajas[u] EXCEPT !.pendientes = @ \ {m}]]
  BY DEF CompletarMateria
<1>5. /\ bajas'[u].pendientes = bajas[u].pendientes \ {m} /\ bajas'[u].completada = bajas[u].completada
      /\ bajas'[u] \in ProcesoBaja
      /\ \A v \in Personas \ {u} : bajas'[v] = bajas[v]
      /\ bajas' \in [Personas -> ProcesoBaja \cup {Nada}]
  BY <1>1, <1>3, <1>4 DEF ProcesoBaja, IInvCt, TypeOKCt
<1>6. bajas'[u] # Nada
  BY <1>5 DEF CuentasAssumption
<1>7. cuentas[u].estado = "BAJA"
  BY <1>1, <1>2 DEF IInvCt, TablasSanas, BajasDeBaja
<1>8. huerfana => anuncios[<<u, m>>] = 0
  BY <1>1, <1>7 DEF Pendiente, IInvCt, TablasSanas, AnunciadoNoVuelve
<1>9. /\ anuncios \in [Personas \X Materias -> Nat] /\ anuncios' \in [Personas \X Materias -> Nat]
      /\ huerfana => anuncios'[<<u, m>>] = 1
      /\ \A y \in Personas \X Materias : y # <<u, m>> \/ ~huerfana => anuncios'[y] = anuncios[y]
  BY <1>1, <1>2, <1>8 DEF IInvCt, TypeOKCt
<1> HIDE DEF huerfana
<1>10. AdminsAprobados' = AdminsAprobados
  BY <1>2 DEF AdminsAprobados, AdminActivo, Aprobada
<1>11. PedidosSanos' /\ abierta' \in [Procesos -> Pedido \cup {Nada}]
  <2>1. x \in Pedido /\ x.paso = "materias" /\ x.op = abierta[p].op /\ x.leida = abierta[p].leida
        /\ x.tomadas = abierta[p].tomadas
    BY <1>1 DEF Pedido
  <2>2. abierta' = [abierta EXCEPT ![p] = x]
    BY DEF CompletarMateria
  <2> HIDE DEF x
  <2>3. BienLeido(x) /\ ~Prepara(x)
    BY <1>1, <2>1 DEF BienLeido, Prepara, IInvCt, PedidosSanos, LeidoBien
  <2>4. \A q \in Procesos \ {p} :
          abierta[q] # Nada => abierta[q].tomadas \subseteq AdminsAprobados' /\ ~Coordina(q)
    BY <1>2, <1>10 DEF IInvCt, PedidosSanos, FilasPropias, PuedeCoordinar
  <2>5. TypeOKCt /\ PedidosSanos
    BY DEF IInvCt
  <2>6. QED  BY <1>1, <1>10, <2>1, <2>2, <2>3, <2>4, <2>5, CambiaUnPedido
<1>12. SiempreHayAdmin' /\ BajasDeBaja'
  BY <1>2, <1>5, <1>7, <1>10 DEF IInvCt, TablasSanas, SiempreHayAdmin, BajasDeBaja
<1>13. BajaSinRestos'
  BY <1>2, <1>5, <1>6 DEF IInvCt, TablasSanas, BajaSinRestos, MateriasDeDocente
<1>14. UnAnuncioPorMateria'
  <2>1. SUFFICES ASSUME NEW y \in Personas \X Materias PROVE anuncios'[y] <= 1
    BY DEF UnAnuncioPorMateria
  <2>2. CASE y = <<u, m>> /\ huerfana
    BY <1>9, <2>2
  <2>3. CASE ~(y = <<u, m>> /\ huerfana)
    <3>1. anuncios'[y] = anuncios[y]
      BY <1>9, <2>3
    <3>2. QED  BY <3>1 DEF IInvCt, TablasSanas, UnAnuncioPorMateria
  <2>4. QED  BY <2>2, <2>3
<1>15. AnunciadoNoVuelve'
  <2>1. SUFFICES ASSUME NEW v \in Personas, NEW n \in Materias, anuncios'[<<v, n>>] # 0
                 PROVE  \/ bajas'[v] # Nada /\ n \notin bajas'[v].pendientes
                        \/ cuentas'[v].estado = "ELIMINADA"
    BY DEF AnunciadoNoVuelve
  <2>2. CASE v = u /\ n = m
    BY <1>5, <1>6, <2>2
  <2>3. CASE ~(v = u /\ n = m)
    <3>1. anuncios[<<v, n>>] # 0
      BY <1>9, <2>1, <2>3
    <3>2. QED  BY <1>2, <1>5, <1>6, <3>1 DEF IInvCt, TablasSanas, AnunciadoNoVuelve
  <2>4. QED  BY <2>2, <2>3
<1>16. clases' \subseteq clases /\ (huerfana => \A k \in clases' : k.materia # m)
  BY <1>2 DEF DeLaMateria
<1>17. ClaseConDocente'
  <2>1. ASSUME NEW k \in clases', NEW v \in Personas, Atiende(v, k.materia)
        PROVE  \E w \in Personas : Atiende(w, k.materia)'
    <3>1. CASE v # u \/ k.materia # m \/ ~BajaPendiente(v)
      <4>1. Atiende(v, k.materia)'
        BY <1>2, <1>5, <1>6, <2>1, <3>1 DEF Atiende, Aprobada, BajaPendiente
      <4>2. QED  BY <4>1
    <3>2. CASE v = u /\ k.materia = m /\ BajaPendiente(v)
      <4>1. Pendiente(p, m)
        BY <1>7, <2>1, <3>2 DEF Atiende, Aprobada, Pendiente
      <4>2. QuedaOtroDocenteActivo(m, u)
        BY <1>16, <3>2, <4>1 DEF huerfana
      <4>3. PICK w \in Personas \ {u} : <<w, m>> \in asignados /\ Aprobada(w)
        BY <4>2 DEF QuedaOtroDocenteActivo
      <4>4. Atiende(w, m)'
        BY <1>2, <4>3 DEF Atiende, Aprobada
      <4>5. QED  BY <3>2, <4>4
    <3>3. QED  BY <3>1, <3>2
  <2>2. ClaseConDocente
    BY DEF IInvCt, TablasSanas
  <2>3. QED  BY <1>16, <2>1, <2>2, ClasesAtendidas
<1>18. TypeOKCt'
  BY <1>2, <1>5, <1>9, <1>11, <1>16 DEF IInvCt, TypeOKCt
<1>19. QED  BY <1>11, <1>12, <1>13, <1>14, <1>15, <1>17, <1>18 DEF IInvCt, TablasSanas

\* A discharge ends with no subject left, which nobody needs it for.
LEMMA SeTerminaLaBaja ==
    ASSUME IInvCt, CuentasAssumption, NEW p \in Procesos, TerminarBaja(p)
    PROVE  IInvCt'
<1> DEFINE u == abierta[p].u
<1>1. abierta[p] # Nada /\ abierta[p] \in Pedido /\ u \in Personas
  BY FilasDelPedido DEF TerminarBaja, En, Pedido
<1>2. /\ cuentas' = cuentas /\ clases' = clases /\ anuncios' = anuncios /\ Cerrada(p)
      /\ asignados' = {a \in asignados : a[1] # u} /\ PuedeCoordinar(p)
      /\ bajas[u] # Nada /\ bajas[u].pendientes = {}
  BY DEF TerminarBaja, SinPendientes, BajaPendiente
<1>3. bajas[u] \in ProcesoBaja /\ cuentas[u].estado = "BAJA"
  BY <1>1, <1>2 DEF IInvCt, TypeOKCt, TablasSanas, BajasDeBaja
<1>4. bajas' = [bajas EXCEPT ![u] = [bajas[u] EXCEPT !.completada = TRUE]]
  BY DEF TerminarBaja
<1>5. /\ bajas'[u].pendientes = {} /\ bajas'[u] \in ProcesoBaja
      /\ \A v \in Personas \ {u} : bajas'[v] = bajas[v]
      /\ bajas' \in [Personas -> ProcesoBaja \cup {Nada}]
  BY <1>1, <1>2, <1>3, <1>4 DEF ProcesoBaja, IInvCt, TypeOKCt
<1>6. bajas'[u] # Nada
  BY <1>5 DEF CuentasAssumption
<1>7. AdminsAprobados' = AdminsAprobados
  BY <1>2 DEF AdminsAprobados, AdminActivo, Aprobada
<1>8. PedidosSanos' /\ abierta' \in [Procesos -> Pedido \cup {Nada}]
  <2>1. \A q \in Procesos \ {p} :
          abierta[q] # Nada => abierta[q].tomadas \subseteq AdminsAprobados' /\ ~Coordina(q)
    BY <1>2, <1>7 DEF IInvCt, PedidosSanos, FilasPropias, PuedeCoordinar
  <2>2. QED  BY <1>2, <2>1, SeCierra
<1>9. SiempreHayAdmin' /\ BajasDeBaja' /\ UnAnuncioPorMateria'
  BY <1>2, <1>3, <1>5, <1>7 DEF IInvCt, TablasSanas, SiempreHayAdmin, BajasDeBaja, UnAnuncioPorMateria
<1>10. BajaSinRestos'
  BY <1>2, <1>5 DEF IInvCt, TablasSanas, BajaSinRestos, MateriasDeDocente
<1>11. AnunciadoNoVuelve'
  BY <1>2, <1>5, <1>6 DEF IInvCt, TablasSanas, AnunciadoNoVuelve
<1>12. ClaseConDocente'
  <2>1. \A v \in Personas, m \in Materias : Atiende(v, m) => Atiende(v, m)'
    BY <1>2, <1>3, <1>5 DEF Atiende, Aprobada, BajaPendiente
  <2>2. ClaseConDocente /\ \A k \in clases : k.materia \in Materias
    BY DEF IInvCt, TablasSanas, TypeOKCt, Clase
  <2>3. QED  BY <1>2, <2>1, <2>2, ClasesAtendidas
<1>13. TypeOKCt'
  BY <1>2, <1>5, <1>8 DEF IInvCt, TypeOKCt
<1>14. QED  BY <1>8, <1>9, <1>10, <1>11, <1>12, <1>13 DEF IInvCt, TablasSanas

\* Who books a class as a teacher is there to give it.
LEMMA SeReserva ==
    ASSUME IInvCt, CuentasAssumption, NEW p \in Procesos, Reservar(p)
    PROVE  IInvCt'
<1>1. abierta[p] # Nada /\ abierta[p] \in Pedido
  BY FilasDelPedido DEF Reservar, En
<1>2. PICK m \in abierta[p].lista, comoAdmin \in BOOLEAN :
        /\ comoAdmin \/ EstaAsignado(abierta[p].u, m)
        /\ clases' = clases \cup {[materia |-> m, comoAdmin |-> comoAdmin]}
  BY DEF Reservar
<1>3. /\ cuentas' = cuentas /\ asignados' = asignados /\ bajas' = bajas /\ anuncios' = anuncios
      /\ Cerrada(p) /\ m \in Materias /\ abierta[p].u \in Personas
  BY <1>1, <1>2 DEF Reservar, Pedido
<1>4. PedidosSanos' /\ abierta' \in [Procesos -> Pedido \cup {Nada}]
  BY <1>3, CuentasQuietas, SeCierra
<1>5. BajaSinRestos'
  BY <1>3 DEF IInvCt, TablasSanas, BajaSinRestos, MateriasDeDocente
<1>6. ClaseConDocente'
  <2>1. \A v \in Personas, n \in Materias : Atiende(v, n)' <=> Atiende(v, n)
    BY <1>3 DEF Atiende, Aprobada, BajaPendiente
  <2>2. comoAdmin \/ \E v \in Personas : Atiende(v, m)'
    BY <1>2, <1>3, <2>1 DEF EstaAsignado, Atiende
  <2>3. ClaseConDocente /\ \A k \in clases : k.materia \in Materias
    BY DEF IInvCt, TablasSanas, TypeOKCt, Clase
  <2>4. QED  BY <1>2, <2>1, <2>2, <2>3, ClasesAtendidas
<1>7. TypeOKCt'
  BY <1>2, <1>3, <1>4 DEF IInvCt, TypeOKCt, Clase
<1>8. QED  BY <1>3, <1>4, <1>5, <1>6, <1>7, CuentasQuietas DEF IInvCt, TablasSanas

-----------------------------------------------------------------------------
(* The order of the locks                                                    *)

\* The rows a request holds come before the ones it has yet to lock, and it holds none
\* before it counts nor after.
EnOrden(x) ==
    /\ x.paso # "contando" => x.tomadas = {}
    /\ \A v \in x.tomadas, w \in x.porTomar : Orden[v] < Orden[w]

PedidosEnOrden == \A p \in Procesos : abierta[p] # Nada => EnOrden(abierta[p])

\* A step of one request keeps the order if that request is left in order.
LEMMA UnoEnOrden ==
    ASSUME TypeOKCt, PedidosEnOrden, NEW p \in Procesos, NEW x,
           abierta' = [abierta EXCEPT ![p] = x], x # Nada => EnOrden(x)
    PROVE  PedidosEnOrden'
<1>1. abierta'[p] = x /\ \A q \in Procesos \ {p} : abierta'[q] = abierta[q]
  BY DEF TypeOKCt
<1>2. \A q \in Procesos : abierta'[q] # Nada => EnOrden(abierta'[q])
  BY <1>1 DEF PedidosEnOrden
<1>3. QED  BY <1>2 DEF PedidosEnOrden

\* A request that opens holds no row, and waits for none.
LEMMA AbrirEnOrden ==
    ASSUME TypeOKCt, PedidosEnOrden, NEW p \in Procesos, NEW op, NEW u, NEW paso, NEW lista,
           Abrir(p, op, u, paso, lista)
    PROVE  PedidosEnOrden'
<1> DEFINE x == [op |-> op, u |-> u, paso |-> paso, leida |-> cuentas[u],
                 porTomar |-> {}, tomadas |-> {}, lista |-> lista, fallo |-> FALSE]
<1>1. EnOrden(x)
  BY DEF EnOrden
<1>2. abierta' = [abierta EXCEPT ![p] = x]
  BY DEF Abrir
<1> HIDE DEF x
<1>3. QED  BY <1>1, <1>2, UnoEnOrden

\* The rows are locked by their ids, each after all the ones the request already holds.
LEMMA ContarEnOrden ==
    ASSUME TypeOKCt, CuentasAssumption, PedidosEnOrden, NEW p \in Procesos,
           Contar(p) \/ TomarFila(p)
    PROVE  PedidosEnOrden'
<1>1. abierta[p] # Nada /\ abierta[p] \in Pedido /\ EnOrden(abierta[p])
  BY DEF Contar, TomarFila, En, TypeOKCt, PedidosEnOrden
<1>2. CASE Contar(p)
  <2> DEFINE x == [abierta[p] EXCEPT !.paso = "contando", !.porTomar = AdminsAprobados]
  <2>1. abierta' = [abierta EXCEPT ![p] = x]
    BY <1>2 DEF Contar
  <2>2. x.paso = "contando" /\ x.tomadas = abierta[p].tomadas
    BY <1>1 DEF Pedido
  <2>3. abierta[p].tomadas = {}
    BY <1>1, <1>2 DEF Contar, En, EnOrden
  <2>4. EnOrden(x)
    BY <2>2, <2>3 DEF EnOrden
  <2> HIDE DEF x
  <2>5. QED  BY <2>1, <2>4, UnoEnOrden
<1>3. CASE TomarFila(p)
  <2>1. PICK v \in Primeras(abierta[p].porTomar) :
          abierta' = [abierta EXCEPT ![p].porTomar = @ \ {v},
                                     ![p].tomadas = IF TodaviaCuenta(v) THEN @ \cup {v} ELSE @]
    BY <1>3 DEF TomarFila
  <2> DEFINE x == [abierta[p] EXCEPT !.porTomar = @ \ {v},
                                     !.tomadas = IF TodaviaCuenta(v) THEN @ \cup {v} ELSE @]
  <2>2. abierta' = [abierta EXCEPT ![p] = x]
    BY <2>1
  <2>3. /\ x.paso = "contando" /\ x.porTomar = abierta[p].porTomar \ {v}
        /\ x.tomadas \subseteq abierta[p].tomadas \cup {v}
    BY <1>1, <1>3 DEF Pedido, TomarFila, En
  <2>4. \A w \in abierta[p].porTomar \ {v} : Orden[v] < Orden[w]
    <3>1. v \in Personas /\ abierta[p].porTomar \subseteq Personas
      BY <1>1, <2>1 DEF Primeras, Pedido
    <3>2. QED  BY <2>1, <3>1 DEF Primeras, CuentasAssumption
  <2>5. EnOrden(x)
    BY <1>1, <2>3, <2>4 DEF EnOrden
  <2> HIDE DEF x
  <2>6. QED  BY <2>2, <2>5, UnoEnOrden
<1>4. QED  BY <1>2, <1>3

\* A discharge that goes on with its subjects holds no row.
LEMMA BajaEnOrden ==
    ASSUME TypeOKCt, PedidosEnOrden, NEW p \in Procesos, NEW m,
           PrepararBaja(p) \/ ListarPendientes(p) \/ CompletarMateria(p, m) \/ FallarMateria(p, m)
    PROVE  PedidosEnOrden'
<1>1. abierta[p] # Nada /\ abierta[p] \in Pedido /\ EnOrden(abierta[p])
  BY DEF PrepararBaja, PuedeEscribir, QuedaOtroAdmin, ListarPendientes, CompletarMateria,
     FallarMateria, En, TypeOKCt, PedidosEnOrden
<1>2. CASE PrepararBaja(p)
  <2> DEFINE x == [abierta[p] EXCEPT !.paso = "listar", !.porTomar = {}, !.tomadas = {}]
  <2>1. abierta' = [abierta EXCEPT ![p] = x]
    BY <1>2 DEF PrepararBaja
  <2>2. EnOrden(x)
    BY <1>1 DEF EnOrden, Pedido
  <2> HIDE DEF x
  <2>3. QED  BY <2>1, <2>2, UnoEnOrden
<1>3. CASE ListarPendientes(p) \/ CompletarMateria(p, m) \/ FallarMateria(p, m)
  <2>1. abierta[p].tomadas = {}
    BY <1>1, <1>3 DEF ListarPendientes, CompletarMateria, FallarMateria, En, EnOrden
  <2>2. \E lista, fallo : abierta' = [abierta EXCEPT ![p] =
            [abierta[p] EXCEPT !.paso = "materias", !.lista = lista, !.fallo = fallo]]
    <3>1. CASE ListarPendientes(p)
      <4> DEFINE L == bajas[abierta[p].u].pendientes
      <4>1. [abierta[p] EXCEPT !.paso = "materias", !.lista = L]
              = [abierta[p] EXCEPT !.paso = "materias", !.lista = L, !.fallo = abierta[p].fallo]
        BY <1>1 DEF Pedido
      <4>2. abierta' = [abierta EXCEPT ![p] = [abierta[p] EXCEPT !.paso = "materias", !.lista = L]]
        BY <3>1 DEF ListarPendientes
      <4>3. QED  BY <4>1, <4>2
    <3>2. CASE CompletarMateria(p, m)
      <4>1. [abierta[p] EXCEPT !.lista = @ \ {m}]
              = [abierta[p] EXCEPT !.paso = "materias", !.lista = abierta[p].lista \ {m},
                                   !.fallo = abierta[p].fallo]
        BY <1>1, <3>2 DEF Pedido, CompletarMateria, En
      <4>2. QED  BY <3>2, <4>1 DEF CompletarMateria
    <3>3. CASE FallarMateria(p, m)
      <4>1. [abierta[p] EXCEPT !.lista = @ \ {m}, !.fallo = TRUE]
              = [abierta[p] EXCEPT !.paso = "materias", !.lista = abierta[p].lista \ {m},
                                   !.fallo = TRUE]
        BY <1>1, <3>3 DEF Pedido, FallarMateria, En
      <4>2. QED  BY <3>3, <4>1 DEF FallarMateria
    <3>4. QED  BY <1>3, <3>1, <3>2, <3>3
  <2>3. PICK lista, fallo : abierta' = [abierta EXCEPT ![p] =
            [abierta[p] EXCEPT !.paso = "materias", !.lista = lista, !.fallo = fallo]]
    BY <2>2
  <2> DEFINE x == [abierta[p] EXCEPT !.paso = "materias", !.lista = lista, !.fallo = fallo]
  <2>4. EnOrden(x)
    BY <1>1, <2>1 DEF EnOrden, Pedido
  <2>5. abierta' = [abierta EXCEPT ![p] = x]
    BY <2>3
  <2> HIDE DEF x
  <2>6. QED  BY <2>4, <2>5, UnoEnOrden
<1>4. QED  BY <1>2, <1>3

\* Whatever the requests do, each locks its rows by their ids.
LEMMA SiguenEnOrden ==
    ASSUME TypeOKCt, CuentasAssumption, PedidosEnOrden, [NextCt]_varsCt
    PROVE  PedidosEnOrden'
<1>1. ASSUME abierta' = abierta PROVE PedidosEnOrden'
  BY <1>1 DEF PedidosEnOrden, EnOrden
<1>2. ASSUME NEW p \in Procesos, Cerrada(p) PROVE PedidosEnOrden'
  BY <1>2, UnoEnOrden DEF Cerrada
<1>3. CASE Registrar \/ CrearAdmin \/ Borrar \/ Asignaciones \/ UNCHANGED varsCt
  <2>1. abierta' = abierta
    BY <1>3 DEF Registrar, CrearAdmin, Crear, Borrar, Eliminar, Asignaciones, Asignar,
       Desasignar, varsCt
  <2>2. QED  BY <1>1, <2>1
<1>4. CASE Cambiar
  BY <1>4, AbrirEnOrden DEF Cambiar, PedirCambio
<1>5. CASE DarDeBaja
  BY <1>5, AbrirEnOrden DEF DarDeBaja, PedirBaja
<1>6. CASE ContarAdmins
  BY <1>6, ContarEnOrden DEF ContarAdmins
<1>7. CASE Escribir
  <2>1. PICK p \in Procesos : EscribirCambio(p) \/ PrepararBaja(p)
    BY <1>7 DEF Escribir
  <2>2. CASE EscribirCambio(p)
    BY <1>2, <2>2 DEF EscribirCambio
  <2>3. CASE PrepararBaja(p)
    BY <2>3, BajaEnOrden
  <2>4. QED  BY <2>1, <2>2, <2>3
<1>8. CASE SeguirBaja
  <2>1. PICK p \in Procesos : \/ ListarPendientes(p) \/ TerminarBaja(p)
                              \/ \E m \in Materias : CompletarMateria(p, m) \/ FallarMateria(p, m)
    BY <1>8 DEF SeguirBaja
  <2>2. CASE TerminarBaja(p)
    BY <1>2, <2>2 DEF TerminarBaja
  <2>3. CASE ListarPendientes(p) \/ \E m \in Materias : CompletarMateria(p, m) \/ FallarMateria(p, m)
    BY <2>3, BajaEnOrden
  <2>4. QED  BY <2>1, <2>2, <2>3
<1>9. CASE Fallar
  BY <1>2, <1>9 DEF Fallar, Deshacer
<1>10. CASE Clases
  <2>1. CASE \E p \in Procesos : Reservar(p)
    BY <1>2, <2>1 DEF Reservar
  <2>2. CASE \E p \in Procesos, u \in Personas, m \in Materias : PedirReserva(p, u, m)
    BY <2>2, AbrirEnOrden DEF PedirReserva
  <2>3. CASE \E c \in clases : TerminaLaClase(c)
    BY <1>1, <2>3 DEF TerminaLaClase
  <2>4. QED  BY <1>10, <2>1, <2>2, <2>3 DEF Clases
<1>11. QED  BY <1>3, <1>4, <1>5, <1>6, <1>7, <1>8, <1>9, <1>10 DEF NextCt

\* Among some accounts there is always a first one.
LEMMA HayPrimera ==
    ASSUME CuentasAssumption, NEW S \in SUBSET Personas, S # {}
    PROVE  Primeras(S) # {}
<1> DEFINE Hasta(v) == {w \in S : Orden[w] <= Orden[v]}
           X == {Hasta(v) : v \in S}
           R == StrictSubsetOrdering(Personas)
<1>1. IsWellFoundedOn(R, SUBSET Personas)
  <2>1. FiniteSubsetsOf(Personas) = SUBSET Personas
    BY FS_FiniteSubsetsOfFinite DEF CuentasAssumption
  <2>2. QED  BY <2>1, FS_StrictSubsetOrderingWellFounded DEF CuentasAssumption
<1>2. X \subseteq SUBSET Personas /\ X # {}
  <2>1. \A v \in S : Hasta(v) \in SUBSET Personas
    OBVIOUS
  <2> HIDE DEF Hasta
  <2>2. QED  BY <2>1
<1> HIDE DEF X
<1>3. PICK x \in X : \A y \in X : <<y, x>> \notin R
  <2> HIDE DEF R
  <2>1. QED  BY ONLY <1>1, <1>2, WFMin
<1>4. PICK v \in S : x = Hasta(v)
  BY DEF X
<1>5. ASSUME NEW w \in S, Orden[w] < Orden[v] PROVE FALSE
  <2>1. \A u \in S : Orden[u] \in Nat
    BY DEF CuentasAssumption
  <2>2. Hasta(w) \subseteq Hasta(v) /\ v \in Hasta(v) /\ v \notin Hasta(w)
    BY <1>5, <2>1
  <2>3. Hasta(w) \in X
    BY DEF X
  <2>4. <<Hasta(w), x>> \in R
    BY <1>2, <1>4, <2>2, <2>3 DEF StrictSubsetOrdering
  <2>5. QED  BY <1>3, <2>3, <2>4
<1>6. \A w \in S : Orden[v] <= Orden[w]
  BY <1>5 DEF CuentasAssumption
<1>7. QED  BY <1>6 DEF Primeras

-----------------------------------------------------------------------------
(* The theorems                                                              *)

\* Every step of Cuentas keeps the invariant.
LEMMA PasoCt == ASSUME IInvCt, CuentasAssumption, [NextCt]_varsCt PROVE IInvCt'
<1>1. CASE Registrar
  BY <1>1, SeCrea DEF Registrar, Roles
<1>2. CASE CrearAdmin
  BY <1>2, SeCrea DEF CrearAdmin, Roles
<1>3. CASE Cambiar
  BY <1>3, PidenUnCambio DEF Cambiar
<1>4. CASE DarDeBaja
  BY <1>4, PidenUnaBaja DEF DarDeBaja
<1>5. CASE ContarAdmins
  BY <1>5, Cuentan DEF ContarAdmins
<1>6. CASE Escribir
  BY <1>6, SeEscribe, SePrepara DEF Escribir
<1>7. CASE SeguirBaja
  BY <1>7, SiguenLaBaja, SeTerminaLaBaja, SeCompletaLaMateria DEF SeguirBaja
<1>8. CASE Fallar
  BY <1>8, SeDeshace DEF Fallar
<1>9. CASE Borrar
  BY <1>9, SeElimina DEF Borrar
<1>10. CASE Asignaciones
  BY <1>10, SeAsigna, SeDesasigna DEF Asignaciones
<1>11. CASE Clases
  BY <1>11, SeReserva, PidenUnaClase, SeTermina DEF Clases
<1>12. CASE UNCHANGED varsCt
  <2>1. UNCHANGED <<cuentas, bajas, anuncios>> /\ asignados' = asignados /\ clases' = clases
        /\ abierta' = abierta
    BY <1>12 DEF varsCt
  <2>2. PedidosSanos'
    BY <2>1, CuentasQuietas, PedidosQuietos
  <2>3. BajaSinRestos' /\ ClaseConDocente' /\ TypeOKCt'
    BY <2>1 DEF IInvCt, TablasSanas, TypeOKCt, BajaSinRestos, MateriasDeDocente, ClaseConDocente,
       Aprobada, BajaPendiente
  <2>4. QED  BY <2>1, <2>2, <2>3, CuentasQuietas DEF IInvCt, TablasSanas
<1>13. QED  BY <1>1, <1>2, <1>3, <1>4, <1>5, <1>6, <1>7, <1>8, <1>9, <1>10, <1>11, <1>12 DEF NextCt

\* The inductive invariant of the accounts holds in every reachable state.
THEOREM InvarianteDeCuentas == SpecCt => []IInvCt
<1>1. InitCt => IInvCt
  BY InicioCt, CuentasAssumption
<1>2. IInvCt /\ [NextCt]_varsCt => IInvCt'
  BY PasoCt, CuentasAssumption
<1>3. QED  BY <1>1, <1>2, PTL DEF SpecCt

\* Accounts, discharges and requests always have their types (usuario, baja_usuario).
THEOREM TiposDeCuentas == SpecCt => []TypeOKCt
<1>1. IInvCt => TypeOKCt
  BY DEF IInvCt
<1>2. QED  BY <1>1, InvarianteDeCuentas, PTL

\* However many requests demote and discharge at once, an admin remains
\* (verificarNoEsUltimoAdmin over ContarAdminsAprobados).
THEOREM NuncaSinAdmin == SpecCt => []SiempreHayAdmin
<1>1. IInvCt => SiempreHayAdmin
  BY DEF IInvCt, TablasSanas
<1>2. QED  BY <1>1, InvarianteDeCuentas, PTL

\* A completed discharge left the person no subject, and none comes back (DarDeBaja).
THEOREM BajasSinRestos == SpecCt => []BajaSinRestos
<1>1. IInvCt => BajaSinRestos
  BY DEF IInvCt, TablasSanas
<1>2. QED  BY <1>1, InvarianteDeCuentas, PTL

\* No class booked by a teacher is left without anybody or a discharge that will see to it
\* (RF-02.8).
THEOREM ClasesConDocente == SpecCt => []ClaseConDocente
<1>1. IInvCt => ClaseConDocente
  BY DEF IInvCt, TablasSanas
<1>2. QED  BY <1>1, InvarianteDeCuentas, PTL

\* Retried and simultaneous discharges announce each subject once (DarDeBaja).
THEOREM UnSoloAnuncio == SpecCt => []UnAnuncioPorMateria
<1>1. IInvCt => UnAnuncioPorMateria
  BY DEF IInvCt, TablasSanas
<1>2. QED  BY <1>1, InvarianteDeCuentas, PTL

\* Two requests that count the admins never wait for each other (ContarAdminsAprobados locks
\* ORDER BY id): the row each lacks would have to come before the row the other lacks.
THEOREM ContarNuncaSeTraba == SpecCt => []ContarNoSeTraba
<1>1. InitCt => PedidosEnOrden
  BY DEF InitCt, PedidosEnOrden
<1>2. TypeOKCt /\ PedidosEnOrden /\ [NextCt]_varsCt => PedidosEnOrden'
  BY SiguenEnOrden, CuentasAssumption
<1>3. TypeOKCt /\ PedidosEnOrden => ContarNoSeTraba
  <2>1. SUFFICES ASSUME TypeOKCt, PedidosEnOrden, NEW p \in Procesos, NEW q \in Procesos,
                        En(p, "contando"), En(q, "contando"),
                        abierta[p].porTomar # {}, abierta[q].porTomar # {},
                        Primeras(abierta[p].porTomar) \subseteq abierta[q].tomadas,
                        Primeras(abierta[q].porTomar) \subseteq abierta[p].tomadas
                 PROVE  FALSE
    BY DEF ContarNoSeTraba
  <2>2. /\ abierta[p] \in Pedido /\ EnOrden(abierta[p])
        /\ abierta[q] \in Pedido /\ EnOrden(abierta[q])
    BY <2>1 DEF En, TypeOKCt, PedidosEnOrden
  <2>3. abierta[p].porTomar \subseteq Personas /\ abierta[q].porTomar \subseteq Personas
    BY <2>2 DEF Pedido
  <2>4. PICK v \in abierta[p].porTomar : v \in abierta[q].tomadas
    BY <2>1, <2>3, HayPrimera, CuentasAssumption DEF Primeras
  <2>5. PICK w \in abierta[q].porTomar : w \in abierta[p].tomadas
    BY <2>1, <2>3, HayPrimera, CuentasAssumption DEF Primeras
  <2>6. Orden[v] < Orden[w] /\ Orden[w] < Orden[v]
    BY <2>2, <2>4, <2>5 DEF EnOrden
  <2>7. Orden[v] \in Nat /\ Orden[w] \in Nat
    BY <2>3, CuentasAssumption DEF CuentasAssumption
  <2>8. QED  BY <2>6, <2>7
<1>4. QED  BY <1>1, <1>2, <1>3, TiposDeCuentas, PTL DEF SpecCt

-----------------------------------------------------------------------------
(* Credenciales                                                              *)

\* One request at most has the row of the account, and in the steps that take it.
UnSoloDueno ==
    /\ \A p, q \in ProcesosCr : LaTiene(p) /\ LaTiene(q) => p = q
    /\ \A p \in ProcesosCr : EnCr(p, peticion[p].op, "bloqueada") => peticion[p].op = "restablecer"

\* What was read of the account is of a version it had; of the one it has, it tells the
\* temporary password as it is.
DeSuVersion(version, dcp) ==
    version <= cuenta.version /\ (version = cuenta.version => dcp = cuenta.dcp)

YaLeyo(p) == peticion[p] # NadaCr /\ peticion[p].paso # "leer"

LecturasVigentes ==
    \A p \in ProcesosCr : YaLeyo(p) =>
        /\ peticion[p].leida \in Cuenta
        /\ DeSuVersion(peticion[p].leida.version, peticion[p].leida.dcp)

\* Who edits the profile came in with a session, and what was read is of its version.
PerfilesDeSuSesion ==
    \A p \in ProcesosCr : peticion[p] # NadaCr /\ peticion[p].op = "perfil" =>
        /\ peticion[p].token \in tokens
        /\ peticion[p].paso = "escribir" => peticion[p].leida.version = peticion[p].token.version

\* A session says the version its owner proved who they are with.
SesionesDeSuRaiz ==
    \A t \in tokens : t.raiz = t.version /\ DeSuVersion(t.version, t.dcp)

\* A code that can be used is the last one, with its tries counted and no change made.
CodigosCoherentes ==
    /\ \A n \in DOMAIN codigos : ~codigos[n].usado =>
          /\ n = Len(codigos) /\ codigos[n].cambios = 0
          /\ codigos[n].errados = codigos[n].intentos /\ codigos[n].intentos < MaxIntentos
    /\ IntentosAcotados

\* Whoever has the row and verifies a code has the last one, as it was read.
CodigoEnMano ==
    \A p \in ProcesosCr : EnCr(p, "restablecer", "bloqueada") =>
        LET n == peticion[p].codigo IN
          /\ n \in DOMAIN codigos /\ ~codigos[n].usado
          /\ peticion[p].intentos = codigos[n].intentos

IInvCr ==
    /\ TypeOKCr
    /\ UnSoloDueno /\ LecturasVigentes /\ PerfilesDeSuSesion
    /\ SesionesDeSuRaiz /\ CodigosCoherentes /\ CodigoEnMano

-----------------------------------------------------------------------------
(* What the requests do to their own record                                  *)

LEMMA InicioCr == ASSUME CredencialesAssumption, InitCr PROVE IInvCr
<1>1. TypeOKCr
  BY EmptySeq DEF InitCr, TypeOKCr, Cuenta, EstadosCr
<1>2. UnSoloDueno /\ LecturasVigentes /\ PerfilesDeSuSesion /\ CodigoEnMano
  BY DEF InitCr, UnSoloDueno, LecturasVigentes, PerfilesDeSuSesion, CodigoEnMano, EnCr, LaTiene, YaLeyo
<1>3. SesionesDeSuRaiz /\ CodigosCoherentes
  BY DEF InitCr, SesionesDeSuRaiz, CodigosCoherentes, IntentosAcotados
<1> QED BY <1>1, <1>2, <1>3 DEF IInvCr

\* A version of the account that was read is of the account as it is.
LEMMA DeLaCuenta == ASSUME TypeOKCr PROVE DeSuVersion(cuenta.version, cuenta.dcp)
  BY DEF TypeOKCr, Cuenta, DeSuVersion

\* The request ends, after signing at most a session of the version that was read.
LEMMA Responde ==
    ASSUME CredencialesAssumption, IInvCr, NEW p \in ProcesosCr, ResponderCr(p),
           UNCHANGED codigos, cuenta' \in Cuenta,
           cuenta'.version = cuenta.version, cuenta'.dcp = cuenta.dcp,
           tokens \subseteq tokens',
           \A t \in tokens' \ tokens :
              t \in Token /\ t.raiz = t.version /\ DeSuVersion(t.version, t.dcp)
    PROVE  IInvCr'
<1>1. /\ TypeOKCr /\ peticion' \in [ProcesosCr -> Peticion \cup {NadaCr}]
      /\ peticion'[p] = NadaCr /\ \A q \in ProcesosCr \ {p} : peticion'[q] = peticion[q]
  BY DEF IInvCr, TypeOKCr, ResponderCr
<1>2. TypeOKCr'
  BY <1>1 DEF TypeOKCr
<1>3. UnSoloDueno'
  BY <1>1 DEF IInvCr, UnSoloDueno, LaTiene, EnCr
<1>4. LecturasVigentes' /\ SesionesDeSuRaiz'
  BY <1>1 DEF IInvCr, LecturasVigentes, SesionesDeSuRaiz, DeSuVersion, YaLeyo
<1>5. PerfilesDeSuSesion'
  BY <1>1 DEF IInvCr, PerfilesDeSuSesion
<1>6. CodigosCoherentes' /\ CodigoEnMano'
  BY <1>1 DEF IInvCr, CodigosCoherentes, IntentosAcotados, CodigoEnMano, EnCr
<1> QED BY <1>2, <1>3, <1>4, <1>5, <1>6 DEF IInvCr

\* A request begins, before it takes any row.
LEMMA Abre ==
    ASSUME CredencialesAssumption, IInvCr, NEW p \in ProcesosCr, NEW op \in OperacionesCr,
           NEW paso \in {"leer", "escribir", "bloquear"}, NEW leida \in {cuenta, NadaCr},
           NEW token \in tokens \cup {NadaCr}, NEW tipeado \in Nat,
           AbrirCr(p, op, paso, leida, token, tipeado),
           paso # "leer" => leida = cuenta /\ op # "perfil",
           op = "perfil" => token \in tokens
    PROVE  IInvCr'
<1> DEFINE r == [op |-> op, paso |-> paso, leida |-> leida, token |-> token,
                 tipeado |-> tipeado, codigo |-> 0, intentos |-> 0]
<1>1. TypeOKCr /\ peticion' = [peticion EXCEPT ![p] = r] /\ UNCHANGED <<cuenta, codigos, tokens>>
  BY DEF IInvCr, AbrirCr
<1>2. r \in Peticion
  BY <1>1 DEF TypeOKCr, Peticion, PasosCr
<1>3. /\ r.op = op /\ r.paso = paso /\ r.leida = leida /\ r.token = token
  OBVIOUS
<1> HIDE DEF r
<1>4. /\ peticion' \in [ProcesosCr -> Peticion \cup {NadaCr}]
      /\ peticion'[p] = r /\ \A q \in ProcesosCr \ {p} : peticion'[q] = peticion[q]
  BY <1>1, <1>2 DEF TypeOKCr
<1>5. TypeOKCr'
  BY <1>1, <1>4 DEF TypeOKCr
<1>6. UnSoloDueno' /\ CodigoEnMano'
  BY <1>1, <1>3, <1>4 DEF IInvCr, UnSoloDueno, LaTiene, EnCr, CodigoEnMano
<1>7. LecturasVigentes'
  BY <1>1, <1>3, <1>4, DeLaCuenta DEF IInvCr, LecturasVigentes, DeSuVersion, YaLeyo, TypeOKCr
<1>8. PerfilesDeSuSesion'
  BY <1>1, <1>3, <1>4 DEF IInvCr, PerfilesDeSuSesion
<1>9. SesionesDeSuRaiz' /\ CodigosCoherentes'
  BY <1>1 DEF IInvCr, SesionesDeSuRaiz, DeSuVersion, CodigosCoherentes, IntentosAcotados
<1> QED BY <1>5, <1>6, <1>7, <1>8, <1>9 DEF IInvCr

\* A request reads the account again on its way to a step that takes no row, or to the
\* one where it has the row to itself.
LEMMA Avanza ==
    ASSUME CredencialesAssumption, IInvCr, NEW p \in ProcesosCr, NEW r \in Peticion,
           peticion[p] # NadaCr, r.op = peticion[p].op, r.token = peticion[p].token,
           r.leida = cuenta, r.paso \in {"escribir", "vinculada", "bloqueada"},
           r.paso # "escribir" => FilaLibre(p) /\ r.op # "perfil",
           r.paso = "bloqueada" =>
              /\ r.op = "restablecer" /\ r.codigo \in DOMAIN codigos
              /\ ~codigos[r.codigo].usado /\ r.intentos = codigos[r.codigo].intentos,
           r.op = "perfil" => cuenta.version = r.token.version,
           peticion' = [peticion EXCEPT ![p] = r], UNCHANGED <<cuenta, codigos, tokens>>
    PROVE  IInvCr'
<1>1. /\ TypeOKCr /\ peticion' \in [ProcesosCr -> Peticion \cup {NadaCr}]
      /\ peticion'[p] = r /\ \A q \in ProcesosCr \ {p} : peticion'[q] = peticion[q]
  BY DEF IInvCr, TypeOKCr
<1>2. TypeOKCr'
  BY <1>1 DEF TypeOKCr
<1>3. UnSoloDueno'
  BY <1>1 DEF IInvCr, UnSoloDueno, LaTiene, EnCr, FilaLibre
<1>4. LecturasVigentes'
  BY <1>1, DeLaCuenta DEF IInvCr, LecturasVigentes, DeSuVersion, YaLeyo, TypeOKCr
<1>5. PerfilesDeSuSesion'
  BY <1>1 DEF IInvCr, PerfilesDeSuSesion
<1>6. CodigoEnMano'
  BY <1>1 DEF IInvCr, CodigoEnMano, EnCr
<1>7. SesionesDeSuRaiz' /\ CodigosCoherentes'
  BY DEF IInvCr, SesionesDeSuRaiz, DeSuVersion, CodigosCoherentes, IntentosAcotados
<1> QED BY <1>2, <1>3, <1>4, <1>5, <1>6, <1>7 DEF IInvCr

\* Registration, approval and discharge leave the password as it is.
LEMMA CambiaElEstado ==
    ASSUME CredencialesAssumption, IInvCr, cuenta' \in Cuenta,
           cuenta'.version = cuenta.version, cuenta'.dcp = cuenta.dcp,
           UNCHANGED <<codigos, tokens, peticion>>
    PROVE  IInvCr'
<1>1. TypeOKCr'
  BY DEF IInvCr, TypeOKCr
<1>2. LecturasVigentes' /\ SesionesDeSuRaiz'
  BY DEF IInvCr, LecturasVigentes, SesionesDeSuRaiz, DeSuVersion, YaLeyo
<1>3. UnSoloDueno' /\ PerfilesDeSuSesion' /\ CodigosCoherentes' /\ CodigoEnMano'
  BY DEF IInvCr, UnSoloDueno, PerfilesDeSuSesion, CodigosCoherentes, IntentosAcotados, CodigoEnMano,
         LaTiene, EnCr
<1> QED BY <1>1, <1>2, <1>3 DEF IInvCr

\* A password changes: every session and every reading is of an earlier version, but the
\* session that the change itself signs.
LEMMA CambiaLaPassword ==
    ASSUME CredencialesAssumption, IInvCr, NEW p \in ProcesosCr, NEW leida, NEW temporal \in BOOLEAN,
           ActualizarPassword(leida, temporal), ResponderCr(p),
           tokens \subseteq tokens',
           \A t \in tokens' \ tokens : t = Firmado(cuenta', cuenta'.version)
    PROVE  /\ cuenta' \in Cuenta
           /\ peticion' \in [ProcesosCr -> Peticion \cup {NadaCr}]
           /\ peticion'[p] = NadaCr /\ \A q \in ProcesosCr \ {p} : peticion'[q] = peticion[q]
           /\ tokens' \subseteq Token
           /\ UnSoloDueno' /\ LecturasVigentes' /\ PerfilesDeSuSesion' /\ SesionesDeSuRaiz'
<1>1. /\ TypeOKCr /\ peticion' \in [ProcesosCr -> Peticion \cup {NadaCr}]
      /\ peticion'[p] = NadaCr /\ \A q \in ProcesosCr \ {p} : peticion'[q] = peticion[q]
  BY DEF IInvCr, TypeOKCr, ResponderCr
<1>2. cuenta' \in Cuenta /\ cuenta'.version = cuenta.version + 1
  <2>1. cuenta \in Cuenta /\ cuenta.version + 1 \in Nat /\ cuenta.version + 2 \in Nat
    BY <1>1 DEF TypeOKCr, Cuenta
  <2>2. cuenta' = [cuenta EXCEPT !.hash = cuenta.version + 2, !.dcp = temporal,
                                 !.version = cuenta.version + 1]
    BY DEF ActualizarPassword, ConPassword
  <2> QED BY <2>1, <2>2 DEF Cuenta
<1>3. \A t \in tokens' \ tokens : /\ t \in Token /\ t.version = cuenta'.version
                                   /\ t.raiz = t.version /\ t.dcp = cuenta'.dcp
  BY <1>2 DEF Firmado, Token, Cuenta
<1>4. cuenta.version \in Nat /\ cuenta'.version \in Nat
  BY <1>1, <1>2 DEF TypeOKCr, Cuenta
<1>5. \A q \in ProcesosCr : YaLeyo(q) => peticion[q].leida.version \in Nat
  BY DEF IInvCr, LecturasVigentes, Cuenta
<1>6. UnSoloDueno'
  BY <1>1 DEF IInvCr, UnSoloDueno, LaTiene, EnCr
<1>7. LecturasVigentes'
  BY <1>1, <1>2, <1>4, <1>5 DEF IInvCr, LecturasVigentes, DeSuVersion, YaLeyo
<1>8. PerfilesDeSuSesion'
  BY <1>1 DEF IInvCr, PerfilesDeSuSesion
<1>9. SesionesDeSuRaiz'
  BY <1>1, <1>2, <1>3, <1>4 DEF IInvCr, SesionesDeSuRaiz, DeSuVersion, TypeOKCr, Token
<1>10. tokens' \subseteq Token
  BY <1>1, <1>3 DEF TypeOKCr
<1> QED BY <1>1, <1>2, <1>6, <1>7, <1>8, <1>9, <1>10

-----------------------------------------------------------------------------
(* What they do to the codes                                                 *)

\* The code that is read is the last one.
LEMMA ElUltimo ==
    ASSUME TypeOKCr, CodigosCoherentes, SinUsar # {}
    PROVE  /\ UltimoSinUsar \in DOMAIN codigos /\ UltimoSinUsar = Len(codigos)
           /\ ~codigos[UltimoSinUsar].usado
<1>1. \A n \in SinUsar : n = Len(codigos)
  BY DEF SinUsar, CodigosCoherentes
<1>2. Len(codigos) \in Nat
  BY LenProperties DEF TypeOKCr
<1>3. PICK n \in SinUsar : TRUE
  OBVIOUS
<1>4. \A m \in SinUsar : m <= n
  BY <1>1, <1>2
<1>5. UltimoSinUsar \in SinUsar
  BY <1>3, <1>4 DEF UltimoSinUsar
<1> QED BY <1>1, <1>5 DEF SinUsar

\* What a request that writes codes has to show: nobody else has the row, which leaves
\* the other requests without a code in hand.
LEMMA NadieConCodigo ==
    ASSUME IInvCr, NEW p \in ProcesosCr, FilaLibre(p) \/ LaTiene(p),
           peticion'[p] = NadaCr, \A q \in ProcesosCr \ {p} : peticion'[q] = peticion[q]
    PROVE  CodigoEnMano'
  BY DEF IInvCr, UnSoloDueno, FilaLibre, LaTiene, CodigoEnMano, EnCr

LEMMA PasoCrearCodigo ==
    ASSUME CredencialesAssumption, IInvCr, NEW p \in ProcesosCr, CrearCodigo(p)
    PROVE  IInvCr' /\ \A n \in DOMAIN codigos : codigos'[n].cambios = codigos[n].cambios
<1> DEFINE viejos == Invalidados(codigos)
           k == Len(codigos)
<1>1. /\ TypeOKCr /\ peticion' \in [ProcesosCr -> Peticion \cup {NadaCr}]
      /\ peticion'[p] = NadaCr /\ \A q \in ProcesosCr \ {p} : peticion'[q] = peticion[q]
      /\ UNCHANGED <<cuenta, tokens>> /\ FilaLibre(p)
  BY DEF IInvCr, TypeOKCr, CrearCodigo, ResponderCr
<1>2. k \in Nat /\ DOMAIN codigos = 1..k /\ \A n \in 1..k : codigos[n] \in Codigo
  BY <1>1, LenProperties, ElementOfSeq DEF TypeOKCr
<1>3. viejos = [n \in 1..k |-> [codigos[n] EXCEPT !.usado = TRUE]]
  BY <1>2 DEF Invalidados
<1>4. \A n \in 1..k : viejos[n] \in Codigo
  BY <1>2, <1>3 DEF Codigo
<1>5. viejos \in Seq(Codigo) /\ Len(viejos) = k
  <2>1. viejos \in [1..k -> Codigo]
    BY <1>3, <1>4
  <2> HIDE DEF viejos
  <2>2. viejos \in Seq(Codigo)
    BY <2>1, <1>2, SeqDef
  <2> QED BY <2>1, <2>2, <1>2, LenProperties
<1>6. NuevoCodigo \in Codigo
  BY DEF NuevoCodigo, Codigo
<1>7. codigos' = Append(viejos, NuevoCodigo)
  BY DEF CrearCodigo
<1>8. \A n \in 1..k : /\ viejos[n].usado /\ viejos[n].errados = codigos[n].errados
                      /\ viejos[n].cambios = codigos[n].cambios
  BY <1>2, <1>3 DEF Codigo
<1> HIDE DEF viejos
<1>9. /\ codigos' \in Seq(Codigo) /\ Len(codigos') = k + 1 /\ DOMAIN codigos' = 1..(k + 1)
      /\ codigos'[k + 1] = NuevoCodigo /\ \A n \in 1..k : codigos'[n] = viejos[n]
  BY <1>2, <1>5, <1>6, <1>7, AppendProperties, LenProperties
<1>10. TypeOKCr'
  BY <1>1, <1>9 DEF TypeOKCr
<1>11. UnSoloDueno' /\ PerfilesDeSuSesion'
  BY <1>1 DEF IInvCr, UnSoloDueno, LaTiene, EnCr, PerfilesDeSuSesion
<1>12. LecturasVigentes' /\ SesionesDeSuRaiz'
  BY <1>1 DEF IInvCr, LecturasVigentes, SesionesDeSuRaiz, DeSuVersion, YaLeyo
<1>13. CodigosCoherentes'
  <2>1. IntentosAcotados'
    BY <1>2, <1>8, <1>9 DEF IInvCr, CodigosCoherentes, IntentosAcotados, NuevoCodigo, CredencialesAssumption
  <2> QED BY <2>1, <1>2, <1>8, <1>9 DEF CodigosCoherentes, NuevoCodigo, CredencialesAssumption
<1>14. CodigoEnMano'
  BY <1>1, NadieConCodigo
<1>15. \A n \in DOMAIN codigos : codigos'[n].cambios = codigos[n].cambios
  BY <1>2, <1>8, <1>9
<1> QED BY <1>10, <1>11, <1>12, <1>13, <1>14, <1>15 DEF IInvCr

\* The fields of one code change.
LEMMA CambiaUnCodigo ==
    ASSUME TypeOKCr, NEW n \in DOMAIN codigos, NEW r \in Codigo, codigos' = [codigos EXCEPT ![n] = r]
    PROVE  /\ codigos' \in Seq(Codigo) /\ Len(codigos') = Len(codigos)
           /\ DOMAIN codigos' = DOMAIN codigos /\ codigos'[n] = r
           /\ \A m \in DOMAIN codigos \ {n} : codigos'[m] = codigos[m]
  BY ExceptSeq, LenProperties DEF TypeOKCr

LEMMA PasoRegistrarFallo ==
    ASSUME CredencialesAssumption, IInvCr, NEW p \in ProcesosCr, RegistrarFallo(p)
    PROVE  IInvCr' /\ \A n \in DOMAIN codigos : codigos'[n].cambios = codigos[n].cambios
<1> DEFINE n == peticion[p].codigo
           i == peticion[p].intentos + 1
           quemado == i >= MaxIntentos
           r == [codigos[n] EXCEPT !.usado = quemado, !.intentos = i,
                                   !.errados = codigos[n].errados + 1]
<1>1. /\ TypeOKCr /\ peticion' \in [ProcesosCr -> Peticion \cup {NadaCr}]
      /\ peticion'[p] = NadaCr /\ \A q \in ProcesosCr \ {p} : peticion'[q] = peticion[q]
      /\ UNCHANGED <<cuenta, tokens>> /\ LaTiene(p)
      /\ codigos' = [codigos EXCEPT ![n] = r]
  BY DEF IInvCr, TypeOKCr, RegistrarFallo, ResponderCr, LaTiene, EnCr
<1>2. n \in DOMAIN codigos /\ ~codigos[n].usado /\ peticion[p].intentos = codigos[n].intentos
  BY DEF IInvCr, CodigoEnMano, RegistrarFallo
<1>3. /\ n = Len(codigos) /\ codigos[n].cambios = 0
      /\ codigos[n].errados = codigos[n].intentos /\ codigos[n].intentos < MaxIntentos
  BY <1>2 DEF IInvCr, CodigosCoherentes
<1>4. codigos[n] \in Codigo
  BY <1>1, <1>2, ElementOfSeq, LenProperties DEF TypeOKCr
<1>5. /\ r \in Codigo /\ r.cambios = 0 /\ r.errados = r.intentos
      /\ r.errados <= MaxIntentos
      /\ ~r.usado => r.intentos < MaxIntentos
  <2>1. i \in Nat /\ MaxIntentos \in Nat /\ codigos[n].errados + 1 = i /\ i <= MaxIntentos
    BY <1>2, <1>3, <1>4 DEF Codigo, CredencialesAssumption
  <2>2. quemado \in BOOLEAN /\ (~quemado => i < MaxIntentos)
    BY <2>1
  <2>3. r = [codigos[n] EXCEPT !.usado = quemado, !.intentos = i, !.errados = i]
    BY <2>1
  <2> HIDE DEF r, i, n, quemado
  <2>4. r \in Codigo
    BY <1>4, <2>1, <2>2, <2>3 DEF Codigo
  <2>5. r.usado = quemado /\ r.intentos = i /\ r.errados = i /\ r.cambios = 0
    BY <1>3, <1>4, <2>3 DEF Codigo
  <2> QED BY <2>1, <2>2, <2>4, <2>5
<1> HIDE DEF r, n, i, quemado
<1>6. /\ codigos' \in Seq(Codigo) /\ Len(codigos') = Len(codigos)
      /\ DOMAIN codigos' = DOMAIN codigos /\ codigos'[n] = r
      /\ \A m \in DOMAIN codigos \ {n} : codigos'[m] = codigos[m]
  BY <1>1, <1>2, <1>5, CambiaUnCodigo
<1>7. TypeOKCr'
  BY <1>1, <1>6 DEF TypeOKCr
<1>8. UnSoloDueno' /\ PerfilesDeSuSesion'
  BY <1>1 DEF IInvCr, UnSoloDueno, LaTiene, EnCr, PerfilesDeSuSesion
<1>9. LecturasVigentes' /\ SesionesDeSuRaiz'
  BY <1>1 DEF IInvCr, LecturasVigentes, SesionesDeSuRaiz, DeSuVersion, YaLeyo
<1>10. CodigosCoherentes'
  BY <1>3, <1>5, <1>6 DEF IInvCr, CodigosCoherentes, IntentosAcotados
<1>11. CodigoEnMano'
  BY <1>1, NadieConCodigo
<1>12. \A m \in DOMAIN codigos : codigos'[m].cambios = codigos[m].cambios
  BY <1>3, <1>5, <1>6
<1> QED BY <1>7, <1>8, <1>9, <1>10, <1>11, <1>12 DEF IInvCr

\* The code in hand is the last one, so it is the only one that ever changes a password.
LEMMA PasoUsarCodigo ==
    ASSUME CredencialesAssumption, IInvCr, NEW p \in ProcesosCr, UsarCodigo(p)
    PROVE  IInvCr' /\ \A n \in DOMAIN codigos : codigos'[n].cambios # codigos[n].cambios => n = Len(codigos)
<1> DEFINE n == peticion[p].codigo
           r == [codigos[n] EXCEPT !.usado = TRUE, !.cambios = codigos[n].cambios + 1]
<1>1. /\ TypeOKCr /\ LaTiene(p) /\ codigos' = [codigos EXCEPT ![n] = r]
      /\ ActualizarPassword(peticion[p].leida, FALSE) /\ ResponderCr(p) /\ tokens' = tokens
  BY DEF IInvCr, UsarCodigo, LaTiene, EnCr
<1>2. n \in DOMAIN codigos /\ ~codigos[n].usado
  BY DEF IInvCr, CodigoEnMano, UsarCodigo
<1>3. /\ n = Len(codigos) /\ codigos[n].cambios = 0
      /\ codigos[n].errados = codigos[n].intentos /\ codigos[n].intentos < MaxIntentos
  BY <1>2 DEF IInvCr, CodigosCoherentes
<1>4. codigos[n] \in Codigo
  BY <1>1, <1>2, ElementOfSeq, LenProperties DEF TypeOKCr
<1>5. r \in Codigo /\ r.usado /\ r.cambios = 1 /\ r.errados < MaxIntentos /\ r.errados <= MaxIntentos
  <2>1. r = [codigos[n] EXCEPT !.usado = TRUE, !.cambios = 1]
    BY <1>3
  <2> HIDE DEF n, r
  <2>2. r \in Codigo /\ r.usado /\ r.cambios = 1 /\ r.errados = codigos[n].errados
    BY <1>4, <2>1 DEF Codigo
  <2>3. codigos[n].errados \in Nat /\ MaxIntentos \in Nat
    BY <1>4 DEF Codigo, CredencialesAssumption
  <2> QED BY <1>3, <2>2, <2>3
<1>6. /\ cuenta' \in Cuenta
      /\ peticion' \in [ProcesosCr -> Peticion \cup {NadaCr}]
      /\ peticion'[p] = NadaCr /\ \A q \in ProcesosCr \ {p} : peticion'[q] = peticion[q]
      /\ tokens' \subseteq Token
      /\ UnSoloDueno' /\ LecturasVigentes' /\ PerfilesDeSuSesion' /\ SesionesDeSuRaiz'
  BY <1>1, CambiaLaPassword
<1> HIDE DEF r, n
<1>7. /\ codigos' \in Seq(Codigo) /\ Len(codigos') = Len(codigos)
      /\ DOMAIN codigos' = DOMAIN codigos /\ codigos'[n] = r
      /\ \A m \in DOMAIN codigos \ {n} : codigos'[m] = codigos[m]
  BY <1>1, <1>2, <1>5, CambiaUnCodigo
<1>8. TypeOKCr'
  BY <1>6, <1>7 DEF TypeOKCr
<1>9. CodigosCoherentes'
  BY <1>5, <1>7 DEF IInvCr, CodigosCoherentes, IntentosAcotados
<1>10. CodigoEnMano'
  BY <1>1, <1>6, NadieConCodigo
<1>11. \A m \in DOMAIN codigos : codigos'[m].cambios # codigos[m].cambios => m = Len(codigos)
  BY <1>3, <1>7
<1> QED BY <1>6, <1>8, <1>9, <1>10, <1>11 DEF IInvCr

LEMMA PasoVenceCodigo ==
    ASSUME CredencialesAssumption, IInvCr, VenceCodigo
    PROVE  IInvCr' /\ \A n \in DOMAIN codigos : codigos'[n].cambios = codigos[n].cambios
<1>1. PICK n \in DOMAIN codigos : codigos' = [codigos EXCEPT ![n] = [codigos[n] EXCEPT !.vencido = TRUE]]
  BY DEF VenceCodigo
<1>2. TypeOKCr /\ UNCHANGED <<cuenta, tokens, peticion>>
  BY DEF IInvCr, VenceCodigo
<1> DEFINE r == [codigos[n] EXCEPT !.vencido = TRUE]
<1>3. codigos[n] \in Codigo
  BY <1>2, ElementOfSeq, LenProperties DEF TypeOKCr
<1>4. /\ r \in Codigo /\ r.usado = codigos[n].usado /\ r.cambios = codigos[n].cambios
      /\ r.errados = codigos[n].errados /\ r.intentos = codigos[n].intentos
  BY <1>3 DEF Codigo
<1> HIDE DEF r
<1>5. /\ codigos' \in Seq(Codigo) /\ Len(codigos') = Len(codigos)
      /\ DOMAIN codigos' = DOMAIN codigos /\ codigos'[n] = r
      /\ \A m \in DOMAIN codigos \ {n} : codigos'[m] = codigos[m]
  BY <1>1, <1>2, <1>4, CambiaUnCodigo DEF r
<1>6. TypeOKCr'
  BY <1>2, <1>5 DEF TypeOKCr
<1>7. UnSoloDueno' /\ PerfilesDeSuSesion'
  BY <1>2 DEF IInvCr, UnSoloDueno, LaTiene, EnCr, PerfilesDeSuSesion
<1>8. LecturasVigentes' /\ SesionesDeSuRaiz'
  BY <1>2 DEF IInvCr, LecturasVigentes, SesionesDeSuRaiz, DeSuVersion, YaLeyo
<1>9. CodigosCoherentes' /\ CodigoEnMano'
  BY <1>2, <1>4, <1>5 DEF IInvCr, CodigosCoherentes, IntentosAcotados, CodigoEnMano, EnCr
<1>10. \A m \in DOMAIN codigos : codigos'[m].cambios = codigos[m].cambios
  BY <1>4, <1>5
<1> QED BY <1>6, <1>7, <1>8, <1>9, <1>10 DEF IInvCr

-----------------------------------------------------------------------------
(* Entering, with a password or with Google                                  *)

\* What is signed for who entered is a session of the reading that let them in.
LEMMA FirmaLoLeido ==
    ASSUME IInvCr, NEW p \in ProcesosCr, YaLeyo(p)
    PROVE  LET t == Firmado(peticion[p].leida, peticion[p].leida.version) IN
             t \in Token /\ t.raiz = t.version /\ DeSuVersion(t.version, t.dcp)
  BY DEF IInvCr, LecturasVigentes, Firmado, Token, Cuenta

LEMMA PasoIngresos ==
    ASSUME CredencialesAssumption, IInvCr, Ingresos \/ IngresosConGoogle
    PROVE  IInvCr' /\ codigos' = codigos
<1>1. ASSUME NEW p \in ProcesosCr, Login(p) PROVE IInvCr' /\ codigos' = codigos
  <2>1. AbrirCr(p, "login", "escribir", cuenta, NadaCr, 0)
    BY <1>1 DEF Login
  <2>2. IInvCr'
    BY <2>1, Abre DEF OperacionesCr
  <2> QED BY <2>1, <2>2 DEF AbrirCr
<1>2. ASSUME NEW p \in ProcesosCr, FirmarLogin(p) \/ YaVinculada(p)
      PROVE  IInvCr' /\ codigos' = codigos
  <2>1. YaLeyo(p) /\ ResponderCr(p) /\ UNCHANGED <<cuenta, codigos>>
    BY <1>2 DEF FirmarLogin, YaVinculada, EnCr, YaLeyo
  <2>2. tokens' = tokens \cup {Firmado(peticion[p].leida, peticion[p].leida.version)}
    BY <1>2 DEF FirmarLogin, YaVinculada
  <2>3. cuenta' \in Cuenta
    BY <2>1 DEF IInvCr, TypeOKCr
  <2> QED BY <2>1, <2>2, <2>3, FirmaLoLeido, Responde
<1>3. ASSUME NEW p \in ProcesosCr, LoginConGoogle(p) PROVE IInvCr' /\ codigos' = codigos
  <2>1. AbrirCr(p, "google", "escribir", cuenta, NadaCr, 0)
    BY <1>3 DEF LoginConGoogle
  <2>2. IInvCr'
    BY <2>1, Abre DEF OperacionesCr
  <2> QED BY <2>1, <2>2 DEF AbrirCr
<1>4. ASSUME NEW p \in ProcesosCr, VincularGoogle(p) PROVE IInvCr' /\ codigos' = codigos
  <2> DEFINE r == [peticion[p] EXCEPT !.paso = "vinculada", !.leida = cuenta]
  <2>1. /\ peticion' = [peticion EXCEPT ![p] = r] /\ FilaLibre(p)
        /\ peticion[p] # NadaCr /\ peticion[p].op = "google"
        /\ UNCHANGED <<cuenta, codigos, tokens>>
    BY <1>4 DEF VincularGoogle, Seguir, EnCr
  <2>2. peticion[p] \in Peticion /\ cuenta \in Cuenta
    BY <2>1 DEF IInvCr, TypeOKCr
  <2>3. /\ r \in Peticion /\ r.op = peticion[p].op /\ r.token = peticion[p].token
        /\ r.leida = cuenta /\ r.paso = "vinculada"
    BY <2>2 DEF Peticion, PasosCr
  <2> HIDE DEF r
  <2>4. IInvCr'
    BY <2>1, <2>3, Avanza
  <2> QED BY <2>1, <2>4
<1>5. ASSUME NEW p \in ProcesosCr, ConfirmarVinculo(p) PROVE IInvCr' /\ codigos' = codigos
  <2>1. YaLeyo(p) /\ ResponderCr(p) /\ UNCHANGED codigos
    BY <1>5 DEF ConfirmarVinculo, EnCr, YaLeyo
  <2>2. tokens' = tokens \cup {Firmado(peticion[p].leida, peticion[p].leida.version)}
    BY <1>5 DEF ConfirmarVinculo
  <2>3. cuenta' \in Cuenta /\ cuenta'.version = cuenta.version /\ cuenta'.dcp = cuenta.dcp
    BY <1>5 DEF ConfirmarVinculo, IInvCr, TypeOKCr, Cuenta
  <2> QED BY <2>1, <2>2, <2>3, FirmaLoLeido, Responde
<1>6. ASSUME NEW p \in ProcesosCr, NegarIngreso(p) PROVE IInvCr' /\ codigos' = codigos
  <2>1. ResponderCr(p) /\ UNCHANGED <<cuenta, codigos, tokens>>
    BY <1>6 DEF NegarIngreso
  <2>2. cuenta' \in Cuenta
    BY <2>1 DEF IInvCr, TypeOKCr
  <2> QED BY <2>1, <2>2, Responde
<1> QED BY <1>1, <1>2, <1>3, <1>4, <1>5, <1>6 DEF Ingresos, IngresosConGoogle

-----------------------------------------------------------------------------
(* Passwords and profile                                                     *)

\* What reads the account on its way to writing it.
LEMMA LeeParaEscribir ==
    ASSUME CredencialesAssumption, IInvCr, NEW p \in ProcesosCr, peticion[p] # NadaCr,
           Seguir(p, "escribir"), UNCHANGED <<cuenta, codigos, tokens>>,
           peticion[p].op = "perfil" => cuenta.version = peticion[p].token.version
    PROVE  IInvCr'
<1> DEFINE r == [peticion[p] EXCEPT !.paso = "escribir", !.leida = cuenta]
<1>1. peticion' = [peticion EXCEPT ![p] = r]
  BY DEF Seguir
<1>2. peticion[p] \in Peticion /\ cuenta \in Cuenta
  BY DEF IInvCr, TypeOKCr
<1>3. /\ r \in Peticion /\ r.op = peticion[p].op /\ r.token = peticion[p].token
      /\ r.leida = cuenta /\ r.paso = "escribir"
  BY <1>2 DEF Peticion, PasosCr
<1> HIDE DEF r
<1> QED BY <1>1, <1>3, Avanza

\* Whoever changes a password leaves nobody with a code in hand: the row is theirs.
LEMMA PasoPasswords ==
    ASSUME CredencialesAssumption, IInvCr, Passwords \/ Resets
    PROVE  IInvCr' /\ codigos' = codigos
<1>1. ASSUME NEW p \in ProcesosCr, PedirCambioDePassword(p) \/ PedirReset(p)
      PROVE  IInvCr' /\ codigos' = codigos
  <2>1. PICK t \in tokens \cup {NadaCr}, op \in {"cambiar", "resetear"} :
           AbrirCr(p, op, "leer", NadaCr, t, 0)
    BY <1>1 DEF PedirCambioDePassword, PedirReset
  <2>2. IInvCr'
    BY <2>1, Abre DEF OperacionesCr
  <2> QED BY <2>1, <2>2 DEF AbrirCr
<1>2. ASSUME NEW p \in ProcesosCr, LeerParaCambiar(p) \/ LeerParaResetear(p)
      PROVE  IInvCr' /\ codigos' = codigos
  <2>1. /\ Seguir(p, "escribir") /\ UNCHANGED <<cuenta, codigos, tokens>>
        /\ peticion[p] # NadaCr /\ peticion[p].op # "perfil"
    BY <1>2 DEF LeerParaCambiar, LeerParaResetear, EnCr
  <2> QED BY <2>1, LeeParaEscribir
<1>3. ASSUME NEW p \in ProcesosCr, CambiarPassword(p) \/ ResetearPassword(p)
      PROVE  IInvCr' /\ codigos' = codigos
  <2>1. PICK temporal \in BOOLEAN : ActualizarPassword(peticion[p].leida, temporal)
    BY <1>3 DEF CambiarPassword, ResetearPassword
  <2>2. ResponderCr(p) /\ UNCHANGED codigos /\ FilaLibre(p)
    BY <1>3 DEF CambiarPassword, ResetearPassword
  <2>3. /\ tokens \subseteq tokens'
        /\ \A t \in tokens' \ tokens : t = Firmado(cuenta', cuenta'.version)
    BY <1>3 DEF CambiarPassword, ResetearPassword
  <2>4. /\ cuenta' \in Cuenta
        /\ peticion' \in [ProcesosCr -> Peticion \cup {NadaCr}]
        /\ peticion'[p] = NadaCr /\ \A q \in ProcesosCr \ {p} : peticion'[q] = peticion[q]
        /\ tokens' \subseteq Token
        /\ UnSoloDueno' /\ LecturasVigentes' /\ PerfilesDeSuSesion' /\ SesionesDeSuRaiz'
    BY <2>1, <2>2, <2>3, CambiaLaPassword
  <2>5. TypeOKCr'
    BY <2>2, <2>4 DEF IInvCr, TypeOKCr
  <2>6. CodigosCoherentes'
    BY <2>2 DEF IInvCr, CodigosCoherentes, IntentosAcotados
  <2>7. CodigoEnMano'
    BY <2>2, <2>4, NadieConCodigo
  <2> QED BY <2>2, <2>4, <2>5, <2>6, <2>7 DEF IInvCr
<1> QED BY <1>1, <1>2, <1>3 DEF Passwords, Resets

\* The session that editing the profile renews is of the version its own was.
LEMMA PasoPerfiles ==
    ASSUME CredencialesAssumption, IInvCr, Perfiles
    PROVE  IInvCr' /\ codigos' = codigos
<1>1. ASSUME NEW p \in ProcesosCr, PedirPerfil(p) PROVE IInvCr' /\ codigos' = codigos
  <2>1. PICK t \in tokens : AbrirCr(p, "perfil", "leer", NadaCr, t, 0)
    BY <1>1 DEF PedirPerfil
  <2>2. IInvCr'
    BY <2>1, Abre DEF OperacionesCr
  <2> QED BY <2>1, <2>2 DEF AbrirCr
<1>2. ASSUME NEW p \in ProcesosCr, LeerParaPerfil(p) PROVE IInvCr' /\ codigos' = codigos
  <2>1. /\ Seguir(p, "escribir") /\ UNCHANGED <<cuenta, codigos, tokens>>
        /\ peticion[p] # NadaCr /\ cuenta.version = peticion[p].token.version
    BY <1>2 DEF LeerParaPerfil, SigueSiendoSuSesion, EnCr
  <2> QED BY <2>1, LeeParaEscribir
<1>3. ASSUME NEW p \in ProcesosCr, ActualizarPerfil(p) PROVE IInvCr' /\ codigos' = codigos
  <2> DEFINE t == Firmado(cuenta, peticion[p].token.raiz)
  <2>1. /\ peticion[p] # NadaCr /\ peticion[p].op = "perfil" /\ peticion[p].paso = "escribir"
        /\ cuenta.version = peticion[p].leida.version /\ tokens' = tokens \cup {t}
        /\ ResponderCr(p) /\ UNCHANGED <<cuenta, codigos>>
    BY <1>3 DEF ActualizarPerfil, EnCr
  <2>2. peticion[p].token \in tokens /\ peticion[p].token.version = cuenta.version
    BY <2>1 DEF IInvCr, PerfilesDeSuSesion
  <2>3. peticion[p].token.raiz = cuenta.version /\ cuenta' \in Cuenta /\ cuenta \in Cuenta
    BY <2>1, <2>2 DEF IInvCr, SesionesDeSuRaiz, TypeOKCr
  <2>4. t \in Token /\ t.raiz = t.version /\ DeSuVersion(t.version, t.dcp)
    BY <2>3 DEF Firmado, Token, Cuenta, DeSuVersion
  <2> HIDE DEF t
  <2> QED BY <2>1, <2>3, <2>4, Responde
<1> QED BY <1>1, <1>2, <1>3 DEF Perfiles

-----------------------------------------------------------------------------
(* Recovery, and the step of the specification                               *)

\* Of the codes there were, the last one is the only one that changes a password.
CambiaSoloElUltimo ==
    \A n \in DOMAIN codigos : codigos'[n].cambios # codigos[n].cambios => n = Len(codigos)

LEMMA PasoRecuperaciones ==
    ASSUME CredencialesAssumption, IInvCr, Olvidos \/ Recuperaciones
    PROVE  IInvCr' /\ CambiaSoloElUltimo
<1>1. ASSUME NEW p \in ProcesosCr, SolicitarRecuperacion(p) PROVE IInvCr' /\ CambiaSoloElUltimo
  <2>1. AbrirCr(p, "olvide", "escribir", cuenta, NadaCr, 0)
    BY <1>1 DEF SolicitarRecuperacion
  <2>2. IInvCr'
    BY <2>1, Abre DEF OperacionesCr
  <2> QED BY <2>1, <2>2 DEF AbrirCr, CambiaSoloElUltimo
<1>2. ASSUME NEW p \in ProcesosCr, CrearCodigo(p) PROVE IInvCr' /\ CambiaSoloElUltimo
  BY <1>2, PasoCrearCodigo DEF CambiaSoloElUltimo
<1>3. ASSUME NEW p \in ProcesosCr, Restablecer(p) PROVE IInvCr' /\ CambiaSoloElUltimo
  <2>1. PICK n \in 0..Len(codigos) : AbrirCr(p, "restablecer", "bloquear", cuenta, NadaCr, n)
    BY <1>3 DEF Restablecer
  <2>2. n \in Nat
    BY LenProperties DEF IInvCr, TypeOKCr
  <2>3. IInvCr'
    BY <2>1, <2>2, Abre DEF OperacionesCr
  <2> QED BY <2>1, <2>3 DEF AbrirCr, CambiaSoloElUltimo
<1>4. ASSUME NEW p \in ProcesosCr, BloquearRecuperacion(p) PROVE IInvCr' /\ CambiaSoloElUltimo
  <2> DEFINE n == UltimoSinUsar
             i == codigos[n].intentos
             r == [peticion[p] EXCEPT !.paso = "bloqueada", !.leida = cuenta,
                                      !.codigo = n, !.intentos = i]
  <2>1. /\ peticion' = [peticion EXCEPT ![p] = r] /\ FilaLibre(p) /\ SinUsar # {}
        /\ peticion[p] # NadaCr /\ peticion[p].op = "restablecer"
        /\ UNCHANGED <<cuenta, codigos, tokens>>
    BY <1>4 DEF BloquearRecuperacion, EnCr
  <2>2. /\ peticion[p] \in Peticion /\ cuenta \in Cuenta
        /\ n \in DOMAIN codigos /\ ~codigos[n].usado
    BY <2>1, ElUltimo DEF IInvCr, TypeOKCr
  <2>3. n \in Nat /\ codigos[n] \in Codigo
    BY <2>2, ElementOfSeq, LenProperties DEF IInvCr, TypeOKCr
  <2>4. i \in Nat
    BY <2>3 DEF Codigo
  <2> HIDE DEF n, i
  <2>5. /\ r \in Peticion /\ r.op = peticion[p].op /\ r.token = peticion[p].token
        /\ r.leida = cuenta /\ r.paso = "bloqueada" /\ r.codigo = n /\ r.intentos = i
    BY <2>2, <2>3, <2>4 DEF Peticion, PasosCr
  <2>6. r.intentos = codigos[r.codigo].intentos
    BY <2>5 DEF i
  <2> HIDE DEF r
  <2>7. IInvCr'
    BY <2>1, <2>2, <2>5, <2>6, Avanza
  <2> QED BY <2>1, <2>7 DEF CambiaSoloElUltimo
<1>5. ASSUME NEW p \in ProcesosCr, RegistrarFallo(p) PROVE IInvCr' /\ CambiaSoloElUltimo
  BY <1>5, PasoRegistrarFallo DEF CambiaSoloElUltimo
<1>6. ASSUME NEW p \in ProcesosCr, UsarCodigo(p) PROVE IInvCr' /\ CambiaSoloElUltimo
  BY <1>6, PasoUsarCodigo DEF CambiaSoloElUltimo
<1> QED BY <1>1, <1>2, <1>3, <1>4, <1>5, <1>6 DEF Olvidos, Recuperaciones

LEMMA PasoCr ==
    ASSUME CredencialesAssumption, IInvCr, [NextCr]_varsCr
    PROVE  IInvCr' /\ CambiaSoloElUltimo
<1>1. CASE Registros \/ Estado
  <2>1. /\ cuenta' \in Cuenta /\ cuenta'.version = cuenta.version /\ cuenta'.dcp = cuenta.dcp
        /\ UNCHANGED <<codigos, tokens, peticion>>
    <3>1. cuenta \in Cuenta
      BY DEF IInvCr, TypeOKCr
    <3>2. CASE RegistrarCr
      BY <3>1, <3>2 DEF RegistrarCr, Cuenta, EstadosCr
    <3>3. CASE RegistrarConGoogle
      BY <3>1, <3>3 DEF RegistrarConGoogle, Cuenta, EstadosCr
    <3>4. CASE Estado
      BY <3>1, <3>4 DEF Estado, CambiarEstado, Cuenta, EstadosCr
    <3> QED BY <1>1, <3>2, <3>3, <3>4 DEF Registros
  <2> QED BY <2>1, CambiaElEstado DEF CambiaSoloElUltimo
<1>2. CASE Ingresos \/ IngresosConGoogle
  BY <1>2, PasoIngresos DEF CambiaSoloElUltimo
<1>3. CASE Passwords \/ Resets
  BY <1>3, PasoPasswords DEF CambiaSoloElUltimo
<1>4. CASE Perfiles
  BY <1>4, PasoPerfiles DEF CambiaSoloElUltimo
<1>5. CASE Olvidos \/ Recuperaciones
  BY <1>5, PasoRecuperaciones
<1>6. CASE VenceCodigo
  BY <1>6, PasoVenceCodigo DEF CambiaSoloElUltimo
<1>7. CASE FallarCr
  <2>1. PICK p \in ProcesosCr : DeshacerCr(p)
    BY <1>7 DEF FallarCr
  <2>2. ResponderCr(p) /\ UNCHANGED <<cuenta, codigos, tokens>>
    BY <2>1 DEF DeshacerCr
  <2>3. cuenta' \in Cuenta
    BY <2>2 DEF IInvCr, TypeOKCr
  <2> QED BY <2>2, <2>3, Responde DEF CambiaSoloElUltimo
<1>8. CASE UNCHANGED varsCr
  <2>1. cuenta' \in Cuenta
    BY <1>8 DEF IInvCr, TypeOKCr, varsCr
  <2> QED BY <1>8, <2>1, CambiaElEstado DEF varsCr, CambiaSoloElUltimo
<1> QED BY <1>1, <1>2, <1>3, <1>4, <1>5, <1>6, <1>7, <1>8 DEF NextCr

-----------------------------------------------------------------------------
(* The theorems                                                              *)

\* Everything the proof rests on holds in every state the requests reach.
THEOREM CredencialesCoherentes == ASSUME CredencialesAssumption PROVE SpecCr => []IInvCr
<1>1. InitCr => IInvCr
  BY InicioCr
<1>2. IInvCr /\ [NextCr]_varsCr => IInvCr'
  BY PasoCr
<1> QED BY <1>1, <1>2, PTL DEF SpecCr

\* A recovery code is tried at most MaxIntentos times and changes one password at most,
\* and never one that was missed that often, whoever tries it at the same time.
THEOREM IntentosSiempreAcotados ==
    ASSUME CredencialesAssumption PROVE SpecCr => []IntentosAcotados
<1>1. IInvCr => IntentosAcotados
  BY DEF IInvCr, CodigosCoherentes
<1> QED BY <1>1, CredencialesCoherentes, PTL

\* No session outlives a change of the password, and the one that passes the middleware
\* says whether the password is temporary.
THEOREM SesionesSiempreVigentes ==
    ASSUME CredencialesAssumption PROVE SpecCr => []SesionesVigentes
<1>1. IInvCr => SesionesVigentes
  BY DEF IInvCr, SesionesDeSuRaiz, DeSuVersion, SesionesVigentes, NingunaSesionSobrevive,
         SesionDiceLoQueLaCuenta
<1> QED BY <1>1, CredencialesCoherentes, PTL

\* No step changes a password with a code that was asked for again.
THEOREM SoloElUltimoCodigoCambia ==
    ASSUME CredencialesAssumption PROVE SpecCr => SoloElUltimoCodigo
<1>1. IInvCr /\ [NextCr]_varsCr => CambiaSoloElUltimo
  BY PasoCr
<1> QED BY <1>1, CredencialesCoherentes, PTL DEF SpecCr, SoloElUltimoCodigo, CambiaSoloElUltimo

-----------------------------------------------------------------------------
(* Requests for a subject                                                      *)

Constancia == [pedido : Pedidos, auditado : EstadosPedido, estado : EstadosPedido, por : Admins]
Resolucion ==
    [pedido : Pedidos, admin : Admins, aprobar : BOOLEAN, curso : Cursos \cup {NadaP},
     rol : RolesDocente \cup {NadaP}]

\* While a resolution is open its request waits, and what it checked goes on holding.
ConResolucion ==
    resolviendo # NadaP =>
        /\ resolviendo \in Resolucion
        /\ pedidos[resolviendo.pedido] # NadaP
        /\ pedidos[resolviendo.pedido].estado = "PENDIENTE"
        /\ resolviendo.aprobar => PuedeAprobarse(resolviendo.pedido, resolviendo.curso)

\* Nobody teaches a subject that does not exist.
DocenciasDeMaterias == \A d \in docentes : d.materia \in existentes

\* There is one answer for each request that was told, and it says what the request says
\* for as long as it is there; one that was not told was not decided.
ConstanciasVeraces ==
    /\ constancias \subseteq Constancia
    /\ \A x \in constancias : x.auditado = x.estado /\ avisados[x.pedido] = 1
    /\ \A x, y \in constancias : x.pedido = y.pedido => x = y
    /\ \A p \in Pedidos : avisados[p] # 0 =>
          \E x \in constancias :
             /\ x.pedido = p
             /\ pedidos[p] # NadaP => pedidos[p].estado = x.estado /\ pedidos[p].resueltoPor = x.por
    /\ \A p \in Pedidos : pedidos[p] # NadaP /\ pedidos[p].estado # "PENDIENTE" => avisados[p] = 1
    /\ \A x \in constancias : x.estado # "PENDIENTE"

IInvP == TypeOKP /\ ConResolucion /\ DocenciasDeMaterias /\ ConstanciasVeraces

\* What AprobarEsAsignar asks of a step.
ApruebaAsignando ==
    \A p \in Pedidos :
        pedidos[p] # NadaP /\ pedidos'[p] # NadaP /\ pedidos[p].estado = "PENDIENTE"
           /\ pedidos'[p].estado = "APROBADO" =>
        /\ personas'[pedidos[p].usuario] = "APROBADA"
        /\ docentes \subseteq docentes'
        /\ \E d \in docentes' \ docentes :
              /\ d.usuario = pedidos[p].usuario
              /\ d.materia \in existentes' /\ d.materia.curso \notin Archivados
              /\ d.materia \in {pedidos'[p].materia, pedidos'[p].creada}
              /\ DocentesDe(d.materia) # {} /\ resolviendo.rol = NadaP => d.rol = "SUPLENTE"

LEMMA InicioP == ASSUME PedidosAssumption, InitP PROVE IInvP
<1>1. TypeOKP
  BY DEF InitP, TypeOKP
<1>2. ConResolucion /\ DocenciasDeMaterias /\ ConstanciasVeraces
  BY DEF InitP, ConResolucion, DocenciasDeMaterias, ConstanciasVeraces
<1> QED BY <1>1, <1>2 DEF IInvP

\* What writes no request and leaves no resolution open: assignments, reservations,
\* discharges and the attempt that is undone.
LEMMA SinTocarPedidos ==
    ASSUME IInvP, resolviendo' = NadaP, UNCHANGED <<existentes, pedidos, constancias, avisados>>,
           personas' \in [Autores -> {"APROBADA", "BAJA", "ELIMINADA"}],
           docentes' \subseteq Docencia, \A d \in docentes' : d.materia \in existentes,
           conClases' \subseteq existentes
    PROVE  IInvP' /\ ApruebaAsignando
<1>1. TypeOKP'
  BY DEF IInvP, TypeOKP
<1>2. ConResolucion' /\ DocenciasDeMaterias' /\ ConstanciasVeraces'
  BY DEF IInvP, ConResolucion, DocenciasDeMaterias, ConstanciasVeraces
<1>3. ApruebaAsignando
  BY DEF ApruebaAsignando
<1> QED BY <1>1, <1>2, <1>3 DEF IInvP

LEMMA PasoPedirMateria ==
    ASSUME PedidosAssumption, IInvP, PeticionPedirMateria
    PROVE  IInvP' /\ ApruebaAsignando
<1>1. PICK p \in Pedidos, u \in Autores, m \in Asignatura \cup {NadaP}, t \in Titulos :
         /\ NuevoPedido(p, u, m, t) /\ avisados[p] = 0 /\ pedidos[p] = NadaP /\ Turno
         /\ UNCHANGED <<personas, existentes, docentes, conClases, resolviendo, constancias, avisados>>
  BY DEF PeticionPedirMateria, PedirMateria, PedirMateriaNueva, IInvP, TypeOKP, Asignatura
<1> DEFINE r == [usuario |-> u, materia |-> m, titulo |-> t, estado |-> "PENDIENTE",
                 creada |-> NadaP, resueltoPor |-> NadaP]
<1>2. r \in PedidoDeMateria /\ r.estado = "PENDIENTE"
  BY DEF PedidoDeMateria, EstadosPedido
<1>3. pedidos' = [pedidos EXCEPT ![p] = r]
  BY <1>1 DEF NuevoPedido
<1> HIDE DEF r
<1>4. /\ pedidos' \in [Pedidos -> PedidoDeMateria \cup {NadaP}]
      /\ pedidos'[p] = r /\ \A q \in Pedidos \ {p} : pedidos'[q] = pedidos[q]
  BY <1>2, <1>3 DEF IInvP, TypeOKP
<1>5. TypeOKP'
  BY <1>1, <1>4 DEF IInvP, TypeOKP
<1>6. ConResolucion' /\ DocenciasDeMaterias'
  BY <1>1 DEF IInvP, ConResolucion, DocenciasDeMaterias, Turno
<1>7. ConstanciasVeraces'
  BY <1>1, <1>2, <1>4 DEF IInvP, ConstanciasVeraces
<1>8. ApruebaAsignando
  BY <1>1, <1>4 DEF ApruebaAsignando
<1> QED BY <1>5, <1>6, <1>7, <1>8 DEF IInvP

\* A decision that is repeated is answered with the one there was.
LEMMA PasoRepetirResolucion ==
    ASSUME IInvP, NEW p \in Pedidos, NEW adm \in Admins, NEW aprobar \in BOOLEAN,
           RepetirResolucion(p, adm, aprobar)
    PROVE  IInvP' /\ ApruebaAsignando
<1> DEFINE n == [pedido |-> p, auditado |-> Decision(aprobar), estado |-> pedidos[p].estado,
                 por |-> pedidos[p].resueltoPor]
<1>1. /\ constancias' = constancias \cup {n} /\ Turno
      /\ pedidos[p] # NadaP /\ pedidos[p].estado # "PENDIENTE" /\ pedidos[p].estado = Decision(aprobar)
      /\ UNCHANGED <<personas, existentes, docentes, conClases, pedidos, resolviendo, avisados>>
  BY DEF RepetirResolucion, Contestar, MismaDecision
<1>2. PICK x \in constancias : /\ x.pedido = p /\ pedidos[p].estado = x.estado
                               /\ pedidos[p].resueltoPor = x.por /\ x.auditado = x.estado
  BY <1>1 DEF IInvP, ConstanciasVeraces
<1>3. x \in Constancia
  BY DEF IInvP, ConstanciasVeraces
<1>4. x = n
  BY <1>1, <1>2, <1>3 DEF Constancia
<1>5. constancias' = constancias
  BY <1>1, <1>4
<1> HIDE DEF n
<1>6. TypeOKP' /\ ConResolucion' /\ DocenciasDeMaterias' /\ ConstanciasVeraces'
  BY <1>1, <1>5 DEF IInvP, TypeOKP, ConResolucion, DocenciasDeMaterias, ConstanciasVeraces, Turno
<1>7. ApruebaAsignando
  BY <1>1 DEF ApruebaAsignando
<1> QED BY <1>6, <1>7 DEF IInvP

LEMMA PasoResolverPedido ==
    ASSUME IInvP, NEW p \in Pedidos, NEW adm \in Admins, NEW aprobar \in BOOLEAN,
           NEW curso \in Cursos \cup {NadaP}, NEW rol \in RolesDocente \cup {NadaP},
           ResolverPedido(p, adm, aprobar, curso, rol)
    PROVE  IInvP' /\ ApruebaAsignando
<1> DEFINE r == [pedido |-> p, admin |-> adm, aprobar |-> aprobar, curso |-> curso, rol |-> rol]
<1>1. /\ pedidos[p] # NadaP /\ pedidos[p].estado = "PENDIENTE"
      /\ aprobar => PuedeAprobarse(p, curso)
      /\ resolviendo' = r
      /\ UNCHANGED <<personas, existentes, docentes, conClases, pedidos, constancias, avisados>>
  BY DEF ResolverPedido, AlConfirmar
<1>2. r \in Resolucion /\ r.pedido = p /\ r.aprobar = aprobar /\ r.curso = curso
  BY DEF Resolucion
<1> HIDE DEF r
<1>3. TypeOKP' /\ DocenciasDeMaterias' /\ ConstanciasVeraces'
  BY <1>1 DEF IInvP, TypeOKP, DocenciasDeMaterias, ConstanciasVeraces
<1>4. PuedeAprobarse(p, curso)' = PuedeAprobarse(p, curso)
  BY <1>1 DEF PuedeAprobarse, EsMateriaNueva, PuedeCrearla, ExisteYAprobado, PuedeAsignarse,
              MateriaVigente, LaDicta
<1>5. ConResolucion'
  <2>1. resolviendo'.pedido = p /\ resolviendo'.aprobar = aprobar /\ resolviendo'.curso = curso
    BY <1>1, <1>2
  <2>2. PuedeAprobarse(resolviendo.pedido, resolviendo.curso)' = PuedeAprobarse(p, curso)'
    BY <2>1 DEF PuedeAprobarse, EsMateriaNueva, PuedeCrearla, ExisteYAprobado, PuedeAsignarse,
              MateriaVigente, LaDicta
  <2> QED BY <1>1, <1>2, <1>4, <2>1, <2>2 DEF ConResolucion
<1>6. ApruebaAsignando
  BY <1>1 DEF ApruebaAsignando
<1> QED BY <1>3, <1>5, <1>6 DEF IInvP

\* The resolution is confirmed: the subject it assigns is one its author did not teach.
LEMMA PasoConfirmarResolucion ==
    ASSUME PedidosAssumption, IInvP, ConfirmarResolucion
    PROVE  IInvP' /\ ApruebaAsignando
<1> DEFINE r == resolviendo
           p == r.pedido
           u == pedidos[p].usuario
           m == MateriaDelPedido(p, r.curso)
           nueva == r.aprobar /\ EsMateriaNueva(p)
           creada == IF nueva THEN m ELSE NadaP
           g == GuardarPedido(p, r.admin, r.aprobar, creada)
           rol == RolElegido(m, r.rol)
           d == [usuario |-> u, materia |-> m, rol |-> rol]
           n == [pedido |-> p, auditado |-> Decision(r.aprobar), estado |-> g.estado, por |-> g.resueltoPor]
<1>1. /\ r \in Resolucion /\ pedidos[p] # NadaP /\ pedidos[p].estado = "PENDIENTE"
      /\ r.aprobar => PuedeAprobarse(p, r.curso)
  BY DEF ConfirmarResolucion, IInvP, ConResolucion
<1>2. /\ pedidos' = [pedidos EXCEPT ![p] = g]
      /\ existentes' = IF creada = NadaP THEN existentes ELSE existentes \cup {m}
      /\ docentes' = IF r.aprobar THEN docentes \cup {d} ELSE docentes
      /\ constancias' = constancias \cup {n}
      /\ avisados' = [avisados EXCEPT ![p] = @ + 1]
      /\ resolviendo' = NadaP /\ UNCHANGED <<personas, conClases>>
  BY DEF ConfirmarResolucion, Contestar
<1>3. /\ p \in Pedidos /\ r.admin \in Admins /\ r.aprobar \in BOOLEAN /\ r.curso \in Cursos \cup {NadaP}
      /\ r.rol \in RolesDocente \cup {NadaP}
  BY <1>1 DEF Resolucion
<1>4. pedidos[p] \in PedidoDeMateria /\ u \in Autores
  BY <1>1, <1>3 DEF IInvP, TypeOKP, PedidoDeMateria
<1>5. r.aprobar => /\ m \in Asignatura /\ m # NadaP /\ m.curso \notin Archivados
                   /\ nueva => m \notin existentes /\ m = creada
                   /\ ~nueva => m \in existentes /\ m = pedidos[p].materia /\ ~LaDicta(u, m)
                   /\ personas[u] = "APROBADA"
  <2>1. SUFFICES ASSUME r.aprobar
                 PROVE  /\ m \in Asignatura /\ m # NadaP /\ m.curso \notin Archivados
                        /\ nueva => m \notin existentes /\ m = creada
                        /\ ~nueva => m \in existentes /\ m = pedidos[p].materia /\ ~LaDicta(u, m)
                        /\ personas[u] = "APROBADA"
    OBVIOUS
  <2>2. CASE EsMateriaNueva(p)
    <3>1. /\ r.curso # NadaP /\ r.curso \notin Archivados /\ personas[u] = "APROBADA"
          /\ [curso |-> r.curso, titulo |-> pedidos[p].titulo] \notin existentes
      BY <1>1, <2>1, <2>2 DEF PuedeAprobarse, PuedeCrearla, ExisteYAprobado
    <3>2. m = [curso |-> r.curso, titulo |-> pedidos[p].titulo]
      BY <2>2 DEF MateriaDelPedido
    <3>3. m \in Asignatura
      BY <1>3, <1>4, <3>1, <3>2 DEF Asignatura, PedidoDeMateria
    <3> QED BY <2>1, <2>2, <3>1, <3>2, <3>3 DEF PedidosAssumption
  <2>3. CASE ~EsMateriaNueva(p)
    <3>1. m = pedidos[p].materia /\ m # NadaP
      BY <2>3 DEF MateriaDelPedido, EsMateriaNueva
    <3>2. m \in existentes /\ m.curso \notin Archivados /\ personas[u] = "APROBADA" /\ ~LaDicta(u, m)
      BY <1>1, <2>1, <2>3, <3>1 DEF PuedeAprobarse, PuedeAsignarse, MateriaVigente, ExisteYAprobado
    <3> QED BY <1>4, <2>3, <3>1, <3>2 DEF PedidoDeMateria
  <2> QED BY <2>2, <2>3
<1>6. creada \in Asignatura \cup {NadaP} /\ (creada # NadaP => m \in Asignatura /\ r.aprobar)
  BY <1>5
<1>7. rol \in RolesDocente /\ (DocentesDe(m) # {} /\ r.rol = NadaP => rol = "SUPLENTE")
  BY <1>3 DEF RolElegido, RolPorDefecto, RolesDocente
<1>8. Decision(r.aprobar) \in EstadosPedido \ {"PENDIENTE"}
  BY DEF Decision, EstadosPedido
<1>9. /\ g \in PedidoDeMateria /\ g.estado = Decision(r.aprobar) /\ g.resueltoPor = r.admin
      /\ g.materia = pedidos[p].materia /\ g.creada = creada
  <2> HIDE DEF creada, p, r
  <2>1. g = [pedidos[p] EXCEPT !.estado = Decision(r.aprobar), !.resueltoPor = r.admin, !.creada = creada]
    BY DEF GuardarPedido
  <2> HIDE DEF g
  <2> QED BY <1>3, <1>4, <1>6, <1>8, <2>1 DEF PedidoDeMateria
<1>10. n \in Constancia /\ n.pedido = p /\ n.auditado = n.estado /\ n.estado = g.estado /\ n.por = g.resueltoPor
  BY <1>3, <1>8, <1>9 DEF Constancia
<1>11. r.aprobar => /\ d \in Docencia /\ d.usuario = u /\ d.materia = m /\ d.rol = rol
  BY <1>4, <1>5, <1>7 DEF Docencia
<1> HIDE DEF g, n, d, rol, creada, nueva, m, u, p, r
<1>12. /\ pedidos' \in [Pedidos -> PedidoDeMateria \cup {NadaP}]
       /\ pedidos'[p] = g /\ \A q \in Pedidos \ {p} : pedidos'[q] = pedidos[q]
  BY <1>2, <1>3, <1>9 DEF IInvP, TypeOKP
<1>13. avisados[p] = 0 /\ \A x \in constancias : x.pedido # p
  BY <1>1, <1>3 DEF IInvP, ConstanciasVeraces, p
<1>14. /\ avisados' \in [Pedidos -> Nat]
       /\ avisados'[p] = 1 /\ \A q \in Pedidos \ {p} : avisados'[q] = avisados[q]
  BY <1>2, <1>3, <1>13 DEF IInvP, TypeOKP
<1>15. TypeOKP'
  <2>1. existentes \subseteq existentes' /\ existentes' \subseteq Asignatura
    BY <1>2, <1>6 DEF IInvP, TypeOKP
  <2>2. docentes' \subseteq Docencia
    BY <1>2, <1>11 DEF IInvP, TypeOKP
  <2> QED BY <1>2, <1>12, <1>14, <2>1, <2>2 DEF IInvP, TypeOKP
<1>16. ConResolucion'
  BY <1>2 DEF ConResolucion
<1>17. DocenciasDeMaterias'
  <2>1. r.aprobar => m \in existentes'
    BY <1>2, <1>5
  <2> QED BY <1>2, <1>11, <2>1 DEF IInvP, DocenciasDeMaterias
<1>18. ConstanciasVeraces'
  <2>1. /\ constancias' \subseteq Constancia
        /\ \A x \in constancias' : x.auditado = x.estado /\ avisados'[x.pedido] = 1 /\ x.estado # "PENDIENTE"
        /\ \A x, y \in constancias' : x.pedido = y.pedido => x = y
    BY <1>2, <1>3, <1>8, <1>9, <1>10, <1>13, <1>14 DEF IInvP, ConstanciasVeraces, Constancia
  <2>2. ASSUME NEW q \in Pedidos
        PROVE  /\ avisados'[q] # 0 =>
                    \E x \in constancias' :
                       /\ x.pedido = q
                       /\ pedidos'[q] # NadaP => pedidos'[q].estado = x.estado /\ pedidos'[q].resueltoPor = x.por
               /\ pedidos'[q] # NadaP /\ pedidos'[q].estado # "PENDIENTE" => avisados'[q] = 1
    BY <1>2, <1>10, <1>12, <1>14 DEF IInvP, ConstanciasVeraces
  <2> QED BY <2>1, <2>2 DEF ConstanciasVeraces
<1>19. ApruebaAsignando
  <2>1. SUFFICES ASSUME NEW q \in Pedidos, pedidos[q] # NadaP, pedidos'[q] # NadaP,
                        pedidos[q].estado = "PENDIENTE", pedidos'[q].estado = "APROBADO"
                 PROVE  /\ personas'[pedidos[q].usuario] = "APROBADA"
                        /\ docentes \subseteq docentes'
                        /\ \E e \in docentes' \ docentes :
                              /\ e.usuario = pedidos[q].usuario
                              /\ e.materia \in existentes' /\ e.materia.curso \notin Archivados
                              /\ e.materia \in {pedidos'[q].materia, pedidos'[q].creada}
                              /\ DocentesDe(e.materia) # {} /\ resolviendo.rol = NadaP => e.rol = "SUPLENTE"
    BY DEF ApruebaAsignando
  <2>2. q = p
    BY <1>12, <2>1
  <2>3. r.aprobar
    BY <1>3, <1>9, <1>12, <2>1, <2>2 DEF Decision
  <2>4. m \in existentes'
    BY <1>2, <1>5, <2>3
  <2>5. d \notin docentes
    BY <1>5, <1>11, <2>3 DEF IInvP, DocenciasDeMaterias, LaDicta
  <2>6. d \in docentes' /\ docentes \subseteq docentes'
    BY <1>2, <2>3
  <2>7. m \in {pedidos'[q].materia, pedidos'[q].creada}
    BY <1>5, <1>9, <1>12, <2>2, <2>3
  <2>8. DocentesDe(d.materia) # {} /\ resolviendo.rol = NadaP => d.rol = "SUPLENTE"
    BY <1>7, <1>11, <2>3 DEF r
  <2>9. u = pedidos[q].usuario
    BY <2>2 DEF u
  <2> QED BY <1>2, <1>5, <1>11, <2>3, <2>4, <2>5, <2>6, <2>7, <2>8, <2>9
<1> QED BY <1>15, <1>16, <1>17, <1>18, <1>19 DEF IInvP

\* The requests for a subject that is deleted go with it, and the rest stay as decided.
LEMMA PasoEliminarAsignatura ==
    ASSUME IInvP, NEW m \in existentes, EliminarAsignatura(m)
    PROVE  IInvP' /\ ApruebaAsignando
<1>1. /\ Turno /\ m \notin conClases
      /\ existentes' = existentes \ {m} /\ docentes' = docentes \ DocentesDe(m)
      /\ pedidos' = [p \in Pedidos |-> SinMateria(pedidos[p], m)]
      /\ UNCHANGED <<personas, conClases, resolviendo, constancias, avisados>>
  BY DEF EliminarAsignatura
<1>2. ASSUME NEW p \in Pedidos
      PROVE  /\ pedidos'[p] \in PedidoDeMateria \cup {NadaP}
             /\ pedidos'[p] # NadaP => /\ pedidos[p] # NadaP
                                       /\ pedidos'[p].estado = pedidos[p].estado
                                       /\ pedidos'[p].resueltoPor = pedidos[p].resueltoPor
  <2>1. pedidos'[p] = SinMateria(pedidos[p], m) /\ pedidos[p] \in PedidoDeMateria \cup {NadaP}
    BY <1>1 DEF IInvP, TypeOKP
  <2> QED BY <2>1 DEF SinMateria, PedidoDeMateria
<1>3. TypeOKP'
  BY <1>1, <1>2 DEF IInvP, TypeOKP
<1>4. ConResolucion' /\ DocenciasDeMaterias'
  BY <1>1 DEF IInvP, ConResolucion, DocenciasDeMaterias, DocentesDe, Turno
<1>5. ConstanciasVeraces'
  BY <1>1, <1>2 DEF IInvP, ConstanciasVeraces
<1>6. ApruebaAsignando
  BY <1>2 DEF ApruebaAsignando
<1> QED BY <1>3, <1>4, <1>5, <1>6 DEF IInvP

\* An account is deleted while a resolution may be running: not the account it assigns.
LEMMA PasoEliminarAutor ==
    ASSUME IInvP, NEW u \in Autores, EliminarAutor(u)
    PROVE  IInvP' /\ ApruebaAsignando
<1>1. /\ personas[u] = "BAJA" /\ (resolviendo # NadaP => pedidos[resolviendo.pedido].usuario # u)
      /\ personas' = [personas EXCEPT ![u] = "ELIMINADA"]
      /\ docentes' = {d \in docentes : d.usuario # u}
      /\ pedidos' = [p \in Pedidos |-> IF pedidos[p] # NadaP /\ pedidos[p].usuario = u THEN NadaP ELSE pedidos[p]]
      /\ UNCHANGED <<existentes, conClases, resolviendo, constancias, avisados>>
  BY DEF EliminarAutor
<1>2. \A p \in Pedidos : pedidos'[p] = NadaP \/ pedidos'[p] = pedidos[p]
  BY <1>1
<1>3. TypeOKP'
  BY <1>1 DEF IInvP, TypeOKP
<1>4. DocenciasDeMaterias' /\ ConstanciasVeraces'
  BY <1>1, <1>2 DEF IInvP, DocenciasDeMaterias, ConstanciasVeraces
<1>5. ConResolucion'
  <2>1. CASE resolviendo = NadaP
    BY <1>1, <2>1 DEF ConResolucion
  <2>2. CASE resolviendo # NadaP
    <3> DEFINE p == resolviendo.pedido
    <3>1. /\ resolviendo \in Resolucion /\ pedidos[p] # NadaP /\ pedidos[p].estado = "PENDIENTE"
          /\ resolviendo.aprobar => PuedeAprobarse(p, resolviendo.curso)
      BY <2>2 DEF IInvP, ConResolucion
    <3>2. p \in Pedidos
      BY <3>1 DEF Resolucion
    <3>3. pedidos'[p] = pedidos[p] /\ pedidos[p].usuario # u
      BY <1>1, <2>2, <3>2
    <3>4. pedidos[p].usuario \in Autores
      BY <3>1, <3>2 DEF IInvP, TypeOKP, PedidoDeMateria
    <3>5. personas'[pedidos[p].usuario] = personas[pedidos[p].usuario]
      BY <1>1, <3>3, <3>4 DEF IInvP, TypeOKP
    <3>6. PuedeAprobarse(p, resolviendo.curso) => PuedeAprobarse(p, resolviendo.curso)'
      BY <1>1, <3>3, <3>5 DEF PuedeAprobarse, EsMateriaNueva, PuedeCrearla, ExisteYAprobado, PuedeAsignarse,
              MateriaVigente, LaDicta
    <3> QED BY <1>1, <3>1, <3>3, <3>6 DEF ConResolucion
  <2> QED BY <2>1, <2>2
<1>6. ApruebaAsignando
  BY <1>2 DEF ApruebaAsignando
<1> QED BY <1>3, <1>4, <1>5, <1>6 DEF IInvP

\* Assignments, reservations and discharges.
LEMMA PasoAsignaciones ==
    ASSUME IInvP,
           \/ PeticionAsignarDocente \/ PeticionCambiarRol \/ PeticionRemoverDocente \/ DeshacerIntento
           \/ \E u \in Autores, m \in existentes : ReservarClase(u, m)
           \/ \E u \in Autores : DarDeBajaP(u) \/ TerminarSuBaja(u)
    PROVE  IInvP' /\ ApruebaAsignando
<1>1. TypeOKP /\ DocenciasDeMaterias
  BY DEF IInvP
<1>2. ASSUME NEW u \in Autores, NEW m \in existentes, NEW rol \in RolesDocente, AsignarDocente(u, m, rol)
      PROVE  IInvP' /\ ApruebaAsignando
  <2> DEFINE d == [usuario |-> u, materia |-> m, rol |-> rol]
  <2>1. d \in Docencia /\ d.materia = m
    BY <1>1 DEF TypeOKP, Docencia
  <2>2. docentes' = docentes \cup {d}
    BY <1>2 DEF AsignarDocente
  <2> HIDE DEF d
  <2>3. docentes' \subseteq Docencia /\ \A e \in docentes' : e.materia \in existentes
    BY <1>1, <2>1, <2>2 DEF TypeOKP, DocenciasDeMaterias
  <2> QED BY <1>1, <1>2, <2>3, SinTocarPedidos DEF AsignarDocente, Turno, TypeOKP
<1>3. ASSUME NEW d \in docentes, NEW rol \in RolesDocente, CambiarRolDocente(d, rol)
      PROVE  IInvP' /\ ApruebaAsignando
  <2> DEFINE e == [d EXCEPT !.rol = rol]
  <2>1. e \in Docencia /\ e.materia \in existentes
    BY <1>1 DEF TypeOKP, Docencia, DocenciasDeMaterias
  <2>2. docentes' = (docentes \ {d}) \cup {e}
    BY <1>3 DEF CambiarRolDocente
  <2> HIDE DEF e
  <2>3. docentes' \subseteq Docencia /\ \A x \in docentes' : x.materia \in existentes
    BY <1>1, <2>1, <2>2 DEF TypeOKP, DocenciasDeMaterias
  <2> QED BY <1>1, <1>3, <2>3, SinTocarPedidos DEF CambiarRolDocente, Turno, TypeOKP
<1>4. ASSUME NEW d \in docentes, RemoverDocenteMateria(d) PROVE IInvP' /\ ApruebaAsignando
  <2>1. docentes' \subseteq docentes /\ conClases' \subseteq conClases
    BY <1>4 DEF RemoverDocenteMateria
  <2> QED BY <1>1, <1>4, <2>1, SinTocarPedidos DEF RemoverDocenteMateria, Turno, TypeOKP, DocenciasDeMaterias
<1>5. ASSUME DeshacerIntento PROVE IInvP' /\ ApruebaAsignando
  BY <1>1, <1>5, SinTocarPedidos DEF DeshacerIntento, TypeOKP, DocenciasDeMaterias
<1>6. ASSUME NEW u \in Autores, NEW m \in existentes, ReservarClase(u, m) PROVE IInvP' /\ ApruebaAsignando
  BY <1>1, <1>6, SinTocarPedidos DEF ReservarClase, Turno, TypeOKP, DocenciasDeMaterias
<1>7. ASSUME NEW u \in Autores, DarDeBajaP(u) PROVE IInvP' /\ ApruebaAsignando
  BY <1>1, <1>7, SinTocarPedidos DEF DarDeBajaP, Turno, TypeOKP, DocenciasDeMaterias
<1>8. ASSUME NEW u \in Autores, TerminarSuBaja(u) PROVE IInvP' /\ ApruebaAsignando
  BY <1>1, <1>8, SinTocarPedidos DEF TerminarSuBaja, Turno, TypeOKP, DocenciasDeMaterias
<1> QED BY <1>2, <1>3, <1>4, <1>5, <1>6, <1>7, <1>8
        DEF PeticionAsignarDocente, PeticionCambiarRol, PeticionRemoverDocente

LEMMA PasoP ==
    ASSUME PedidosAssumption, IInvP, [NextP]_varsP
    PROVE  IInvP' /\ ApruebaAsignando
<1>1. CASE PeticionPedirMateria
  BY <1>1, PasoPedirMateria
<1>2. CASE PeticionResolverPedido
  BY <1>2, PasoRepetirResolucion, PasoResolverPedido DEF PeticionResolverPedido
<1>3. CASE ConfirmarResolucion
  BY <1>3, PasoConfirmarResolucion
<1>4. CASE \E m \in existentes : EliminarAsignatura(m)
  BY <1>4, PasoEliminarAsignatura
<1>5. CASE \E u \in Autores : EliminarAutor(u)
  BY <1>5, PasoEliminarAutor
<1>6. CASE \/ PeticionAsignarDocente \/ PeticionCambiarRol \/ PeticionRemoverDocente \/ DeshacerIntento
           \/ \E u \in Autores, m \in existentes : ReservarClase(u, m)
           \/ \E u \in Autores : DarDeBajaP(u) \/ TerminarSuBaja(u)
  BY <1>6, PasoAsignaciones
<1>7. CASE UNCHANGED varsP
  <2>1. TypeOKP' /\ ConResolucion' /\ DocenciasDeMaterias' /\ ConstanciasVeraces'
    BY <1>7 DEF IInvP, TypeOKP, ConResolucion, DocenciasDeMaterias, ConstanciasVeraces, varsP,
       PuedeAprobarse, EsMateriaNueva, PuedeCrearla, ExisteYAprobado, PuedeAsignarse, MateriaVigente, LaDicta
  <2>2. ApruebaAsignando
    BY <1>7 DEF ApruebaAsignando, varsP
  <2> QED BY <2>1, <2>2 DEF IInvP
<1>8. (\E m \in existentes : EliminarAsignatura(m) \/ \E u \in Autores : ReservarClase(u, m)) =>
         \/ \E m \in existentes : EliminarAsignatura(m)
         \/ \E u \in Autores, m \in existentes : ReservarClase(u, m)
  OBVIOUS
<1>9. DeLasCuentas => \/ \E u \in Autores : EliminarAutor(u)
                      \/ \E u \in Autores : DarDeBajaP(u) \/ TerminarSuBaja(u)
  BY DEF DeLasCuentas
<1> QED BY <1>1, <1>2, <1>3, <1>4, <1>5, <1>6, <1>7, <1>8, <1>9 DEF NextP

\* What PedidosDeMateria keeps, for any accounts, courses, subjects and requests.
THEOREM PedidosCoherentes == ASSUME PedidosAssumption PROVE SpecP => []IInvP
<1>1. InitP => IInvP
  BY InicioP
<1>2. IInvP /\ [NextP]_varsP => IInvP'
  BY PasoP
<1> QED BY <1>1, <1>2, PTL DEF SpecP

\* A request is decided once, answered always as it was decided, audited as decided, and
\* its author is told once.
THEOREM UnaSolaDecisionSiempre == ASSUME PedidosAssumption PROVE SpecP => []UnaSolaDecision
<1>1. IInvP => UnaSolaDecision
  <2>1. SUFFICES ASSUME IInvP, NEW p \in Pedidos
                 PROVE  avisados[p] = Cardinality({x \in constancias : x.pedido = p})
    BY DEF IInvP, ConstanciasVeraces, UnaSolaDecision
  <2> DEFINE suyas == {x \in constancias : x.pedido = p}
  <2>2. CASE suyas = {}
    <3>1. avisados[p] = 0
      BY <2>1, <2>2 DEF IInvP, ConstanciasVeraces
    <3> QED BY <2>2, <3>1, FS_EmptySet
  <2>3. CASE suyas # {}
    <3>1. PICK x \in constancias : x.pedido = p
      BY <2>3
    <3>2. avisados[p] = 1
      BY <2>1, <3>1 DEF IInvP, ConstanciasVeraces
    <3>3. suyas = {x}
      BY <2>1, <3>1 DEF IInvP, ConstanciasVeraces
    <3> QED BY <3>2, <3>3, FS_Singleton
  <2> QED BY <2>2, <2>3
<1> QED BY <1>1, PedidosCoherentes, PTL

\* What is approved is assigned in the same step, or stays pending.
THEOREM AprobarEsAsignarSiempre == ASSUME PedidosAssumption PROVE SpecP => AprobarEsAsignar
<1>1. IInvP /\ [NextP]_varsP => ApruebaAsignando
  BY PasoP
<1> QED BY <1>1, PedidosCoherentes, PTL DEF SpecP, AprobarEsAsignar, ApruebaAsignando

-----------------------------------------------------------------------------
(* The edition of a course                                                   *)

\* An exact rule describes one scope.
ExactasDeUnAlcance == \A p \in marcas : p.exacta => \E a \in Alcances : p.cubre = {a}

IInvE == TypeOKE /\ ExactasDeUnAlcance

\* A rule in the impact of giving course k the scope a.
Regla(p, k, a) ==
    [marca |-> p, antes |-> LeAplica(p, k), despues |-> a \in p.cubre,
     compartida |-> Compartida(p, k), destino |-> DestinoE(p, a)]

\* The impact has the rules that apply before or after, each with what it says of it.
LEMMA ReglasDelImpacto ==
    ASSUME NEW k, NEW a
    PROVE  /\ \A x \in PrioridadesDeCurso(k, a) :
                 /\ x.marca \in marcas /\ x = Regla(x.marca, k, a)
                 /\ x.marca.nombre \in grupos[k].nombres
           /\ \A p \in marcas : p.nombre \in grupos[k].nombres /\ (LeAplica(p, k) \/ a \in p.cubre) =>
                 Regla(p, k, a) \in PrioridadesDeCurso(k, a)
  BY DEF PrioridadesDeCurso, Regla

LEMMA CamposDeRegla ==
    ASSUME NEW p, NEW k, NEW a
    PROVE  /\ Regla(p, k, a).marca = p
           /\ Regla(p, k, a).antes <=> LeAplica(p, k)
           /\ Regla(p, k, a).despues <=> a \in p.cubre
           /\ Regla(p, k, a).antes # Regla(p, k, a).despues <=> ~(LeAplica(p, k) <=> a \in p.cubre)
           /\ Regla(p, k, a).compartida <=> Compartida(p, k)
           /\ Regla(p, k, a).destino = DestinoE(p, a)
<1>1. /\ Regla(p, k, a).marca = p /\ Regla(p, k, a).antes = LeAplica(p, k)
      /\ Regla(p, k, a).despues = (a \in p.cubre)
      /\ Regla(p, k, a).compartida = Compartida(p, k) /\ Regla(p, k, a).destino = DestinoE(p, a)
  BY DEF Regla
<1>2. LeAplica(p, k) \in BOOLEAN /\ (a \in p.cubre) \in BOOLEAN /\ Compartida(p, k) \in BOOLEAN
  BY DEF LeAplica, Compartida
<1>3. Regla(p, k, a).antes # Regla(p, k, a).despues <=> ~(LeAplica(p, k) <=> a \in p.cubre)
  BY <1>1, <1>2, Zenon
<1> QED BY <1>1, <1>2, <1>3

\* Those that change are the ones that start or stop applying.
LEMMA ReglasQueCambian ==
    ASSUME NEW k, NEW a
    PROVE  {x.marca : x \in CambiosE(PrioridadesDeCurso(k, a))}
              = (AplicanA(k) \ AplicanCon(k, a)) \cup (AplicanCon(k, a) \ AplicanA(k))
<1> DEFINE ms == PrioridadesDeCurso(k, a)
           cambian == (AplicanA(k) \ AplicanCon(k, a)) \cup (AplicanCon(k, a) \ AplicanA(k))
<1>1. ASSUME NEW x \in CambiosE(ms) PROVE x.marca \in cambian
  <2>1. /\ x \in ms /\ x.antes # x.despues
        /\ x.marca \in marcas /\ x = Regla(x.marca, k, a) /\ x.marca.nombre \in grupos[k].nombres
    BY ReglasDelImpacto DEF CambiosE
  <2>2. ~(LeAplica(x.marca, k) <=> a \in x.marca.cubre)
    BY <2>1, CamposDeRegla
  <2> QED BY <2>1, <2>2 DEF AplicanA, AplicanCon
<1>2. ASSUME NEW p \in cambian PROVE \E x \in CambiosE(ms) : x.marca = p
  <2>1. /\ p \in marcas /\ p.nombre \in grupos[k].nombres
        /\ ~(LeAplica(p, k) <=> a \in p.cubre)
    BY DEF AplicanA, AplicanCon, LeAplica
  <2>2. Regla(p, k, a) \in ms
    BY <2>1, ReglasDelImpacto
  <2>3. Regla(p, k, a) \in CambiosE(ms) /\ Regla(p, k, a).marca = p
    BY <2>1, <2>2, CamposDeRegla DEF CambiosE
  <2> QED BY <2>3
<1> QED BY <1>1, <1>2

\* What an edition does, for the course and scope it was asked for.
LEMMA LoQueEdita ==
    ASSUME TypeOKE, NEW k \in Grupos, NEW a \in Alcances, NEW version, NEW decision,
           EditarCurso(k, a, version, decision)
    PROVE  /\ grupos' \in [Grupos -> Curso]
           /\ grupos'[k].alcance = a /\ grupos'[k].nombres = grupos[k].nombres
           /\ \A h \in Grupos \ {k} : grupos'[h] = grupos[h]
<1> DEFINE r == [grupos[k] EXCEPT !.alcance = a]
<1>1. grupos' = [grupos EXCEPT ![k] = r]
  BY DEF EditarCurso
<1>2. r \in Curso /\ r.alcance = a /\ r.nombres = grupos[k].nombres
  BY DEF TypeOKE, Curso
<1> HIDE DEF r
<1> QED BY <1>1, <1>2 DEF TypeOKE

\* What follows the course to its new scope, and what stays.
LEMMA LoQueConserva ==
    ASSUME TypeOKE, NEW k \in Grupos, NEW a \in Alcances
    PROVE  LET nuevas == Conservadas(PrioridadesDeCurso(k, a), a) IN
           /\ \A q \in nuevas :
                 \/ q \in marcas
                 \/ \E p \in marcas : /\ p.exacta /\ LeAplica(p, k) /\ a \notin p.cubre
                                      /\ q = AlDestino(p, a)
           /\ \A p \in marcas :
                 \/ p \in nuevas
                 \/ p.exacta /\ LeAplica(p, k) /\ a \notin p.cubre /\ ~Compartida(p, k)
           /\ \A p \in marcas : p.exacta /\ LeAplica(p, k) /\ a \notin p.cubre => AlDestino(p, a) \in nuevas
<1> DEFINE ms == PrioridadesDeCurso(k, a)
           siguen == {x \in ms : x.marca.exacta /\ x.antes /\ ~x.despues}
           nuevas == Conservadas(ms, a)
<1>1. nuevas = (marcas \ {x.marca : x \in {y \in siguen : ~y.compartida}})
                  \cup {AlDestino(x.marca, a) : x \in siguen}
  BY DEF Conservadas
<1>2. ASSUME NEW x \in siguen
      PROVE  /\ x.marca \in marcas /\ x.marca.exacta /\ LeAplica(x.marca, k) /\ a \notin x.marca.cubre
             /\ x.compartida <=> Compartida(x.marca, k)
  <2>1. x \in ms /\ x.marca.exacta /\ x.antes /\ ~x.despues
    OBVIOUS
  <2>2. x.marca \in marcas /\ x = Regla(x.marca, k, a)
    BY <2>1, ReglasDelImpacto
  <2> QED BY <2>1, <2>2, CamposDeRegla
<1>3. ASSUME NEW p \in marcas, p.exacta, LeAplica(p, k), a \notin p.cubre
      PROVE  \E x \in siguen : x.marca = p
  <2>1. Regla(p, k, a) \in ms
    BY <1>3, ReglasDelImpacto DEF LeAplica
  <2>2. Regla(p, k, a) \in siguen /\ Regla(p, k, a).marca = p
    BY <1>3, <2>1, CamposDeRegla
  <2> QED BY <2>2
<1> HIDE DEF siguen, ms, nuevas
<1>4. \A q \in nuevas :
         \/ q \in marcas
         \/ \E p \in marcas : p.exacta /\ LeAplica(p, k) /\ a \notin p.cubre /\ q = AlDestino(p, a)
  BY <1>1, <1>2
<1>5. \A p \in marcas :
         p \in nuevas \/ (p.exacta /\ LeAplica(p, k) /\ a \notin p.cubre /\ ~Compartida(p, k))
  BY <1>1, <1>2
<1>6. \A p \in marcas : p.exacta /\ LeAplica(p, k) /\ a \notin p.cubre => AlDestino(p, a) \in nuevas
  BY <1>1, <1>3
<1> QED BY <1>4, <1>5, <1>6 DEF nuevas, ms

\* No two rules say the same of different priorities, after the exact ones moved too: two
\* that applied to the course were the same, and one that was at the destination already
\* has the priority of the one that comes.
LEMMA ConservadasSinRepetir ==
    ASSUME IInvE, NEW k \in Grupos, NEW a \in Alcances,
           PuedeConservarExactas(PrioridadesDeCurso(k, a))
    PROVE  LET nuevas == Conservadas(PrioridadesDeCurso(k, a), a) IN
           /\ nuevas \subseteq PreferenciaDeEquipo
           /\ \A p, q \in nuevas : MismaMarca(p, q) => p = q
           /\ \A p \in nuevas : p.exacta => \E b \in Alcances : p.cubre = {b}
<1> DEFINE ms == PrioridadesDeCurso(k, a)
           nuevas == Conservadas(ms, a)
           Sigue(p) == p \in marcas /\ p.exacta /\ LeAplica(p, k) /\ a \notin p.cubre
<1>1. /\ \A q \in nuevas : q \in marcas \/ \E p \in marcas : Sigue(p) /\ q = AlDestino(p, a)
  BY LoQueConserva DEF IInvE
<1>2. ASSUME NEW p, Sigue(p)
      PROVE  /\ p \in PreferenciaDeEquipo /\ p.cubre = {grupos[k].alcance}
             /\ AlDestino(p, a) \in PreferenciaDeEquipo
             /\ AlDestino(p, a).exacta /\ AlDestino(p, a).cubre = {a}
             /\ AlDestino(p, a).equipo = p.equipo /\ AlDestino(p, a).nombre = p.nombre
             /\ AlDestino(p, a).prioridad = p.prioridad
  <2>1. p \in PreferenciaDeEquipo /\ p.exacta
    BY <1>2 DEF IInvE, TypeOKE
  <2>2. p.cubre = {grupos[k].alcance}
    BY <1>2 DEF IInvE, ExactasDeUnAlcance, LeAplica
  <2>3. AlDestino(p, a) = [p EXCEPT !.cubre = {a}] /\ {a} \in SUBSET Alcances
    BY DEF AlDestino
  <2> QED BY <2>1, <2>2, <2>3 DEF PreferenciaDeEquipo
<1>3. ASSUME NEW p, NEW q, Sigue(p), Sigue(q), MismaMarca(AlDestino(p, a), AlDestino(q, a))
      PROVE  p = q
  <2>1. /\ p.equipo = q.equipo /\ p.nombre = q.nombre /\ p.exacta /\ q.exacta /\ p.cubre = q.cubre
        /\ p \in PreferenciaDeEquipo /\ q \in PreferenciaDeEquipo
    BY <1>2, <1>3 DEF MismaMarca
  <2>2. p.exacta = q.exacta
    BY <2>1 DEF PreferenciaDeEquipo
  <2> QED BY <1>3, <2>1, <2>2 DEF IInvE, TypeOKE, MismaMarca
<1>4. ASSUME NEW p, NEW q \in marcas, Sigue(p), MismaMarca(AlDestino(p, a), q)
      PROVE  AlDestino(p, a) = q
  <2>1. Regla(p, k, a) \in ms
    BY <1>4, ReglasDelImpacto DEF LeAplica
  <2>2. Regla(p, k, a) \in CambiosE(ms)
    BY <1>4, <2>1, CamposDeRegla DEF CambiosE
  <2>3. ~OtraPrioridad(Regla(p, k, a))
    BY <1>4, <2>2, CamposDeRegla DEF PuedeConservarExactas
  <2>4. /\ q.equipo = p.equipo /\ q.nombre = p.nombre /\ q.exacta /\ q.cubre = {a}
    BY <1>2, <1>4 DEF MismaMarca
  <2>5. q \in DestinoE(p, a)
    BY <2>4 DEF DestinoE
  <2>6. q.prioridad = p.prioridad
    BY <2>3, <2>5, CamposDeRegla DEF OtraPrioridad
  <2>7. q \in PreferenciaDeEquipo
    BY DEF IInvE, TypeOKE
  <2> HIDE DEF ms, Sigue
  <2>8. AlDestino(p, a).exacta = q.exacta
    BY <1>4 DEF MismaMarca
  <2> QED BY <1>2, <1>4, <2>4, <2>6, <2>7, <2>8 DEF PreferenciaDeEquipo
<1>5. nuevas \subseteq PreferenciaDeEquipo
  BY <1>1, <1>2 DEF IInvE, TypeOKE
<1>6. ASSUME NEW p \in nuevas, NEW q \in nuevas, MismaMarca(p, q) PROVE p = q
  <2>1. CASE p \in marcas /\ q \in marcas
    BY <1>6, <2>1 DEF IInvE, TypeOKE
  <2>2. CASE p \in marcas /\ q \notin marcas
    <3>1. PICK y \in marcas : Sigue(y) /\ q = AlDestino(y, a)
      BY <1>1, <2>2
    <3>2. MismaMarca(q, p)
      BY <1>6 DEF MismaMarca
    <3> QED BY <1>4, <2>2, <3>1, <3>2
  <2>3. CASE p \notin marcas /\ q \in marcas
    <3>1. PICK y \in marcas : Sigue(y) /\ p = AlDestino(y, a)
      BY <1>1, <2>3
    <3> QED BY <1>4, <1>6, <2>3, <3>1
  <2>4. CASE p \notin marcas /\ q \notin marcas
    <3>1. PICK x \in marcas : Sigue(x) /\ p = AlDestino(x, a)
      BY <1>1, <2>4
    <3>2. PICK y \in marcas : Sigue(y) /\ q = AlDestino(y, a)
      BY <1>1, <2>4
    <3> QED BY <1>3, <1>6, <3>1, <3>2
  <2> QED BY <2>1, <2>2, <2>3, <2>4
<1>7. ASSUME NEW p \in nuevas, p.exacta PROVE \E b \in Alcances : p.cubre = {b}
  BY <1>1, <1>2, <1>7 DEF IInvE, ExactasDeUnAlcance
<1> HIDE DEF nuevas
<1> QED BY <1>5, <1>6, <1>7 DEF nuevas, ms

\* The scopes of the courses of the current year go on being different.
LEMMA PasoEditarCurso ==
    ASSUME IInvE, NEW k \in Grupos, NEW a \in Alcances, NEW version, NEW decision,
           EditarCurso(k, a, version, decision)
    PROVE  IInvE'
<1>1. /\ grupos' \in [Grupos -> Curso]
      /\ grupos'[k].alcance = a /\ \A h \in Grupos \ {k} : grupos'[h] = grupos[h]
  BY LoQueEdita DEF IInvE
<1>2. \A x, y \in Grupos \ Pasados : grupos'[x].alcance = grupos'[y].alcance => x = y
  BY <1>1 DEF EditarCurso, IInvE, TypeOKE
<1>3. CASE marcas' = marcas
  BY <1>1, <1>2, <1>3 DEF IInvE, TypeOKE, ExactasDeUnAlcance
<1>4. CASE marcas' # marcas
  <2>1. /\ marcas' = Conservadas(PrioridadesDeCurso(k, a), a)
        /\ PuedeConservarExactas(PrioridadesDeCurso(k, a))
    BY <1>4 DEF EditarCurso, Confirmada
  <2> QED BY <1>1, <1>2, <2>1, ConservadasSinRepetir DEF IInvE, TypeOKE, ExactasDeUnAlcance
<1> QED BY <1>3, <1>4

\* What an admin saw is what they confirm.
LEMMA EdicionConfirmada ==
    ASSUME IInvE, NEW adm \in Editores, NEW k \in Grupos, NEW a \in Alcances,
           NEW decision \in Decisiones \cup {NadaE}, NEW version \in {NadaE, vistas[adm]},
           EditarCurso(k, a, version, decision)
    PROVE  LET cambian == (AplicanA(k) \ AplicanCon(k, a)) \cup (AplicanCon(k, a) \ AplicanA(k))
           IN cambian # {} =>
                 /\ vistas[adm] # NadaE /\ vistas[adm].curso = k /\ vistas[adm].propuesto = a
                 /\ cambian = {x.marca : x \in CambiosE(vistas[adm].reglas)}
<1> DEFINE ms == PrioridadesDeCurso(k, a)
           cambian == (AplicanA(k) \ AplicanCon(k, a)) \cup (AplicanCon(k, a) \ AplicanA(k))
<1>1. cambian = {x.marca : x \in CambiosE(ms)}
  BY ReglasQueCambian
<1>2. SUFFICES ASSUME cambian # {}
               PROVE  /\ vistas[adm] # NadaE /\ vistas[adm].curso = k /\ vistas[adm].propuesto = a
                      /\ cambian = {x.marca : x \in CambiosE(vistas[adm].reglas)}
  OBVIOUS
<1> HIDE DEF cambian
<1>3. CambiosE(ms) # {}
  BY <1>1, <1>2
<1>4. version # NadaE /\ version = VersionImpacto(k, a) /\ version = vistas[adm]
  BY <1>3 DEF EditarCurso, Confirmada, ImpactoVigente
<1>5. vistas[adm].curso = k /\ vistas[adm].propuesto = a /\ vistas[adm].reglas = ms
  BY <1>4 DEF VersionImpacto
<1> QED BY <1>1, <1>4, <1>5

\* Every course keeps the exact rules it had: the one that is edited because they follow
\* it, the others because what they use is duplicated and not moved.
LEMMA ExactasConservadas ==
    ASSUME IInvE, NEW k \in Grupos, NEW a \in Alcances, NEW version, NEW decision,
           EditarCurso(k, a, version, decision), decidido' = "conservar_exactas",
           NEW h \in Grupos
    PROVE  Exactas(AplicanA(h)) \subseteq Exactas(AplicanA(h)')
<1> DEFINE ms == PrioridadesDeCurso(k, a)
<1>1. /\ grupos'[k].alcance = a /\ grupos'[k].nombres = grupos[k].nombres
      /\ \A x \in Grupos \ {k} : grupos'[x] = grupos[x]
  BY LoQueEdita DEF IInvE
<1>2. marcas' = IF CambiosE(ms) # {} THEN Conservadas(ms, a) ELSE marcas
  BY DEF EditarCurso
<1>3. ASSUME NEW p \in marcas, p.exacta, LeAplica(p, h)
      PROVE  \E q \in marcas' : /\ q.exacta /\ LeAplica(q, h)'
                                /\ q.equipo = p.equipo /\ q.nombre = p.nombre /\ q.prioridad = p.prioridad
  <2>1. CASE h = k /\ a \notin p.cubre
    <3>1. Regla(p, k, a) \in CambiosE(ms)
      BY <1>3, <2>1, ReglasDelImpacto, CamposDeRegla DEF CambiosE, LeAplica
    <3>2. AlDestino(p, a) \in marcas'
      BY <1>2, <1>3, <2>1, <3>1, LoQueConserva DEF IInvE
    <3>3. p \in PreferenciaDeEquipo
      BY DEF IInvE, TypeOKE
    <3> DEFINE q == AlDestino(p, a)
    <3>4. /\ q.exacta = p.exacta /\ q.cubre = {a} /\ q.equipo = p.equipo
          /\ q.nombre = p.nombre /\ q.prioridad = p.prioridad
      BY <3>3 DEF AlDestino, PreferenciaDeEquipo
    <3> HIDE DEF q
    <3>5. LeAplica(q, h)'
      BY <1>1, <1>3, <2>1, <3>4 DEF LeAplica
    <3>6. q.exacta
      BY <1>3, <3>4
    <3>7. q \in marcas'
      BY <3>2 DEF q
    <3> QED BY <3>4, <3>5, <3>6, <3>7
  <2>2. CASE h = k /\ a \in p.cubre
    <3>1. p \in marcas'
      BY <1>2, <2>2, LoQueConserva DEF IInvE
    <3>2. LeAplica(p, h)'
      BY <1>1, <1>3, <2>2 DEF LeAplica
    <3> QED BY <1>3, <3>1, <3>2
  <2>3. CASE h # k
    <3>1. Compartida(p, k)
      BY <1>3, <2>3 DEF Compartida, Propio, LeAplica
    <3>2. p \in marcas'
      BY <1>2, <3>1, LoQueConserva DEF IInvE
    <3>3. LeAplica(p, h)'
      BY <1>1, <1>3, <2>3 DEF LeAplica
    <3> QED BY <1>3, <3>2, <3>3
  <2> QED BY <2>1, <2>2, <2>3
<1>4. AplicanA(h)' = {q \in marcas' : LeAplica(q, h)'}
  BY DEF AplicanA
<1>5. SUFFICES ASSUME NEW e \in Exactas(AplicanA(h)) PROVE e \in Exactas(AplicanA(h)')
  OBVIOUS
<1>6. PICK p \in marcas : /\ p.exacta /\ LeAplica(p, h)
                          /\ e = [equipo |-> p.equipo, nombre |-> p.nombre, prioridad |-> p.prioridad]
  BY <1>5 DEF Exactas, AplicanA
<1>7. PICK q \in marcas' : /\ q.exacta /\ LeAplica(q, h)'
                           /\ q.equipo = p.equipo /\ q.nombre = p.nombre /\ q.prioridad = p.prioridad
  BY <1>3, <1>6
<1>8. q \in AplicanA(h)'
  BY <1>4, <1>7
<1> QED BY <1>6, <1>7, <1>8 DEF Exactas

\* What EdicionVista and ConservarNoPierde ask of a step.
VistaLaEdicion ==
    \A k \in Grupos : CambiaDeAlcance(k) =>
        LET nuevo == grupos'[k].alcance
            cambian == (AplicanA(k) \ AplicanCon(k, nuevo)) \cup (AplicanCon(k, nuevo) \ AplicanA(k))
        IN cambian # {} =>
              \E adm \in Editores :
                 /\ vistas[adm] # NadaE /\ vistas[adm].curso = k /\ vistas[adm].propuesto = nuevo
                 /\ cambian = {x.marca : x \in CambiosE(vistas[adm].reglas)}

NadaSePierde ==
    \A k \in Grupos : CambiaDeAlcance(k) /\ decidido' = "conservar_exactas" =>
        \A h \in Grupos : Exactas(AplicanA(h)) \subseteq Exactas(AplicanA(h)')

\* Rules and subjects change under no course's scope.
LEMMA PasoPrioridades ==
    ASSUME EdicionAssumption, IInvE,
           \/ PeticionMarcar \/ PeticionEditarPreferencia \/ PeticionBorrarPreferencia \/ PeticionImpacto
           \/ \E k \in Grupos, nombres \in SUBSET Asignaturas : CambiarMaterias(k, nombres)
           \/ UNCHANGED varsE
    PROVE  IInvE' /\ VistaLaEdicion /\ NadaSePierde
<1>1. TypeOKE /\ ExactasDeUnAlcance
  BY DEF IInvE
<1>2. SUFFICES IInvE' /\ \A k \in Grupos : ~CambiaDeAlcance(k)
  BY DEF VistaLaEdicion, NadaSePierde
<1>3. ASSUME NEW p \in PreferenciaDeEquipo, MarcarPreferencia(p)
      PROVE  IInvE' /\ \A k \in Grupos : ~CambiaDeAlcance(k)
  <2>1. p.exacta => \E a \in Alcances : p.cubre = {a}
    BY <1>3 DEF MarcarPreferencia, Bienformada
  <2>2. /\ marcas' = marcas \cup {p} /\ grupos' = grupos /\ \A q \in marcas : ~MismaMarca(p, q)
    BY <1>3 DEF MarcarPreferencia
  <2> QED BY <1>1, <2>1, <2>2 DEF IInvE, TypeOKE, ExactasDeUnAlcance, CambiaDeAlcance, MismaMarca
<1>4. ASSUME NEW p \in marcas, NEW nueva \in PreferenciaDeEquipo, EditarPreferencia(p, nueva)
      PROVE  IInvE' /\ \A k \in Grupos : ~CambiaDeAlcance(k)
  <2>1. nueva.exacta => \E a \in Alcances : nueva.cubre = {a}
    BY <1>4 DEF EditarPreferencia, Bienformada
  <2>2. /\ marcas' = (marcas \ {p}) \cup {nueva} /\ grupos' = grupos
        /\ \A q \in marcas \ {p} : ~MismaMarca(nueva, q)
    BY <1>4 DEF EditarPreferencia
  <2> QED BY <1>1, <2>1, <2>2 DEF IInvE, TypeOKE, ExactasDeUnAlcance, CambiaDeAlcance, MismaMarca
<1>5. ASSUME NEW p \in marcas, BorrarPreferencia(p)
      PROVE  IInvE' /\ \A k \in Grupos : ~CambiaDeAlcance(k)
  BY <1>1, <1>5 DEF BorrarPreferencia, IInvE, TypeOKE, ExactasDeUnAlcance, CambiaDeAlcance
<1>6. ASSUME PeticionImpacto \/ UNCHANGED varsE PROVE IInvE' /\ \A k \in Grupos : ~CambiaDeAlcance(k)
  BY <1>1, <1>6 DEF PeticionImpacto, Previsualizar, varsE, IInvE, TypeOKE, ExactasDeUnAlcance, CambiaDeAlcance
<1>7. ASSUME NEW k \in Grupos, NEW nombres \in SUBSET Asignaturas, CambiarMaterias(k, nombres)
      PROVE  IInvE' /\ \A h \in Grupos : ~CambiaDeAlcance(h)
  <2> DEFINE r == [grupos[k] EXCEPT !.nombres = nombres]
  <2>1. grupos' = [grupos EXCEPT ![k] = r] /\ marcas' = marcas
    BY <1>7 DEF CambiarMaterias
  <2>2. r \in Curso /\ r.alcance = grupos[k].alcance
    BY <1>1 DEF TypeOKE, Curso
  <2> HIDE DEF r
  <2>3. \A h \in Grupos : grupos'[h].alcance = grupos[h].alcance /\ grupos'[h] \in Curso
    BY <1>1, <2>1, <2>2 DEF TypeOKE
  <2>4. grupos' \in [Grupos -> Curso]
    BY <1>1, <2>1, <2>2 DEF TypeOKE
  <2> QED BY <1>1, <2>1, <2>3, <2>4 DEF IInvE, TypeOKE, ExactasDeUnAlcance, CambiaDeAlcance
<1> QED BY <1>3, <1>4, <1>5, <1>6, <1>7
        DEF PeticionMarcar, PeticionEditarPreferencia, PeticionBorrarPreferencia

LEMMA PasoE ==
    ASSUME EdicionAssumption, IInvE, [NextE]_varsE
    PROVE  IInvE' /\ VistaLaEdicion /\ NadaSePierde
<1>1. CASE PeticionEditarCurso
  <2>1. PICK adm \in Editores, k \in Grupos, a \in Alcances, decision \in Decisiones \cup {NadaE} :
           \E version \in {NadaE, vistas[adm]} : EditarCurso(k, a, version, decision)
    BY <1>1 DEF PeticionEditarCurso
  <2>2. PICK version \in {NadaE, vistas[adm]} : EditarCurso(k, a, version, decision)
    BY <2>1
  <2>3. IInvE'
    BY <2>2, PasoEditarCurso
  <2>4. grupos'[k].alcance = a /\ \A h \in Grupos : CambiaDeAlcance(h) => h = k
    BY <2>2, LoQueEdita DEF IInvE, CambiaDeAlcance
  <2>5. VistaLaEdicion
    BY <2>2, <2>4, EdicionConfirmada DEF VistaLaEdicion
  <2>6. NadaSePierde
    BY <2>2, ExactasConservadas DEF NadaSePierde
  <2> QED BY <2>3, <2>5, <2>6
<1>2. CASE \/ PeticionMarcar \/ PeticionEditarPreferencia \/ PeticionBorrarPreferencia \/ PeticionImpacto
           \/ \E k \in Grupos, nombres \in SUBSET Asignaturas : CambiarMaterias(k, nombres)
           \/ UNCHANGED varsE
  BY <1>2, PasoPrioridades
<1> QED BY <1>1, <1>2 DEF NextE

\* No two rules and no two courses of the current year say the same, for any editions.
THEOREM EdicionCoherente == ASSUME EdicionAssumption PROVE SpecE => []IInvE
<1>1. InitE => IInvE
  BY DEF InitE, IInvE, TypeOKE, ExactasDeUnAlcance
<1>2. IInvE /\ [NextE]_varsE => IInvE'
  BY PasoE
<1> QED BY <1>1, <1>2, PTL DEF SpecE

\* No course changes its scope under an admin who was shown something else, and keeping
\* the exact rules loses none, of that course or of another.
THEOREM EdicionSinSorpresasSiempre ==
    ASSUME EdicionAssumption PROVE SpecE => EdicionSinSorpresas
<1>1. IInvE /\ [NextE]_varsE => VistaLaEdicion /\ NadaSePierde
  BY PasoE
<1>2. SpecE => [][VistaLaEdicion]_varsE
  BY <1>1, EdicionCoherente, PTL DEF SpecE
<1>3. SpecE => [][NadaSePierde]_varsE
  BY <1>1, EdicionCoherente, PTL DEF SpecE
<1>4. SpecE => EdicionVista
  BY <1>2 DEF EdicionVista, VistaLaEdicion
<1>5. SpecE => ConservarNoPierde
  BY <1>3 DEF ConservarNoPierde, NadaSePierde
<1> QED BY <1>4, <1>5 DEF EdicionSinSorpresas

-----------------------------------------------------------------------------
(* The yearly closing                                                        *)

Cierre == [ciclo : Ciclos, destino : Anios \cup {NadaA}, paso : {"foto", "nombres", "sellado"},
           uso : Uso \cup {NadaA}, vinculadas : SUBSET Docentes]
Respuesta == [ciclo : Ciclos, destino : Anios \cup {NadaA}, nuevo : Ciclos \cup {NadaA}]

CicloPorAnio == \A x, y \in Ciclos : Existe(x) /\ Existe(y) /\ ciclos[x].anio = ciclos[y].anio => x = y

Cerrado(c) == Existe(c) /\ ciclos[c].cierre # NadaA

\* A year is archived by its closing only.
ArchivadoSiCerrado == \A c \in Ciclos : Existe(c) => (ciclos[c].archivado <=> ciclos[c].cierre # NadaA)

\* Nothing but a closing deletes reservations.
BorradasPorUnCierre ==
    \A r \in Reservas : reservas[r] # NadaA /\ reservas[r].borrada # NadaA => Cerrado(reservas[r].borrada)

\* What was answered is what is kept.
RespuestasDeSuCierre ==
    /\ respuestas \subseteq Respuesta
    /\ \A x \in respuestas :
          /\ Cerrado(x.ciclo)
          /\ ciclos[x.ciclo].cierre.destino = x.destino /\ ciclos[x.ciclo].cierre.nuevo = x.nuevo

\* A closing that is running has its year open and the next one free, and once it sealed
\* the use that use goes on being the one of the reservations there are.
ConCierre ==
    cierre # NadaA =>
        /\ cierre \in Cierre
        /\ Activo(cierre.ciclo)
        /\ cierre.destino # NadaA => ConAnio(cierre.destino) = {}
        /\ cierre.paso # "foto" => cierre.uso \in Uso
        /\ cierre.paso = "sellado" => Consistente(cierre.ciclo, cierre.uso)

IInvA ==
    /\ TypeOKA /\ CicloPorAnio /\ ArchivadoSiCerrado /\ BorradasPorUnCierre
    /\ RespuestasDeSuCierre /\ ConCierre /\ CierreSinPerdidas

\* One answer for each year that was closed.
LEMMA UnaRespuestaPorCiclo == ASSUME RespuestasDeSuCierre' PROVE CierreIrrepetible
<1>1. SUFFICES ASSUME NEW x \in respuestas', NEW y \in respuestas', x.ciclo = y.ciclo PROVE x = y
  BY DEF CierreIrrepetible
<1>2. x \in Respuesta /\ y \in Respuesta /\ x.destino = y.destino /\ x.nuevo = y.nuevo
  BY <1>1 DEF RespuestasDeSuCierre
<1> QED BY <1>1, <1>2 DEF Respuesta

\* What a closing counts is what it deletes.
LEMMA UsoBienFormado ==
    ASSUME CierreAnualAssumption, NEW c
    PROVE  [equipos |-> UsoDeEquipos(c), docentes |-> UsoDeDocentes(c)] \in Uso
<1>1. ASSUME NEW S \in SUBSET Reservas PROVE Cardinality(S) \in Nat
  BY FS_Subset, FS_CardinalityType DEF CierreAnualAssumption
<1>2. UsoDeEquipos(c) \in [Equipos -> Nat]
  BY <1>1 DEF UsoDeEquipos, Computables, ReservasDeCiclo, Viva, BloqueosDelAnio
<1>3. UsoDeDocentes(c) \in [Docentes -> Nat]
  BY <1>1 DEF UsoDeDocentes, NormalesDe, Computables, ReservasDeCiclo, Viva, BloqueosDelAnio
<1> QED BY <1>2, <1>3 DEF Uso

\* A reservation that is renamed with its subject or unlinked from its account counts as
\* it did.
CuentaIgual(r) ==
    \/ reservas[r] = NadaA /\ reservas'[r] = NadaA
    \/ /\ reservas[r] # NadaA /\ reservas'[r] # NadaA
       /\ reservas'[r].materia = NadaA <=> reservas[r].materia = NadaA
       /\ reservas[r].materia # NadaA =>
             reservas'[r].materia.lugar.ciclo = reservas[r].materia.lugar.ciclo
       /\ reservas'[r].anio = reservas[r].anio /\ reservas'[r].equipo = reservas[r].equipo
       /\ reservas'[r].identidad = reservas[r].identidad
       /\ reservas'[r].cancelada = reservas[r].cancelada /\ reservas'[r].borrada = reservas[r].borrada

LEMMA MismasCuentas ==
    ASSUME UNCHANGED ciclos, \A r \in Reservas : CuentaIgual(r), NEW c
    PROVE  /\ ReservasDeCiclo(c)' = ReservasDeCiclo(c)
           /\ UsoDeEquipos(c)' = UsoDeEquipos(c) /\ UsoDeDocentes(c)' = UsoDeDocentes(c)
           /\ \A e : {r \in Borradas(c) : reservas[r].equipo = e}' = {r \in Borradas(c) : reservas[r].equipo = e}
           /\ \A d : {r \in NormalesDe(Borradas(c)) : reservas[r].identidad = d}'
                        = {r \in NormalesDe(Borradas(c)) : reservas[r].identidad = d}
<1>1. ReservasDeCiclo(c)' = ReservasDeCiclo(c)
  BY DEF CuentaIgual, ReservasDeCiclo, BloqueosDelAnio, Viva
<1>2. Computables(c)' = Computables(c) /\ Computables(c) \subseteq Reservas
  <2>1. ReservasDeCiclo(c) \subseteq Reservas /\ \A r \in ReservasDeCiclo(c) : reservas[r] # NadaA
    BY DEF ReservasDeCiclo, BloqueosDelAnio, Viva
  <2> QED BY <1>1, <2>1 DEF CuentaIgual, Computables
<1>3. \A r \in Computables(c) : reservas[r] # NadaA
  BY DEF Computables, ReservasDeCiclo, BloqueosDelAnio, Viva
<1>4. UsoDeEquipos(c)' = UsoDeEquipos(c)
  <2>1. \A e : {r \in Computables(c)' : reservas'[r].equipo = e} = {r \in Computables(c) : reservas[r].equipo = e}
    BY <1>2, <1>3 DEF CuentaIgual
  <2> QED BY <2>1 DEF UsoDeEquipos
<1>5. UsoDeDocentes(c)' = UsoDeDocentes(c)
  <2>1. NormalesDe(Computables(c))' = NormalesDe(Computables(c))
    BY <1>2, <1>3 DEF CuentaIgual, NormalesDe
  <2>2. \A d : {r \in NormalesDe(Computables(c))' : reservas'[r].identidad = d}
                  = {r \in NormalesDe(Computables(c)) : reservas[r].identidad = d}
    BY <1>2, <1>3, <2>1 DEF CuentaIgual, NormalesDe
  <2> QED BY <2>2 DEF UsoDeDocentes
<1>6. Borradas(c)' = Borradas(c)
  BY DEF CuentaIgual, Borradas
<1>7. \A r \in Borradas(c) : r \in Reservas /\ reservas[r] # NadaA
  BY DEF Borradas
<1>8. \A e : {r \in Borradas(c)' : reservas'[r].equipo = e} = {r \in Borradas(c) : reservas[r].equipo = e}
  BY <1>6, <1>7 DEF CuentaIgual
<1>9. NormalesDe(Borradas(c))' = NormalesDe(Borradas(c))
  BY <1>6, <1>7 DEF CuentaIgual, NormalesDe
<1>10. \A d : {r \in NormalesDe(Borradas(c))' : reservas'[r].identidad = d}
                 = {r \in NormalesDe(Borradas(c)) : reservas[r].identidad = d}
  BY <1>7, <1>9 DEF CuentaIgual, NormalesDe
<1> QED BY <1>1, <1>4, <1>5, <1>8, <1>10

\* What changes neither the years nor what their reservations count.
LEMMA SiguenIgual ==
    ASSUME IInvA, TypeOKA', UNCHANGED <<ciclos, historico, cierre, respuestas>>,
           \A r \in Reservas : CuentaIgual(r)
    PROVE  IInvA'
<1>1. CicloPorAnio' /\ ArchivadoSiCerrado' /\ RespuestasDeSuCierre'
  BY DEF IInvA, CicloPorAnio, ArchivadoSiCerrado, RespuestasDeSuCierre, Existe, Cerrado
<1>2. BorradasPorUnCierre'
  BY DEF IInvA, BorradasPorUnCierre, CuentaIgual, Existe, Cerrado
<1>3. ConCierre'
  <2>1. \A c, u : Consistente(c, u)' <=> Consistente(c, u)
    BY MismasCuentas DEF Consistente
  <2> QED BY <2>1 DEF IInvA, ConCierre, Activo, Existe, ConAnio
<1>4. CierreSinPerdidas'
  <2>1. SUFFICES ASSUME NEW c \in Ciclos, Existe(c), ciclos[c].cierre # NadaA
                 PROVE  /\ \A e \in Equipos : historico[ciclos[c].anio].equipos[e]
                               = Cardinality({r \in Borradas(c) : reservas[r].equipo = e}')
                        /\ \A d \in Docentes : historico[ciclos[c].anio].docentes[d]
                               = Cardinality({r \in NormalesDe(Borradas(c)) : reservas[r].identidad = d}')
                        /\ ReservasDeCiclo(c)' = {}
    BY DEF CierreSinPerdidas, Existe
  <2>2. /\ \A e \in Equipos : historico[ciclos[c].anio].equipos[e]
              = Cardinality({r \in Borradas(c) : reservas[r].equipo = e})
        /\ \A d \in Docentes : historico[ciclos[c].anio].docentes[d]
              = Cardinality({r \in NormalesDe(Borradas(c)) : reservas[r].identidad = d})
        /\ ReservasDeCiclo(c) = {}
    BY <2>1 DEF IInvA, CierreSinPerdidas
  <2>3. ASSUME NEW e PROVE {r \in Borradas(c) : reservas[r].equipo = e}' = {r \in Borradas(c) : reservas[r].equipo = e}
    BY MismasCuentas
  <2>4. ASSUME NEW d
        PROVE  {r \in NormalesDe(Borradas(c)) : reservas[r].identidad = d}'
                  = {r \in NormalesDe(Borradas(c)) : reservas[r].identidad = d}
    BY MismasCuentas
  <2>5. ReservasDeCiclo(c)' = {}
    BY <2>2, MismasCuentas
  <2> QED BY <2>2, <2>3, <2>4, <2>5
<1> QED BY <1>1, <1>2, <1>3, <1>4 DEF IInvA

\* A step that changes what hangs from an open year, and renames with a subject, or with a
\* place, the reservations that point at it.
LEMMA CambiaLaEstructura ==
    ASSUME CierreAnualAssumption, IInvA, NEW c \in Ciclos, Activo(c), NEW ls, NEW ms,
           Estructura(ls, ms), ls \subseteq Lugar, ms \subseteq Materia,
           \A l \in Lugar : l.ciclo # c => (l \in ls <=> l \in lugares),
           \A m \in Materia : m.lugar.ciclo # c => (m \in ms <=> m \in materias),
           \/ UNCHANGED reservas
           \/ \E vieja, nueva \in Materia : vieja.lugar.ciclo = nueva.lugar.ciclo /\ Apuntan(vieja, nueva)
    PROVE  IInvA' /\ ArchivoInmutable
<1>1. /\ lugares' = ls /\ materias' = ms
      /\ UNCHANGED <<ciclos, historico, cuentasA, cierre, respuestas>>
  BY DEF Estructura
<1>2. reservas' \in [Reservas -> ReservaA \cup {NadaA}] /\ \A r \in Reservas : CuentaIgual(r)
  <2>1. CASE UNCHANGED reservas
    BY <2>1 DEF IInvA, TypeOKA, CuentaIgual
  <2>2. ASSUME NEW vieja \in Materia, NEW nueva \in Materia,
               vieja.lugar.ciclo = nueva.lugar.ciclo, Apuntan(vieja, nueva)
        PROVE  reservas' \in [Reservas -> ReservaA \cup {NadaA}] /\ \A r \in Reservas : CuentaIgual(r)
    <3>1. reservas' = [r \in Reservas |-> IF r \in DeMateria(vieja) THEN [reservas[r] EXCEPT !.materia = nueva]
                                         ELSE reservas[r]]
      BY <2>2 DEF Apuntan
    <3>2. ASSUME NEW r \in Reservas PROVE reservas'[r] \in ReservaA \cup {NadaA} /\ CuentaIgual(r)
      <4>1. CASE r \in DeMateria(vieja)
        <5>1. reservas[r] \in ReservaA /\ reservas[r].materia = vieja /\ reservas[r] # NadaA
          BY <4>1 DEF IInvA, TypeOKA, DeMateria, Viva
        <5> DEFINE v == [reservas[r] EXCEPT !.materia = nueva]
        <5>2. /\ v \in ReservaA /\ v.materia = nueva
              /\ v.anio = reservas[r].anio /\ v.equipo = reservas[r].equipo
              /\ v.identidad = reservas[r].identidad /\ v.cancelada = reservas[r].cancelada
              /\ v.borrada = reservas[r].borrada
          BY <5>1 DEF ReservaA
        <5>3. reservas'[r] = v
          BY <3>1, <4>1
        <5> HIDE DEF v
        <5>4. v # NadaA /\ vieja # NadaA /\ nueva # NadaA
          BY <5>2 DEF CierreAnualAssumption
        <5> QED BY <2>2, <5>1, <5>2, <5>3, <5>4 DEF CuentaIgual
      <4>2. CASE r \notin DeMateria(vieja)
        BY <3>1, <4>2 DEF IInvA, TypeOKA, CuentaIgual
      <4> QED BY <4>1, <4>2
    <3> QED BY <3>1, <3>2
  <2> QED BY <2>1, <2>2
<1>3. TypeOKA'
  BY <1>1, <1>2 DEF IInvA, TypeOKA
<1>4. IInvA'
  BY <1>1, <1>2, <1>3, SiguenIgual
<1>5. ArchivoInmutable
  <2>1. SUFFICES ASSUME NEW x \in Ciclos, Existe(x), ciclos[x].archivado
                 PROVE  /\ {l \in lugares' : l.ciclo = x} = {l \in lugares : l.ciclo = x}
                        /\ {m \in materias' : m.lugar.ciclo = x} = {m \in materias : m.lugar.ciclo = x}
    BY <1>1 DEF ArchivoInmutable
  <2>2. x # c
    BY <2>1 DEF Activo
  <2> QED BY <1>1, <2>2 DEF IInvA, TypeOKA
<1> QED BY <1>4, <1>5

\* Places, subjects and what is imported or copied.
LEMMA PasoEstructura ==
    ASSUME CierreAnualAssumption, IInvA,
           \/ PeticionCrearCurso \/ PeticionEliminarCurso
           \/ PeticionCrearMateria \/ PeticionEditarMateria \/ PeticionEliminarMateria
           \/ PeticionCrearEspacio \/ PeticionEditarEspacio \/ PeticionEliminarEspacio
           \/ PeticionImportar \/ PeticionCopiarMaterias
    PROVE  IInvA' /\ ArchivoInmutable
<1>1. TypeOKA
  BY DEF IInvA
<1>2. ASSUME NEW c \in Ciclos, NEW n \in Nombres, CrearCurso(c, n) \/ CrearEspacio(c, n)
      PROVE  IInvA' /\ ArchivoInmutable
  <2>1. PICK tipo \in {"curso", "espacio"} :
           LET l == [ciclo |-> c, tipo |-> tipo, nombre |-> n] IN
             /\ Activo(c) /\ UNCHANGED reservas
             /\ \E nuevas \in SUBSET {Interna(l)} : Estructura(lugares \cup {l}, materias \cup nuevas)
    <3>1. CASE CrearCurso(c, n)
      <4> DEFINE l == [ciclo |-> c, tipo |-> "curso", nombre |-> n]
      <4>1. Activo(c) /\ UNCHANGED reservas /\ Estructura(lugares \cup {l}, materias)
        BY <3>1 DEF CrearCurso, VerificarVigencia
      <4>2. materias \cup {} = materias
        OBVIOUS
      <4> HIDE DEF l
      <4>3. \E nuevas \in SUBSET {Interna(l)} : Estructura(lugares \cup {l}, materias \cup nuevas)
        BY <4>1, <4>2
      <4> QED BY <4>1, <4>3 DEF l
    <3>2. CASE CrearEspacio(c, n)
      <4> DEFINE l == [ciclo |-> c, tipo |-> "espacio", nombre |-> n]
      <4>1. Activo(c) /\ UNCHANGED reservas /\ Estructura(lugares \cup {l}, materias \cup InternasDe({l}))
        BY <3>2 DEF CrearEspacio, VerificarVigencia
      <4>2. InternasDe({l}) \in SUBSET {Interna(l)}
        BY DEF InternasDe
      <4> QED BY <4>1, <4>2
    <3> QED BY <1>2, <3>1, <3>2
  <2> DEFINE l == [ciclo |-> c, tipo |-> tipo, nombre |-> n]
  <2>2. PICK nuevas \in SUBSET {Interna(l)} : Estructura(lugares \cup {l}, materias \cup nuevas)
    BY <2>1
  <2>3. l \in Lugar /\ l.ciclo = c /\ Interna(l) \in Materia /\ Interna(l).lugar = l
    BY DEF Lugar, Materia, Interna
  <2> HIDE DEF l
  <2> DEFINE ls == lugares \cup {l}
             ms == materias \cup nuevas
  <2>4. /\ ls \subseteq Lugar /\ ms \subseteq Materia
        /\ \A x \in Lugar : x.ciclo # c => (x \in ls <=> x \in lugares)
        /\ \A m \in Materia : m.lugar.ciclo # c => (m \in ms <=> m \in materias)
    BY <1>1, <2>3 DEF TypeOKA
  <2>5. Estructura(ls, ms)
    BY <2>2
  <2> HIDE DEF ls, ms
  <2> QED BY <2>1, <2>4, <2>5, CambiaLaEstructura
<1>3. ASSUME NEW l \in lugares, EliminarCurso(l) \/ EliminarEspacio(l)
      PROVE  IInvA' /\ ArchivoInmutable
  <2>1. /\ Activo(l.ciclo) /\ UNCHANGED reservas
        /\ Estructura(lugares \ {l}, materias \ MateriasDe(l))
    BY <1>3 DEF EliminarCurso, EliminarEspacio, VerificarVigencia
  <2>2. l \in Lugar /\ l.ciclo \in Ciclos
    BY <1>1 DEF TypeOKA, Lugar
  <2>3. /\ lugares \ {l} \subseteq Lugar /\ materias \ MateriasDe(l) \subseteq Materia
        /\ \A x \in Lugar : x.ciclo # l.ciclo => (x \in lugares \ {l} <=> x \in lugares)
        /\ \A m \in Materia : m.lugar.ciclo # l.ciclo => (m \in materias \ MateriasDe(l) <=> m \in materias)
    BY <1>1 DEF TypeOKA, MateriasDe
  <2> QED BY <2>1, <2>2, <2>3, CambiaLaEstructura
<1>4. ASSUME NEW l \in lugares, NEW n \in Nombres, CrearMateria(l, n)
      PROVE  IInvA' /\ ArchivoInmutable
  <2> DEFINE m == [lugar |-> l, nombre |-> n, interna |-> FALSE]
  <2>1. l \in Lugar /\ l.ciclo \in Ciclos /\ m \in Materia /\ m.lugar = l
    BY <1>1 DEF TypeOKA, Lugar, Materia
  <2>2. Activo(l.ciclo) /\ UNCHANGED reservas /\ Estructura(lugares, materias \cup {m})
    BY <1>4 DEF CrearMateria, VerificarVigencia
  <2> HIDE DEF m
  <2>3. /\ materias \cup {m} \subseteq Materia /\ lugares \subseteq Lugar
        /\ \A x \in Materia : x.lugar.ciclo # l.ciclo => (x \in materias \cup {m} <=> x \in materias)
    BY <1>1, <2>1 DEF TypeOKA
  <2> QED BY <2>1, <2>2, <2>3, CambiaLaEstructura
<1>5. ASSUME NEW m \in materias, EliminarMateria(m) PROVE IInvA' /\ ArchivoInmutable
  <2>1. m \in Materia /\ m.lugar \in Lugar /\ m.lugar.ciclo \in Ciclos
    BY <1>1 DEF TypeOKA, Lugar, Materia
  <2>2. Activo(m.lugar.ciclo) /\ UNCHANGED reservas /\ Estructura(lugares, materias \ {m})
    BY <1>5 DEF EliminarMateria, VerificarVigencia
  <2>3. /\ materias \ {m} \subseteq Materia /\ lugares \subseteq Lugar
        /\ \A x \in Materia : x.lugar.ciclo # m.lugar.ciclo => (x \in materias \ {m} <=> x \in materias)
    BY <1>1 DEF TypeOKA
  <2> QED BY <2>1, <2>2, <2>3, CambiaLaEstructura
<1>6. ASSUME NEW m \in materias, NEW n \in Nombres, EditarMateria(m, n)
      PROVE  IInvA' /\ ArchivoInmutable
  <2> DEFINE nueva == [m EXCEPT !.nombre = n]
             ms == (materias \ {m}) \cup {nueva}
  <2>1. /\ m \in Materia /\ m.lugar \in Lugar /\ m.lugar.ciclo \in Ciclos
        /\ nueva \in Materia /\ nueva.lugar = m.lugar
    BY <1>1 DEF TypeOKA, Lugar, Materia
  <2>2. Activo(m.lugar.ciclo) /\ Apuntan(m, nueva) /\ Estructura(lugares, ms)
    BY <1>6 DEF EditarMateria, VerificarVigencia
  <2> HIDE DEF nueva
  <2>3. /\ ms \subseteq Materia /\ lugares \subseteq Lugar
        /\ \A x \in Materia : x.lugar.ciclo # m.lugar.ciclo => (x \in ms <=> x \in materias)
    BY <1>1, <2>1 DEF TypeOKA
  <2> HIDE DEF ms
  <2> QED BY <2>1, <2>2, <2>3, CambiaLaEstructura
<1>7. ASSUME NEW l \in lugares, NEW n \in Nombres, EditarEspacio(l, n)
      PROVE  IInvA' /\ ArchivoInmutable
  <2> DEFINE nuevo == [l EXCEPT !.nombre = n]
             ls == (lugares \ {l}) \cup {nuevo}
             ms == (materias \ MateriasDe(l)) \cup InternasDe({nuevo})
  <2>1. /\ l \in Lugar /\ l.ciclo \in Ciclos /\ nuevo \in Lugar /\ nuevo.ciclo = l.ciclo
    BY <1>1 DEF TypeOKA, Lugar
  <2>2. Activo(l.ciclo) /\ Apuntan(Interna(l), Interna(nuevo)) /\ Estructura(ls, ms)
    BY <1>7 DEF EditarEspacio, VerificarVigencia
  <2> HIDE DEF nuevo
  <2>3. /\ Interna(l) \in Materia /\ Interna(nuevo) \in Materia
        /\ Interna(l).lugar = l /\ Interna(nuevo).lugar = nuevo
    BY <2>1 DEF Interna, Lugar, Materia
  <2>4. InternasDe({nuevo}) \subseteq {Interna(nuevo)}
    BY DEF InternasDe
  <2>5. /\ ls \subseteq Lugar /\ ms \subseteq Materia
        /\ \A x \in Lugar : x.ciclo # l.ciclo => (x \in ls <=> x \in lugares)
        /\ \A m \in Materia : m.lugar.ciclo # l.ciclo => (m \in ms <=> m \in materias)
    BY <1>1, <2>1, <2>3, <2>4 DEF TypeOKA, MateriasDe
  <2> HIDE DEF ls, ms
  <2> QED BY <2>1, <2>2, <2>3, <2>5, CambiaLaEstructura
<1>8. ASSUME NEW c \in Ciclos, NEW l \in Lugar, l.ciclo = c, Activo(c), UNCHANGED reservas,
             NEW ns \in SUBSET Nombres, NEW ls \in {lugares, lugares \cup {l}},
             Estructura(ls, materias \cup FaltanEn(l, ns))
      PROVE  IInvA' /\ ArchivoInmutable
  <2> DEFINE ms == materias \cup FaltanEn(l, ns)
  <2>1. ASSUME NEW m \in FaltanEn(l, ns) PROVE m \in Materia /\ m.lugar = l
    <3>1. PICK n \in ns : m = [lugar |-> l, nombre |-> n, interna |-> FALSE]
      BY DEF FaltanEn
    <3>2. n \in Nombres
      BY <1>8
    <3> QED BY <3>1, <3>2 DEF Materia
  <2>2. /\ ls \subseteq Lugar /\ ms \subseteq Materia
        /\ \A x \in Lugar : x.ciclo # c => (x \in ls <=> x \in lugares)
        /\ \A m \in Materia : m.lugar.ciclo # c => (m \in ms <=> m \in materias)
    BY <1>1, <1>8, <2>1 DEF TypeOKA
  <2> HIDE DEF ms
  <2> QED BY <1>8, <2>2, CambiaLaEstructura DEF ms
<1>9. ASSUME PeticionImportar PROVE IInvA' /\ ArchivoInmutable
  <2>1. PICK c \in Ciclos, n \in Nombres, ns \in SUBSET Nombres : ImportarEstructura(c, n, ns)
    BY <1>9 DEF PeticionImportar
  <2> DEFINE l == [ciclo |-> c, tipo |-> "curso", nombre |-> n]
  <2>2. l \in Lugar /\ l.ciclo = c
    BY DEF Lugar
  <2>3. Activo(c) /\ UNCHANGED reservas /\ Estructura(lugares \cup {l}, materias \cup FaltanEn(l, ns))
    BY <2>1 DEF ImportarEstructura, VerificarVigencia
  <2> HIDE DEF l
  <2> QED BY <1>8, <2>2, <2>3
<1>10. ASSUME NEW origen \in lugares, NEW destino \in lugares, CopiarMaterias(origen, destino)
       PROVE  IInvA' /\ ArchivoInmutable
  <2> DEFINE ns == {m.nombre : m \in MateriasDe(origen)}
  <2>1. ns \in SUBSET Nombres
    BY <1>1 DEF TypeOKA, MateriasDe, Materia
  <2>2. destino \in Lugar /\ destino.ciclo \in Ciclos
    BY <1>1 DEF TypeOKA, Lugar
  <2>3. /\ Activo(destino.ciclo) /\ UNCHANGED reservas
        /\ Estructura(lugares, materias \cup FaltanEn(destino, ns))
    BY <1>10 DEF CopiarMaterias, ValidarDestino, VerificarVigencia
  <2> HIDE DEF ns
  <2> QED BY <1>8, <2>1, <2>2, <2>3
<1> QED
  BY <1>2, <1>3, <1>4, <1>5, <1>6, <1>7, <1>9, <1>10
  DEF PeticionCrearCurso, PeticionEliminarCurso, PeticionCrearMateria, PeticionEditarMateria,
      PeticionEliminarMateria, PeticionCrearEspacio, PeticionEditarEspacio, PeticionEliminarEspacio,
      PeticionCopiarMaterias

\* A year that is closed keeps what it sealed while nothing it deleted changes, nobody
\* writes its use again and no reservation of it appears.
SinPerdidas(c) ==
    /\ \A e \in Equipos : historico[ciclos[c].anio].equipos[e]
          = Cardinality({r \in Borradas(c) : reservas[r].equipo = e})
    /\ \A d \in Docentes : historico[ciclos[c].anio].docentes[d]
          = Cardinality({r \in NormalesDe(Borradas(c)) : reservas[r].identidad = d})
    /\ ReservasDeCiclo(c) = {}

LEMMA SinPerdidasDeCadaCierre == CierreSinPerdidas <=> \A c \in Ciclos : Cerrado(c) => SinPerdidas(c)
  BY DEF CierreSinPerdidas, SinPerdidas, Cerrado

LEMMA ConservaLoSellado ==
    ASSUME NEW c, SinPerdidas(c), ciclos'[c] = ciclos[c],
           historico'[ciclos[c].anio] = historico[ciclos[c].anio],
           Borradas(c)' = Borradas(c), \A r \in Borradas(c) : reservas'[r] = reservas[r],
           ReservasDeCiclo(c)' \subseteq ReservasDeCiclo(c)
    PROVE  SinPerdidas(c)'
<1>1. ASSUME NEW e
      PROVE  {r \in Borradas(c)' : reservas'[r].equipo = e} = {r \in Borradas(c) : reservas[r].equipo = e}
  OBVIOUS
<1>2. NormalesDe(Borradas(c))' = NormalesDe(Borradas(c)) /\ NormalesDe(Borradas(c)) \subseteq Borradas(c)
  BY DEF NormalesDe
<1>3. ASSUME NEW d
      PROVE  {r \in NormalesDe(Borradas(c))' : reservas'[r].identidad = d}
                = {r \in NormalesDe(Borradas(c)) : reservas[r].identidad = d}
  BY <1>2
<1>4. ReservasDeCiclo(c)' = {}
  BY DEF SinPerdidas
<1>5. \A e \in Equipos : historico'[ciclos'[c].anio].equipos[e]
         = Cardinality({r \in Borradas(c)' : reservas'[r].equipo = e})
  BY <1>1 DEF SinPerdidas
<1>6. \A d \in Docentes : historico'[ciclos'[c].anio].docentes[d]
         = Cardinality({r \in NormalesDe(Borradas(c))' : reservas'[r].identidad = d})
  BY <1>3 DEF SinPerdidas
<1> QED BY <1>4, <1>5, <1>6 DEF SinPerdidas

\* A year that is open, or was not there, is created, corrected or deleted.
LEMMA CambiaUnCiclo ==
    ASSUME CierreAnualAssumption, IInvA, cierre = NadaA, NEW c \in Ciclos, ~Cerrado(c),
           NEW v \in Ciclo \cup {NadaA},
           v # NadaA => ~v.archivado /\ v.cierre = NadaA /\ ConAnio(v.anio) \subseteq {c},
           ciclos' = [ciclos EXCEPT ![c] = v],
           UNCHANGED <<lugares, materias, reservas, historico, cuentasA, cierre, respuestas>>
    PROVE  IInvA' /\ ArchivoInmutable
<1>1. /\ ciclos' \in [Ciclos -> Ciclo \cup {NadaA}]
      /\ ciclos'[c] = v /\ \A x \in Ciclos \ {c} : ciclos'[x] = ciclos[x]
  BY DEF IInvA, TypeOKA
<1>2. TypeOKA'
  BY <1>1 DEF IInvA, TypeOKA
<1>3. CicloPorAnio'
  BY <1>1 DEF IInvA, CicloPorAnio, Existe, ConAnio
<1>4. ArchivadoSiCerrado'
  BY <1>1 DEF IInvA, ArchivadoSiCerrado, Existe
<1>5. /\ \A x \in Ciclos : Cerrado(x) => x # c /\ Cerrado(x)'
      /\ \A x \in Ciclos : Cerrado(x)' => x # c /\ Cerrado(x)
  BY <1>1 DEF Cerrado, Existe
<1>6. BorradasPorUnCierre'
  <2>1. \A r \in Reservas : reservas[r] # NadaA /\ reservas[r].borrada # NadaA => reservas[r].borrada \in Ciclos
    BY DEF IInvA, TypeOKA, ReservaA
  <2> QED BY <1>5, <2>1 DEF IInvA, BorradasPorUnCierre
<1>7. RespuestasDeSuCierre'
  <2>1. \A x \in respuestas : x.ciclo \in Ciclos
    BY DEF IInvA, RespuestasDeSuCierre, Respuesta
  <2> QED BY <1>1, <1>5, <2>1 DEF IInvA, RespuestasDeSuCierre
<1>8. ConCierre'
  BY DEF ConCierre
<1>9. CierreSinPerdidas'
  <2>1. ASSUME NEW x \in Ciclos, Cerrado(x)' PROVE SinPerdidas(x)'
    <3>1. x # c /\ SinPerdidas(x) /\ ciclos'[x] = ciclos[x]
      BY <1>1, <1>5, <2>1, SinPerdidasDeCadaCierre DEF IInvA
    <3>2. Borradas(x)' = Borradas(x) /\ ReservasDeCiclo(x)' = ReservasDeCiclo(x)
      BY <3>1 DEF Borradas, ReservasDeCiclo, BloqueosDelAnio, Viva
    <3> QED BY <3>1, <3>2, ConservaLoSellado
  <2>2. (\A x \in Ciclos : Cerrado(x) => SinPerdidas(x))'
    BY <2>1
  <2> QED BY <2>2 DEF CierreSinPerdidas, SinPerdidas, Cerrado
<1>10. ArchivoInmutable
  BY <1>1, <1>5 DEF IInvA, ArchivadoSiCerrado, ArchivoInmutable, Cerrado
<1> QED BY <1>2, <1>3, <1>4, <1>6, <1>7, <1>8, <1>9, <1>10 DEF IInvA

LEMMA PasoCiclos ==
    ASSUME CierreAnualAssumption, IInvA, PeticionCrearCiclo \/ PeticionCorregirCiclo \/ PeticionEliminarCiclo
    PROVE  IInvA' /\ ArchivoInmutable
<1>1. ASSUME NEW c \in Ciclos, NEW a \in Anios, CrearCiclo(c, a) PROVE IInvA' /\ ArchivoInmutable
  <2> DEFINE v == [anio |-> a, archivado |-> FALSE, cierre |-> NadaA]
  <2>1. v \in Ciclo /\ v.anio = a /\ ~v.archivado /\ v.cierre = NadaA
    BY DEF Ciclo
  <2>2. /\ cierre = NadaA /\ ~Existe(c) /\ ConAnio(a) = {} /\ ciclos' = [ciclos EXCEPT ![c] = v]
        /\ UNCHANGED <<lugares, materias, reservas, historico, cuentasA, cierre, respuestas>>
    BY <1>1 DEF CrearCiclo, CoordinaA
  <2> HIDE DEF v
  <2> QED BY <2>1, <2>2, CambiaUnCiclo DEF Cerrado
<1>2. ASSUME NEW c \in Ciclos, NEW a \in Anios, CorregirAnioDeCiclo(c, a) PROVE IInvA' /\ ArchivoInmutable
  <2> DEFINE v == [ciclos[c] EXCEPT !.anio = a]
  <2>1. /\ cierre = NadaA /\ Activo(c) /\ ConAnio(a) = {} /\ ciclos' = [ciclos EXCEPT ![c] = v]
        /\ UNCHANGED <<lugares, materias, reservas, historico, cuentasA, cierre, respuestas>>
    BY <1>2 DEF CorregirAnioDeCiclo, CoordinaA
  <2>2. ciclos[c] \in Ciclo /\ ~ciclos[c].archivado /\ ciclos[c].cierre = NadaA
    BY <2>1 DEF IInvA, TypeOKA, Activo, Existe, ArchivadoSiCerrado
  <2>3. v \in Ciclo /\ v.anio = a /\ v.archivado = ciclos[c].archivado /\ v.cierre = NadaA
    BY <2>2 DEF Ciclo
  <2> HIDE DEF v
  <2> QED BY <2>1, <2>2, <2>3, CambiaUnCiclo DEF Cerrado
<1>3. ASSUME NEW c \in Ciclos, EliminarCiclo(c) PROVE IInvA' /\ ArchivoInmutable
  <2>1. /\ cierre = NadaA /\ Activo(c) /\ ciclos' = [ciclos EXCEPT ![c] = NadaA]
        /\ UNCHANGED <<lugares, materias, reservas, historico, cuentasA, cierre, respuestas>>
    BY <1>3 DEF EliminarCiclo, CoordinaA
  <2>2. ~Cerrado(c)
    BY <2>1 DEF IInvA, Activo, Existe, ArchivadoSiCerrado, Cerrado
  <2> QED BY <2>1, <2>2, CambiaUnCiclo
<1> QED BY <1>1, <1>2, <1>3 DEF PeticionCrearCiclo, PeticionCorregirCiclo, PeticionEliminarCiclo

\* A reservation is made or cancelled in a year that is not closed.
LEMMA CambiaUnaReserva ==
    ASSUME CierreAnualAssumption, IInvA, cierre = NadaA, NEW r \in Reservas, NEW v \in ReservaA,
           v.borrada = NadaA, reservas[r] # NadaA => reservas[r].borrada = NadaA,
           \A x \in Ciclos : Cerrado(x) =>
              IF v.materia = NadaA THEN v.anio # ciclos[x].anio ELSE v.materia.lugar.ciclo # x,
           reservas' = [reservas EXCEPT ![r] = v],
           UNCHANGED <<ciclos, lugares, materias, historico, cuentasA, cierre, respuestas>>
    PROVE  IInvA' /\ ArchivoInmutable
<1>1. /\ reservas' \in [Reservas -> ReservaA \cup {NadaA}]
      /\ reservas'[r] = v /\ \A q \in Reservas \ {r} : reservas'[q] = reservas[q]
  BY DEF IInvA, TypeOKA
<1>2. TypeOKA' /\ ConCierre'
  BY <1>1 DEF IInvA, TypeOKA, ConCierre
<1>3. CicloPorAnio' /\ ArchivadoSiCerrado' /\ RespuestasDeSuCierre'
  BY DEF IInvA, CicloPorAnio, ArchivadoSiCerrado, RespuestasDeSuCierre, Existe, Cerrado
<1>4. BorradasPorUnCierre'
  BY <1>1 DEF IInvA, BorradasPorUnCierre, Cerrado, Existe
<1>5. CierreSinPerdidas'
  <2>1. ASSUME NEW x \in Ciclos, Cerrado(x)' PROVE SinPerdidas(x)'
    <3>1. Cerrado(x) /\ SinPerdidas(x) /\ x # NadaA
      BY <2>1, SinPerdidasDeCadaCierre DEF IInvA, Cerrado, Existe, CierreAnualAssumption
    <3>2. Borradas(x)' = Borradas(x) /\ \A q \in Borradas(x) : reservas'[q] = reservas[q]
      BY <1>1, <3>1 DEF Borradas
    <3>3. ReservasDeCiclo(x)' \subseteq ReservasDeCiclo(x)
      <4>1. SUFFICES ASSUME NEW q \in Reservas, q \in ReservasDeCiclo(x)' PROVE q \in ReservasDeCiclo(x)
        BY DEF ReservasDeCiclo, BloqueosDelAnio
      <4>2. CASE q = r
        BY <1>1, <3>1, <4>1, <4>2 DEF ReservasDeCiclo, BloqueosDelAnio, Viva
      <4>3. CASE q # r
        BY <1>1, <4>1, <4>3 DEF ReservasDeCiclo, BloqueosDelAnio, Viva
      <4> QED BY <4>2, <4>3
    <3> QED BY <3>1, <3>2, <3>3, ConservaLoSellado
  <2>2. (\A x \in Ciclos : Cerrado(x) => SinPerdidas(x))'
    BY <2>1
  <2> QED BY <2>2 DEF CierreSinPerdidas, SinPerdidas, Cerrado
<1>6. ArchivoInmutable
  BY DEF ArchivoInmutable
<1> QED BY <1>2, <1>3, <1>4, <1>5, <1>6 DEF IInvA

\* Reservations, their cancellation and the deletion of an account.
LEMMA PasoEntorno == ASSUME CierreAnualAssumption, IInvA, Entorno PROVE IInvA' /\ ArchivoInmutable
<1>1. ASSUME NEW r \in Reservas, NEW m \in materias, NEW d \in Docentes, NEW e \in Equipos,
             ReservarMateria(r, m, d, e)
      PROVE  IInvA' /\ ArchivoInmutable
  <2> DEFINE c == m.lugar.ciclo
             v == [materia |-> m, anio |-> ciclos[c].anio, equipo |-> e, identidad |-> d, creador |-> d,
                   cancelada |-> FALSE, borrada |-> NadaA]
  <2>1. /\ reservas[r] = NadaA /\ cierre = NadaA /\ Activo(c) /\ reservas' = [reservas EXCEPT ![r] = v]
        /\ UNCHANGED <<ciclos, lugares, materias, historico, cuentasA, cierre, respuestas>>
    BY <1>1 DEF ReservarMateria, CicloAbierto, CoordinaA
  <2>2. m \in Materia /\ c \in Ciclos /\ m # NadaA
    BY DEF IInvA, TypeOKA, Materia, Lugar, CierreAnualAssumption
  <2>3. ciclos[c].anio \in Anios
    BY <2>1, <2>2 DEF IInvA, TypeOKA, Activo, Existe, Ciclo
  <2>4. v \in ReservaA /\ v.materia = m /\ v.borrada = NadaA
    BY <2>2, <2>3 DEF ReservaA
  <2>5. ~Cerrado(c)
    BY <2>1, <2>2 DEF IInvA, Activo, Existe, ArchivadoSiCerrado, Cerrado
  <2> HIDE DEF v
  <2> QED BY <2>1, <2>2, <2>4, <2>5, CambiaUnaReserva
<1>2. ASSUME NEW r \in Reservas, NEW a \in Anios, NEW e \in Equipos, BloquearEquipo(r, a, e)
      PROVE  IInvA' /\ ArchivoInmutable
  <2> DEFINE v == [materia |-> NadaA, anio |-> a, equipo |-> e, identidad |-> NadaA, creador |-> NadaA,
                   cancelada |-> FALSE, borrada |-> NadaA]
  <2>1. /\ reservas[r] = NadaA /\ cierre = NadaA /\ reservas' = [reservas EXCEPT ![r] = v]
        /\ \A c \in ConAnio(a) : Activo(c)
        /\ UNCHANGED <<ciclos, lugares, materias, historico, cuentasA, cierre, respuestas>>
    BY <1>2 DEF BloquearEquipo, CicloAbierto, CoordinaA
  <2>2. v \in ReservaA /\ v.materia = NadaA /\ v.anio = a /\ v.borrada = NadaA
    BY DEF ReservaA
  <2>3. \A x \in Ciclos : Cerrado(x) => ciclos[x].anio # a
    BY <2>1 DEF IInvA, ConAnio, Activo, Existe, ArchivadoSiCerrado, Cerrado
  <2> HIDE DEF v
  <2> QED BY <2>1, <2>2, <2>3, CambiaUnaReserva
<1>3. ASSUME NEW r \in Reservas, CancelarReserva(r) PROVE IInvA' /\ ArchivoInmutable
  <2> DEFINE v == [reservas[r] EXCEPT !.cancelada = TRUE]
  <2>1. /\ reservas[r] # NadaA /\ reservas[r].borrada = NadaA /\ cierre = NadaA
        /\ reservas' = [reservas EXCEPT ![r] = v]
        /\ UNCHANGED <<ciclos, lugares, materias, historico, cuentasA, cierre, respuestas>>
    BY <1>3 DEF CancelarReserva, CoordinaA, Viva
  <2>2. reservas[r] \in ReservaA
    BY <2>1 DEF IInvA, TypeOKA
  <2>3. /\ v \in ReservaA /\ v.borrada = NadaA /\ v.materia = reservas[r].materia
        /\ v.anio = reservas[r].anio
    BY <2>1, <2>2 DEF ReservaA
  <2>4. ASSUME NEW x \in Ciclos, Cerrado(x)
        PROVE  IF reservas[r].materia = NadaA THEN reservas[r].anio # ciclos[x].anio
               ELSE reservas[r].materia.lugar.ciclo # x
    <3>1. r \notin ReservasDeCiclo(x)
      BY <2>4, SinPerdidasDeCadaCierre DEF IInvA, SinPerdidas
    <3> QED BY <2>1, <3>1 DEF ReservasDeCiclo, BloqueosDelAnio, Viva
  <2> HIDE DEF v
  <2> QED BY <2>1, <2>3, <2>4, CambiaUnaReserva
<1>4. ASSUME NEW d \in Docentes, EliminarCuenta(d) PROVE IInvA' /\ ArchivoInmutable
  <2>1. /\ cuentasA' = cuentasA \ {d}
        /\ reservas' = [r \in Reservas |-> IF Viva(r) /\ reservas[r].creador = d
                                           THEN [reservas[r] EXCEPT !.creador = NadaA] ELSE reservas[r]]
        /\ UNCHANGED <<ciclos, lugares, materias, historico, cierre, respuestas>>
    BY <1>4 DEF EliminarCuenta
  <2>2. ASSUME NEW r \in Reservas PROVE reservas'[r] \in ReservaA \cup {NadaA} /\ CuentaIgual(r)
    <3>1. CASE Viva(r) /\ reservas[r].creador = d
      <4> DEFINE v == [reservas[r] EXCEPT !.creador = NadaA]
      <4>1. reservas[r] \in ReservaA /\ reservas[r] # NadaA /\ reservas'[r] = v
        BY <2>1, <3>1 DEF IInvA, TypeOKA, Viva
      <4>2. /\ v \in ReservaA /\ v.materia = reservas[r].materia
            /\ v.anio = reservas[r].anio /\ v.equipo = reservas[r].equipo
            /\ v.identidad = reservas[r].identidad /\ v.cancelada = reservas[r].cancelada
            /\ v.borrada = reservas[r].borrada
        BY <4>1 DEF ReservaA
      <4> HIDE DEF v
      <4> QED BY <4>1, <4>2 DEF CuentaIgual, CierreAnualAssumption
    <3>2. CASE ~(Viva(r) /\ reservas[r].creador = d)
      BY <2>1, <3>2 DEF IInvA, TypeOKA, CuentaIgual
    <3> QED BY <3>1, <3>2
  <2>3. reservas' \in [Reservas -> ReservaA \cup {NadaA}]
    BY <2>1, <2>2
  <2>4. TypeOKA'
    BY <2>1, <2>3 DEF IInvA, TypeOKA
  <2>5. ArchivoInmutable
    BY <2>1 DEF ArchivoInmutable
  <2> QED BY <2>1, <2>2, <2>4, <2>5, SiguenIgual
<1> QED BY <1>1, <1>2, <1>3, <1>4 DEF Entorno

\* A step of the closing before its commit, or an answer that is repeated.
LEMMA CambiaElCierre ==
    ASSUME IInvA, UNCHANGED <<ciclos, lugares, materias, reservas, historico, cuentasA>>,
           RespuestasDeSuCierre', ConCierre'
    PROVE  IInvA' /\ ArchivoInmutable
<1>1. TypeOKA' /\ CicloPorAnio' /\ ArchivadoSiCerrado'
  BY DEF IInvA, TypeOKA, CicloPorAnio, ArchivadoSiCerrado, Existe
<1>2. BorradasPorUnCierre' /\ CierreSinPerdidas'
  BY DEF IInvA, BorradasPorUnCierre, CierreSinPerdidas, Cerrado, Existe, Borradas, ReservasDeCiclo,
         BloqueosDelAnio, Viva, NormalesDe
<1>3. ArchivoInmutable
  BY DEF ArchivoInmutable
<1> QED BY <1>1, <1>2, <1>3 DEF IInvA

LEMMA MismasRespuestas ==
    ASSUME IInvA, UNCHANGED <<ciclos, respuestas>> PROVE RespuestasDeSuCierre'
  BY DEF IInvA, RespuestasDeSuCierre, Cerrado, Existe

\* From the request to the seal.
LEMMA PasoAntesDeConfirmar ==
    ASSUME CierreAnualAssumption, IInvA,
           PeticionArchivarCiclo \/ FotoDelCiclo \/ SellarSnapshot \/ AbortarCierre
    PROVE  IInvA' /\ ArchivoInmutable
<1>1. ASSUME NEW c \in Ciclos, NEW a \in Anios \cup {NadaA}, ArchivarYClonar(c, a)
      PROVE  IInvA' /\ ArchivoInmutable
  <2> DEFINE k == [ciclo |-> c, destino |-> a, paso |-> "foto", uso |-> NadaA, vinculadas |-> {}]
  <2>1. /\ cierre' = k /\ Activo(c) /\ (a # NadaA => ConAnio(a) = {})
        /\ UNCHANGED <<ciclos, lugares, materias, reservas, historico, cuentasA, respuestas>>
    BY <1>1 DEF ArchivarYClonar, Activo
  <2>2. k \in Cierre /\ k.ciclo = c /\ k.destino = a /\ k.paso = "foto"
    BY DEF Cierre
  <2> HIDE DEF k
  <2>3. ConCierre'
    BY <2>1, <2>2 DEF ConCierre, Activo, Existe, ConAnio
  <2> QED BY <2>1, <2>3, MismasRespuestas, CambiaElCierre
<1>2. ASSUME NEW c \in Ciclos, NEW a \in Anios \cup {NadaA}, RepetirCierre(c, a)
      PROVE  IInvA' /\ ArchivoInmutable
  <2> DEFINE x == [ciclo |-> c, destino |-> a, nuevo |-> ciclos[c].cierre.nuevo]
  <2>1. /\ cierre = NadaA /\ Cerrado(c) /\ ciclos[c].cierre.destino = a
        /\ respuestas' = respuestas \cup {x}
        /\ UNCHANGED <<ciclos, lugares, materias, reservas, historico, cuentasA, cierre>>
    BY <1>2 DEF RepetirCierre, CoordinaA, Responder, MismoDestino, Cerrado
  <2>2. ciclos[c].cierre \in CierreCiclo
    BY <2>1 DEF IInvA, TypeOKA, Cerrado, Existe, Ciclo
  <2>3. x \in Respuesta /\ x.ciclo = c /\ x.destino = a /\ x.nuevo = ciclos[c].cierre.nuevo
    BY <2>2 DEF Respuesta, CierreCiclo
  <2> HIDE DEF x
  <2>4. RespuestasDeSuCierre'
    BY <2>1, <2>3 DEF IInvA, RespuestasDeSuCierre, Cerrado, Existe
  <2>5. ConCierre'
    BY <2>1 DEF ConCierre
  <2> QED BY <2>1, <2>4, <2>5, CambiaElCierre
<1>3. ASSUME FotoDelCiclo PROVE IInvA' /\ ArchivoInmutable
  <2> DEFINE uso == [equipos |-> UsoDeEquipos(cierre.ciclo), docentes |-> UsoDeDocentes(cierre.ciclo)]
             vinculadas == {reservas[r].creador : r \in NormalesDe(Computables(cierre.ciclo))} \ {NadaA}
             k == [cierre EXCEPT !.paso = "nombres", !.uso = uso, !.vinculadas = vinculadas]
  <2>1. /\ cierre # NadaA /\ cierre' = k
        /\ UNCHANGED <<ciclos, lugares, materias, reservas, historico, cuentasA, respuestas>>
    BY <1>3 DEF FotoDelCiclo
  <2>2. uso \in Uso
    BY UsoBienFormado
  <2>3. vinculadas \in SUBSET Docentes
    <3>1. \A r \in NormalesDe(Computables(cierre.ciclo)) : reservas[r] \in ReservaA
      BY DEF IInvA, TypeOKA, NormalesDe, Computables, ReservasDeCiclo, BloqueosDelAnio, Viva
    <3>2. \A r \in NormalesDe(Computables(cierre.ciclo)) : reservas[r].creador \in Docentes \cup {NadaA}
      BY <3>1 DEF ReservaA
    <3> QED BY <3>2
  <2> HIDE DEF uso, vinculadas
  <2>4. /\ cierre \in Cierre /\ Activo(cierre.ciclo)
        /\ cierre.destino # NadaA => ConAnio(cierre.destino) = {}
    BY <2>1 DEF IInvA, ConCierre
  <2>5. k \in Cierre /\ k.ciclo = cierre.ciclo /\ k.destino = cierre.destino /\ k.paso = "nombres" /\ k.uso = uso
    BY <2>2, <2>3, <2>4 DEF Cierre
  <2> HIDE DEF k
  <2>6. ConCierre'
    BY <2>1, <2>2, <2>4, <2>5 DEF ConCierre, Activo, Existe, ConAnio
  <2> QED BY <2>1, <2>6, MismasRespuestas, CambiaElCierre
<1>4. ASSUME SellarSnapshot PROVE IInvA' /\ ArchivoInmutable
  <2> DEFINE k == [cierre EXCEPT !.paso = "sellado"]
  <2>1. /\ cierre # NadaA /\ cierre.paso = "nombres" /\ cierre' = k /\ Consistente(cierre.ciclo, cierre.uso)
        /\ UNCHANGED <<ciclos, lugares, materias, reservas, historico, cuentasA, respuestas>>
    BY <1>4 DEF SellarSnapshot
  <2>2. /\ cierre \in Cierre /\ Activo(cierre.ciclo) /\ cierre.uso \in Uso
        /\ cierre.destino # NadaA => ConAnio(cierre.destino) = {}
    BY <2>1 DEF IInvA, ConCierre
  <2>3. k \in Cierre /\ k.ciclo = cierre.ciclo /\ k.destino = cierre.destino /\ k.uso = cierre.uso
    BY <2>2 DEF Cierre
  <2> HIDE DEF k
  <2>4. Consistente(cierre.ciclo, cierre.uso)'
    <3>1. \A r \in Reservas : CuentaIgual(r)
      BY <2>1 DEF CuentaIgual
    <3>2. cierre'.ciclo = cierre.ciclo /\ cierre'.uso = cierre.uso
      BY <2>1, <2>3
    <3>3. /\ UsoDeEquipos(cierre.ciclo)' = UsoDeEquipos(cierre'.ciclo)
          /\ UsoDeDocentes(cierre.ciclo)' = UsoDeDocentes(cierre'.ciclo)
      BY <2>1 DEF UsoDeEquipos, UsoDeDocentes, Computables, NormalesDe, ReservasDeCiclo, BloqueosDelAnio, Viva
    <3> QED BY <2>1, <3>2, <3>3 DEF Consistente
  <2>5. ConCierre'
    BY <2>1, <2>2, <2>3, <2>4 DEF ConCierre, Activo, Existe, ConAnio
  <2> QED BY <2>1, <2>5, MismasRespuestas, CambiaElCierre
<1>5. ASSUME AbortarCierre PROVE IInvA' /\ ArchivoInmutable
  <2>1. ConCierre'
    BY <1>5 DEF AbortarCierre, ConCierre
  <2> QED BY <1>5, <2>1, MismasRespuestas, CambiaElCierre DEF AbortarCierre
<1> QED BY <1>1, <1>2, <1>3, <1>4, <1>5 DEF PeticionArchivarCiclo

\* The commit: what it deletes is what it sealed, and the year that is closed is the only
\* one that changes besides the one it starts.
LEMMA ConfirmaUnCierre ==
    ASSUME CierreAnualAssumption, IInvA, cierre # NadaA, cierre.paso = "sellado",
           NEW c, NEW destino, NEW uso, c = cierre.ciclo, destino = cierre.destino, uso = cierre.uso,
           NEW nuevo \in Ciclos \cup {NadaA},
           IF cierre.destino = NadaA THEN nuevo = NadaA ELSE nuevo # NadaA /\ ~Existe(nuevo),
           historico' = [historico EXCEPT ![ciclos[cierre.ciclo].anio] = cierre.uso],
           EliminarReservasDeCiclo(cierre.ciclo),
           ciclos' = [x \in Ciclos |->
              CASE x = cierre.ciclo ->
                      ArchivarCiclo(cierre.ciclo, [destino |-> cierre.destino, nuevo |-> nuevo])
                [] x = nuevo -> [anio |-> cierre.destino, archivado |-> FALSE, cierre |-> NadaA]
                [] OTHER -> ciclos[x]],
           IF nuevo = NadaA THEN UNCHANGED <<lugares, materias>> ELSE ClonarCicloA(cierre.ciclo, nuevo),
           Responder(cierre.ciclo, cierre.destino, nuevo),
           cierre' = NadaA, UNCHANGED cuentasA
    PROVE  IInvA' /\ ArchivoInmutable
<1>1. c \in Ciclos /\ Activo(c) /\ uso \in Uso /\ Consistente(c, uso)
  BY DEF IInvA, ConCierre, Cierre
<1>2. destino \in Anios \cup {NadaA} /\ (destino # NadaA => ConAnio(destino) = {})
  BY DEF IInvA, ConCierre, Cierre
<1>3. /\ ciclos[c] \in Ciclo /\ ~Cerrado(c) /\ ciclos[c].cierre = NadaA /\ ciclos[c].anio \in Anios
      /\ c # NadaA
  BY <1>1 DEF IInvA, TypeOKA, Activo, Existe, ArchivadoSiCerrado, Cerrado, Ciclo, CierreAnualAssumption
<1>5. nuevo # c /\ (nuevo # NadaA => nuevo \in Ciclos /\ ~Existe(nuevo) /\ destino \in Anios)
  BY <1>1, <1>2, <1>3 DEF Activo
<1> DEFINE K == [destino |-> destino, nuevo |-> nuevo]
           v == ArchivarCiclo(c, K)
           w == [anio |-> destino, archivado |-> FALSE, cierre |-> NadaA]
           x0 == [ciclo |-> c, destino |-> destino, nuevo |-> nuevo]
<1>6. K \in CierreCiclo /\ K # NadaA /\ K.destino = destino /\ K.nuevo = nuevo
  BY <1>1, <1>2 DEF CierreCiclo, CierreAnualAssumption
<1>7. v \in Ciclo /\ v.anio = ciclos[c].anio /\ v.archivado /\ v.cierre = K
  <2> HIDE DEF K
  <2>1. v = [ciclos[c] EXCEPT !.archivado = TRUE, !.cierre = K]
    BY DEF ArchivarCiclo
  <2> HIDE DEF v
  <2> QED BY <1>3, <1>6, <2>1 DEF Ciclo
<1>8. nuevo # NadaA => w \in Ciclo /\ w.anio = destino /\ ~w.archivado /\ w.cierre = NadaA
  BY <1>5 DEF Ciclo
<1>9. x0 \in Respuesta /\ x0.ciclo = c /\ x0.destino = destino /\ x0.nuevo = nuevo
  BY <1>1, <1>2 DEF Respuesta
<1>10. respuestas' = respuestas \cup {x0}
  BY DEF Responder
<1>11. /\ ciclos'[c] = v /\ (nuevo # NadaA => ciclos'[nuevo] = w)
       /\ \A x \in Ciclos \ {c, nuevo} : ciclos'[x] = ciclos[x]
  BY <1>1, <1>2, <1>5
<1>12. ciclos' \in [Ciclos -> Ciclo \cup {NadaA}]
  <2>1. \A x \in Ciclos : ciclos'[x] \in Ciclo \cup {NadaA}
    BY <1>5, <1>7, <1>8, <1>11 DEF IInvA, TypeOKA
  <2>2. DOMAIN ciclos' = Ciclos /\ ciclos' = [x \in Ciclos |-> ciclos'[x]]
    OBVIOUS
  <2> QED BY <2>1, <2>2
<1>13. v # NadaA /\ (nuevo # NadaA => w # NadaA)
  BY <1>7, <1>8 DEF CierreAnualAssumption
<1> HIDE DEF K, v, w, x0
<1>14. /\ historico' \in [Anios -> Uso \cup {NadaA}] /\ historico'[ciclos[c].anio] = uso
       /\ \A a \in Anios : a # ciclos[c].anio => historico'[a] = historico[a]
  BY <1>1, <1>2, <1>3 DEF IInvA, TypeOKA
<1>15. ASSUME NEW r \in Reservas
       PROVE  /\ reservas'[r] \in ReservaA \cup {NadaA} /\ (reservas'[r] # NadaA <=> reservas[r] # NadaA)
              /\ r \notin ReservasDeCiclo(c) => reservas'[r] = reservas[r]
              /\ r \in ReservasDeCiclo(c) =>
                    /\ reservas[r] # NadaA /\ reservas'[r].borrada = c
                    /\ reservas'[r].materia = reservas[r].materia
                    /\ reservas'[r].anio = reservas[r].anio /\ reservas'[r].equipo = reservas[r].equipo
                    /\ reservas'[r].identidad = reservas[r].identidad
                    /\ reservas'[r].cancelada = reservas[r].cancelada
  <2>1. reservas' = [q \in Reservas |-> IF q \in ReservasDeCiclo(c) THEN [reservas[q] EXCEPT !.borrada = c]
                                       ELSE reservas[q]]
    BY DEF EliminarReservasDeCiclo
  <2>2. CASE r \notin ReservasDeCiclo(c)
    BY <2>1, <2>2 DEF IInvA, TypeOKA
  <2>3. CASE r \in ReservasDeCiclo(c)
    <3>1. reservas[r] \in ReservaA /\ reservas[r] # NadaA
      BY <2>3 DEF IInvA, TypeOKA, ReservasDeCiclo, BloqueosDelAnio, Viva
    <3> DEFINE q == [reservas[r] EXCEPT !.borrada = c]
    <3>2. /\ q \in ReservaA /\ q.borrada = c /\ q.materia = reservas[r].materia
          /\ q.anio = reservas[r].anio /\ q.equipo = reservas[r].equipo
          /\ q.identidad = reservas[r].identidad /\ q.cancelada = reservas[r].cancelada
      BY <1>1, <1>2, <3>1 DEF ReservaA
    <3>3. reservas'[r] = q
      BY <2>1, <2>3
    <3> HIDE DEF q
    <3> QED BY <2>3, <3>1, <3>2, <3>3 DEF CierreAnualAssumption
  <2> QED BY <2>2, <2>3
<1>16. reservas' \in [Reservas -> ReservaA \cup {NadaA}]
  <2>1. reservas' = [q \in Reservas |-> reservas'[q]]
    BY DEF EliminarReservasDeCiclo
  <2> QED BY <1>15, <2>1
<1>17. /\ lugares' \subseteq Lugar /\ materias' \subseteq Materia
       /\ \A l \in Lugar : l.ciclo # nuevo => (l \in lugares' <=> l \in lugares)
       /\ \A m \in Materia : m.lugar.ciclo # nuevo => (m \in materias' <=> m \in materias)
  <2>1. CASE nuevo = NadaA
    BY <2>1 DEF IInvA, TypeOKA
  <2>2. CASE nuevo # NadaA
    <3>1. /\ lugares' = lugares \cup {[l EXCEPT !.ciclo = nuevo] : l \in LugaresDe(c)}
          /\ materias' = materias \cup {Clonada(m, nuevo) : m \in {x \in materias : x.lugar.ciclo = c}}
      BY <2>2 DEF ClonarCicloA
    <3>2. ASSUME NEW l \in Lugar PROVE [l EXCEPT !.ciclo = nuevo] \in Lugar /\ [l EXCEPT !.ciclo = nuevo].ciclo = nuevo
      BY <1>5, <2>2 DEF Lugar
    <3>3. ASSUME NEW m \in Materia PROVE Clonada(m, nuevo) \in Materia /\ Clonada(m, nuevo).lugar.ciclo = nuevo
      <4> DEFINE l == [m.lugar EXCEPT !.ciclo = nuevo]
      <4>1. l \in Lugar /\ l.ciclo = nuevo
        BY <3>2 DEF Materia
      <4>2. Clonada(m, nuevo) = [m EXCEPT !.lugar = l]
        BY DEF Clonada
      <4> HIDE DEF l
      <4> QED BY <4>1, <4>2 DEF Materia
    <3>4. /\ lugares \subseteq lugares' /\ materias \subseteq materias'
          /\ \A l \in lugares' \ lugares : l \in Lugar /\ l.ciclo = nuevo
          /\ \A m \in materias' \ materias : m \in Materia /\ m.lugar.ciclo = nuevo
      <4>1. lugares \subseteq Lugar /\ LugaresDe(c) \subseteq lugares /\ materias \subseteq Materia
        BY DEF IInvA, TypeOKA, LugaresDe
      <4>2. ASSUME NEW l \in lugares', l \notin lugares PROVE l \in Lugar /\ l.ciclo = nuevo
        <5>1. PICK q \in LugaresDe(c) : l = [q EXCEPT !.ciclo = nuevo]
          BY <3>1, <4>2
        <5> QED BY <3>2, <4>1, <5>1
      <4>3. ASSUME NEW m \in materias', m \notin materias PROVE m \in Materia /\ m.lugar.ciclo = nuevo
        <5>1. PICK q \in materias : m = Clonada(q, nuevo)
          BY <3>1, <4>3
        <5> QED BY <3>3, <4>1, <5>1
      <4> QED BY <3>1, <4>2, <4>3
    <3> QED BY <3>4 DEF IInvA, TypeOKA
  <2> QED BY <2>1, <2>2
<1>18. TypeOKA'
  BY <1>12, <1>14, <1>16, <1>17 DEF IInvA, TypeOKA
<1>19. CicloPorAnio'
  <2>1. \A x \in Ciclos : nuevo # NadaA /\ Existe(x) => ciclos[x].anio # destino
    BY <1>1, <1>2 DEF ConAnio
  <2> QED BY <1>1, <1>2, <1>3, <1>5, <1>7, <1>8, <1>11, <2>1 DEF IInvA, CicloPorAnio, Existe, Activo
<1>20. /\ Cerrado(c)' /\ \A x \in Ciclos : Cerrado(x) => x # c /\ x # nuevo /\ Cerrado(x)'
       /\ \A x \in Ciclos : Cerrado(x)' => x = c \/ Cerrado(x)
  BY <1>3, <1>5, <1>6, <1>7, <1>8, <1>11, <1>13 DEF Cerrado, Existe
<1>21. ArchivadoSiCerrado'
  BY <1>3, <1>5, <1>6, <1>7, <1>8, <1>11 DEF IInvA, ArchivadoSiCerrado, Existe
<1>22. BorradasPorUnCierre'
  <2>1. ASSUME NEW r \in Reservas, reservas'[r] # NadaA, reservas'[r].borrada # NadaA
        PROVE  ciclos'[reservas'[r].borrada] # NadaA /\ ciclos'[reservas'[r].borrada].cierre # NadaA
    <3>1. CASE r \in ReservasDeCiclo(c)
      BY <1>15, <1>20, <3>1 DEF Cerrado, Existe
    <3>2. CASE r \notin ReservasDeCiclo(c)
      <4>1. reservas'[r] = reservas[r] /\ reservas[r] \in ReservaA
        BY <1>15, <2>1, <3>2
      <4>2. Cerrado(reservas[r].borrada) /\ reservas[r].borrada \in Ciclos
        BY <2>1, <4>1 DEF IInvA, BorradasPorUnCierre, ReservaA
      <4>3. Cerrado(reservas[r].borrada) /\ \A x \in Ciclos : Cerrado(x) => Cerrado(x)'
        BY <1>20, <4>2
      <4> QED BY <4>1, <4>2, <4>3 DEF Cerrado, Existe
    <3> QED BY <3>1, <3>2
  <2> QED BY <2>1 DEF BorradasPorUnCierre, Cerrado, Existe
<1>23. RespuestasDeSuCierre'
  <2>1. respuestas' \subseteq Respuesta
    BY <1>9, <1>10 DEF IInvA, RespuestasDeSuCierre
  <2>2. ASSUME NEW x \in respuestas'
        PROVE  /\ Cerrado(x.ciclo)'
               /\ ciclos'[x.ciclo].cierre.destino = x.destino /\ ciclos'[x.ciclo].cierre.nuevo = x.nuevo
    <3>1. CASE x = x0
      BY <1>6, <1>7, <1>9, <1>11, <1>20, <3>1
    <3>2. CASE x \in respuestas
      <4>1. x.ciclo \in Ciclos /\ Cerrado(x.ciclo)
        BY <3>2 DEF IInvA, RespuestasDeSuCierre, Respuesta
      <4>2. ciclos'[x.ciclo] = ciclos[x.ciclo] /\ Cerrado(x.ciclo)'
        BY <1>11, <1>20, <4>1
      <4> QED BY <3>2, <4>2 DEF IInvA, RespuestasDeSuCierre
    <3> QED BY <1>10, <3>1, <3>2
  <2> QED BY <2>1, <2>2 DEF RespuestasDeSuCierre, Cerrado, Existe
<1>24. ConCierre'
  BY DEF ConCierre
<1>25. SinPerdidas(c)'
  <2>1. Borradas(c)' = Computables(c)
    <3>1. \A r \in Reservas : reservas[r] # NadaA => reservas[r].borrada # c
      BY <1>3 DEF IInvA, BorradasPorUnCierre
    <3>2. ReservasDeCiclo(c) \subseteq Reservas
      BY DEF ReservasDeCiclo, BloqueosDelAnio
    <3> QED BY <1>15, <3>1, <3>2 DEF Borradas, Computables
  <2>2. Computables(c) \subseteq ReservasDeCiclo(c) /\ ReservasDeCiclo(c) \subseteq Reservas
    BY DEF Computables, ReservasDeCiclo, BloqueosDelAnio
  <2>3. ASSUME NEW e
        PROVE  {r \in Borradas(c)' : reservas'[r].equipo = e} = {r \in Computables(c) : reservas[r].equipo = e}
    BY <1>15, <2>1, <2>2
  <2>4. NormalesDe(Borradas(c))' = NormalesDe(Computables(c)) /\ NormalesDe(Computables(c)) \subseteq Computables(c)
    BY <1>15, <2>1, <2>2 DEF NormalesDe
  <2>5. ASSUME NEW d
        PROVE  {r \in NormalesDe(Borradas(c))' : reservas'[r].identidad = d}
                  = {r \in NormalesDe(Computables(c)) : reservas[r].identidad = d}
    BY <1>15, <2>2, <2>4
  <2>6. historico'[ciclos'[c].anio] = uso
    BY <1>7, <1>11, <1>14
  <2>7. ASSUME NEW e \in Equipos
        PROVE  uso.equipos[e] = Cardinality({r \in Borradas(c)' : reservas'[r].equipo = e})
    BY <1>1, <1>2, <2>3 DEF Consistente, UsoDeEquipos
  <2>8. ASSUME NEW d \in Docentes
        PROVE  uso.docentes[d] = Cardinality({r \in NormalesDe(Borradas(c))' : reservas'[r].identidad = d})
    BY <1>1, <1>2, <2>5 DEF Consistente, UsoDeDocentes
  <2>9. ReservasDeCiclo(c)' = {}
    <3>1. SUFFICES ASSUME NEW r \in Reservas, r \in ReservasDeCiclo(c)' PROVE FALSE
      BY DEF ReservasDeCiclo, BloqueosDelAnio
    <3>2. ciclos'[c].anio = ciclos[c].anio
      BY <1>7, <1>11
    <3>3. CASE r \in ReservasDeCiclo(c)
      BY <1>3, <1>15, <3>1, <3>3 DEF ReservasDeCiclo, BloqueosDelAnio, Viva
    <3>4. CASE r \notin ReservasDeCiclo(c)
      BY <1>15, <3>1, <3>2, <3>4 DEF ReservasDeCiclo, BloqueosDelAnio, Viva
    <3> QED BY <3>3, <3>4
  <2> QED BY <2>6, <2>7, <2>8, <2>9 DEF SinPerdidas
<1>26. ASSUME NEW x \in Ciclos, Cerrado(x) PROVE SinPerdidas(x)'
  <2>1. x # c /\ x # nuevo /\ ciclos'[x] = ciclos[x] /\ x # NadaA
    BY <1>11, <1>20, <1>26 DEF CierreAnualAssumption
  <2>2. ciclos[x].anio # ciclos[c].anio /\ ciclos[x].anio \in Anios
    BY <1>1, <1>2, <1>26, <2>1 DEF IInvA, CicloPorAnio, Cerrado, Existe, Activo, TypeOKA, Ciclo
  <2>3. SinPerdidas(x)
    BY <1>26, SinPerdidasDeCadaCierre DEF IInvA
  <2>4. \A r \in ReservasDeCiclo(c) : r \in Reservas /\ reservas[r].borrada = NadaA
    BY DEF ReservasDeCiclo, BloqueosDelAnio, Viva
  <2>5. Borradas(x)' = Borradas(x) /\ \A r \in Borradas(x) : reservas'[r] = reservas[r]
    BY <1>15, <2>1, <2>4 DEF Borradas
  <2>6. ReservasDeCiclo(x)' \subseteq ReservasDeCiclo(x)
    <3>1. SUFFICES ASSUME NEW r \in Reservas, r \in ReservasDeCiclo(x)' PROVE r \in ReservasDeCiclo(x)
      BY DEF ReservasDeCiclo, BloqueosDelAnio
    <3>2. r \notin ReservasDeCiclo(c)
      BY <1>3, <1>15, <3>1 DEF ReservasDeCiclo, BloqueosDelAnio, Viva
    <3> QED BY <1>15, <2>1, <3>1, <3>2 DEF ReservasDeCiclo, BloqueosDelAnio, Viva
  <2> QED BY <2>1, <2>2, <2>3, <2>5, <2>6, <1>14, ConservaLoSellado
<1>27. CierreSinPerdidas'
  <2>1. \A x \in Ciclos : Cerrado(x)' => SinPerdidas(x)'
    BY <1>20, <1>25, <1>26
  <2> QED BY <2>1 DEF CierreSinPerdidas, SinPerdidas, Cerrado
<1>28. ArchivoInmutable
  <2>1. SUFFICES ASSUME NEW x \in Ciclos, Existe(x), ciclos[x].archivado
                 PROVE  /\ ciclos'[x] = ciclos[x]
                        /\ {l \in lugares' : l.ciclo = x} = {l \in lugares : l.ciclo = x}
                        /\ {m \in materias' : m.lugar.ciclo = x} = {m \in materias : m.lugar.ciclo = x}
                        /\ historico'[ciclos[x].anio] = historico[ciclos[x].anio]
    BY DEF ArchivoInmutable
  <2>2. Cerrado(x)
    BY <2>1 DEF IInvA, ArchivadoSiCerrado, Cerrado
  <2>3. x # c /\ x # nuevo /\ ciclos'[x] = ciclos[x]
    BY <1>11, <1>20, <2>2
  <2>4. ciclos[x].anio # ciclos[c].anio /\ ciclos[x].anio \in Anios
    BY <1>1, <1>2, <2>1, <2>3 DEF IInvA, CicloPorAnio, Existe, Activo, TypeOKA, Ciclo
  <2>5. {l \in lugares' : l.ciclo = x} = {l \in lugares : l.ciclo = x}
    BY <1>17, <2>3 DEF IInvA, TypeOKA
  <2>6. {m \in materias' : m.lugar.ciclo = x} = {m \in materias : m.lugar.ciclo = x}
    BY <1>17, <2>3 DEF IInvA, TypeOKA
  <2> QED BY <1>14, <2>3, <2>4, <2>5, <2>6
<1> QED BY <1>18, <1>19, <1>21, <1>22, <1>23, <1>24, <1>27, <1>28 DEF IInvA

LEMMA PasoConfirmarCierre ==
    ASSUME CierreAnualAssumption, IInvA, ConfirmarCierre PROVE IInvA' /\ ArchivoInmutable
<1>1. PICK nuevo \in Ciclos \cup {NadaA} :
         /\ IF cierre.destino = NadaA THEN nuevo = NadaA ELSE nuevo # NadaA /\ ~Existe(nuevo)
         /\ historico' = [historico EXCEPT ![ciclos[cierre.ciclo].anio] = cierre.uso]
         /\ EliminarReservasDeCiclo(cierre.ciclo)
         /\ ciclos' = [x \in Ciclos |->
               CASE x = cierre.ciclo -> ArchivarCiclo(cierre.ciclo, [destino |-> cierre.destino, nuevo |-> nuevo])
                 [] x = nuevo -> [anio |-> cierre.destino, archivado |-> FALSE, cierre |-> NadaA]
                 [] OTHER -> ciclos[x]]
         /\ IF nuevo = NadaA THEN UNCHANGED <<lugares, materias>> ELSE ClonarCicloA(cierre.ciclo, nuevo)
         /\ Responder(cierre.ciclo, cierre.destino, nuevo)
  BY DEF ConfirmarCierre
<1>2. cierre # NadaA /\ cierre.paso = "sellado" /\ cierre' = NadaA /\ UNCHANGED cuentasA
  BY DEF ConfirmarCierre
<1>3. PICK c, destino, uso : c = cierre.ciclo /\ destino = cierre.destino /\ uso = cierre.uso
  OBVIOUS
<1> QED BY <1>1, <1>2, <1>3, ConfirmaUnCierre

LEMMA PasoA ==
    ASSUME CierreAnualAssumption, IInvA, [NextA]_varsA
    PROVE  IInvA' /\ CierreIrrepetible /\ ArchivoInmutable
<1>1. ASSUME Academico PROVE IInvA' /\ ArchivoInmutable
  BY <1>1, PasoEstructura, PasoCiclos DEF Academico
<1>2. ASSUME Cierres PROVE IInvA' /\ ArchivoInmutable
  BY <1>2, PasoAntesDeConfirmar, PasoConfirmarCierre DEF Cierres
<1>3. ASSUME UNCHANGED varsA PROVE IInvA' /\ ArchivoInmutable
  <2>1. ConCierre'
    BY <1>3 DEF varsA, IInvA, ConCierre, Activo, Existe, ConAnio, Consistente, UsoDeEquipos, UsoDeDocentes,
               Computables, NormalesDe, ReservasDeCiclo, BloqueosDelAnio, Viva
  <2> QED BY <1>3, <2>1, MismasRespuestas, CambiaElCierre DEF varsA
<1>4. IInvA' /\ ArchivoInmutable
  BY <1>1, <1>2, <1>3, PasoEntorno DEF NextA
<1> QED BY <1>4, UnaRespuestaPorCiclo DEF IInvA

LEMMA InicioA == ASSUME CierreAnualAssumption, InitA PROVE IInvA
<1>1. TypeOKA
  BY DEF InitA, TypeOKA
<1>2. \A c \in Ciclos : ~Existe(c)
  BY DEF InitA, Existe
<1>3. CicloPorAnio /\ ArchivadoSiCerrado /\ CierreSinPerdidas
  BY <1>2 DEF CicloPorAnio, ArchivadoSiCerrado, CierreSinPerdidas
<1>4. BorradasPorUnCierre /\ RespuestasDeSuCierre /\ ConCierre
  BY DEF InitA, BorradasPorUnCierre, RespuestasDeSuCierre, ConCierre
<1> QED BY <1>1, <1>3, <1>4 DEF IInvA

\* At most one cycle for a year, archived when and only when it was closed; what is
\* deleted was deleted by a closing that is kept, and the closing that is running still
\* has its year open (application/service.go, cierre.go of internal/academic).
THEOREM CierreCoherente == ASSUME CierreAnualAssumption PROVE SpecA => []IInvA
<1>1. InitA => IInvA
  BY InicioA
<1>2. IInvA /\ [NextA]_varsA => IInvA'
  BY PasoA
<1> QED BY <1>1, <1>2, PTL DEF SpecA

\* Whatever accounts are deleted meanwhile, every reservation that a closing deletes and
\* that counted is in the sealed use of its year.
THEOREM CierreSinPerdidasSiempre == ASSUME CierreAnualAssumption PROVE SpecA => []CierreSinPerdidas
<1>1. IInvA => CierreSinPerdidas
  BY DEF IInvA
<1> QED BY <1>1, CierreCoherente, PTL

\* A closing is answered once and for all, and nothing of a closed year changes again.
THEOREM AnioCerradoSiempre == ASSUME CierreAnualAssumption PROVE SpecA => AnioCerrado
<1>1. IInvA /\ [NextA]_varsA => CierreIrrepetible /\ ArchivoInmutable
  BY PasoA
<1>2. SpecA => [][CierreIrrepetible /\ ArchivoInmutable]_varsA
  BY <1>1, CierreCoherente, PTL DEF SpecA
<1> QED BY <1>2 DEF AnioCerrado
=================================================================================
