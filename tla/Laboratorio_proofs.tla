--------------------------- MODULE Laboratorio_proofs ---------------------------
(* Proofs about the laboratory, as MCLaboratorio puts it together: the carts and *)
(* machines of Inventario, the threads of Buzon, the passwords of                *)
(* CuentasDeEquipo, the hours of Jornada and the licences of Licencias, each for *)
(* any number of rows, people and requests.                                      *)
EXTENDS Licencias, Inventario, CuentasDeEquipo, Jornada, Buzon, Ordenadas_proofs,
        SequenceTheorems, FiniteSetTheorems, TLAPS

-----------------------------------------------------------------------------
(* Inventario                                                                *)

\* ux_carro_nombre and ux_equipo_identificador, said of every pair of rows.
CarrosDistintos ==
    \A c, o \in CarrosCargados :
      (c # o /\ ~carros[c].baja /\ ~carros[o].baja) => carros[c].nombre # carros[o].nombre

ZocalosDistintos ==
    \A e, o \in EquiposCargados :
      (/\ e # o /\ ~equipos[e].baja /\ ~equipos[o].baja
       /\ equipos[e].carro # Vacio /\ equipos[e].carro = equipos[o].carro)
      => equipos[e].identificador # equipos[o].identificador

\* No operation takes a machine out of the carts or deletes a cart.
EnCarroCargado ==
    \A e \in EquiposCargados : equipos[e].carro # Vacio => equipos[e].carro \in CarrosCargados

\* Only what was born in a cart has a number, so nothing else passes Identificable there.
SueltoSinZocalo ==
    \A e \in EquiposCargados : equipos[e].carro = Vacio => equipos[e].identificador = Vacio

\* ux_equipo_suelto_nombre, and what chk_equipo_identificable asks of what is loose.
NombresSueltosDistintos ==
    /\ \A e \in EquiposCargados : equipos[e].carro = Vacio => equipos[e].nombre # Vacio
    /\ \A e, o \in EquiposCargados :
         (/\ e # o /\ ~equipos[e].baja /\ ~equipos[o].baja
          /\ equipos[e].carro = Vacio /\ equipos[o].carro = Vacio)
         => equipos[e].nombre # equipos[o].nombre

IInvI ==
    /\ TypeOKI
    /\ CarrosDistintos /\ ZocalosDistintos /\ NombresSueltosDistintos
    /\ EnCarroCargado /\ SueltoSinZocalo
    /\ NingunEquipoInvisible /\ DeCarroConSerie

\* What a row of equipo must be, whoever writes it: in a cart that exists and, if it
\* circulates, is not retired; with a serial number there and without a place elsewhere.
BienPuesto(r) ==
    /\ r \in Equipo
    /\ r.carro # Vacio => /\ r.carro \in CarrosCargados
                          /\ ~r.baja => ~carros[r.carro].baja
                          /\ r.serie # Vacio
    /\ r.carro = Vacio => r.identificador = Vacio

-----------------------------------------------------------------------------
(* The beginning                                                             *)

\* The tables start empty.
LEMMA InicioI == ASSUME InventarioAssumption, InitI PROVE IInvI
<1>1. TypeOKI
  BY DEF InventarioAssumption, InitI, TypeOKI
<1>2. CarrosCargados = {} /\ EquiposCargados = {}
  BY DEF InitI, CarrosCargados, EquiposCargados
<1>3. NingunEquipoInvisible
  BY <1>2 DEF NingunEquipoInvisible, EnCirculacion
<1> QED
  BY <1>1, <1>2, <1>3 DEF IInvI, CarrosDistintos, ZocalosDistintos, NombresSueltosDistintos, EnCarroCargado,
     SueltoSinZocalo, DeCarroConSerie

-----------------------------------------------------------------------------
(* A row of a table is written                                               *)

\* The rows of the machines that stay in circulation are what they were or what was written.
LEMMA SeGuardaUnEquipo ==
    ASSUME InventarioAssumption, IInvI, cambiosI' \in 0 .. MaxCambiosI, conReservas' \subseteq Equipos,
           NEW e \in Equipos, NEW r, BienPuesto(r), GuardarEquipo(e, r)
    PROVE  IInvI'
<1> USE DEF GuardarEquipo
<1>1. r \in Equipo /\ r # Vacio /\ equipos \in [Equipos -> Equipo \cup {Vacio}]
  BY DEF BienPuesto, InventarioAssumption, IInvI, TypeOKI
<1>2. /\ equipos' \in [Equipos -> Equipo \cup {Vacio}]
      /\ equipos'[e] = r
      /\ \A o \in Equipos \ {e} : equipos'[o] = equipos[o]
      /\ carros' = carros
  BY <1>1
<1>3. TypeOKI'
  BY <1>2 DEF IInvI, TypeOKI
<1>4. EquiposCargados' = EquiposCargados \cup {e}
  BY <1>1, <1>2 DEF EquiposCargados
<1>5. CarrosCargados' = CarrosCargados
  BY <1>2 DEF CarrosCargados
<1>6. CarrosDistintos'
  BY <1>2, <1>5 DEF IInvI, CarrosDistintos
<1>7. ZocalosDistintos'
  <2>1. \A o \in Equipos \ {e} :
           (/\ equipos'[o] # Vacio /\ ~equipos'[o].baja /\ ~r.baja
            /\ r.carro # Vacio /\ r.carro = equipos'[o].carro)
           => r.identificador # equipos'[o].identificador
    BY <1>2 DEF SinRepetir
  <2>2. ASSUME NEW a \in EquiposCargados', NEW o \in EquiposCargados', a # o,
               ~equipos'[a].baja, ~equipos'[o].baja,
               equipos'[a].carro # Vacio, equipos'[a].carro = equipos'[o].carro
        PROVE  equipos'[a].identificador # equipos'[o].identificador
    <3>1. CASE a = e
      BY <1>2, <2>1, <2>2, <3>1 DEF EquiposCargados
    <3>2. CASE o = e
      BY <1>2, <2>1, <2>2, <3>2 DEF EquiposCargados
    <3>3. CASE a # e /\ o # e
      BY <1>2, <1>4, <2>2, <3>3 DEF IInvI, ZocalosDistintos, EquiposCargados
    <3> QED BY <3>1, <3>2, <3>3
  <2> QED BY <2>2 DEF ZocalosDistintos
<1>8. EnCarroCargado' /\ SueltoSinZocalo' /\ DeCarroConSerie'
  BY <1>2, <1>4, <1>5 DEF IInvI, EnCarroCargado, SueltoSinZocalo, DeCarroConSerie, BienPuesto,
     EquiposCargados
<1>9. NingunEquipoInvisible'
  BY <1>2, <1>4, <1>5 DEF IInvI, NingunEquipoInvisible, EnCirculacion, BienPuesto, EquiposCargados
<1>10. NombresSueltosDistintos'
  <2>1. \A o \in Equipos \ {e} :
           (/\ equipos'[o] # Vacio /\ ~equipos'[o].baja /\ ~r.baja
            /\ r.carro = Vacio /\ equipos'[o].carro = Vacio) => r.nombre # equipos'[o].nombre
    BY <1>2 DEF SinRepetir
  <2>2. r.carro = Vacio => r.nombre # Vacio
    BY DEF Identificable
  <2>3. ASSUME NEW a \in EquiposCargados', equipos'[a].carro = Vacio PROVE equipos'[a].nombre # Vacio
    BY <1>2, <1>4, <2>2, <2>3 DEF IInvI, NombresSueltosDistintos
  <2>4. ASSUME NEW a \in EquiposCargados', NEW o \in EquiposCargados', a # o,
               ~equipos'[a].baja, ~equipos'[o].baja,
               equipos'[a].carro = Vacio, equipos'[o].carro = Vacio
        PROVE  equipos'[a].nombre # equipos'[o].nombre
    <3>1. CASE a = e
      BY <1>2, <2>1, <2>4, <3>1 DEF EquiposCargados
    <3>2. CASE o = e
      BY <1>2, <2>1, <2>4, <3>2 DEF EquiposCargados
    <3>3. CASE a # e /\ o # e
      BY <1>2, <1>4, <2>4, <3>3 DEF IInvI, NombresSueltosDistintos, EquiposCargados
    <3> QED BY <3>1, <3>2, <3>3
  <2> QED BY <2>3, <2>4 DEF NombresSueltosDistintos
<1> QED BY <1>3, <1>6, <1>7, <1>8, <1>9, <1>10 DEF IInvI

\* A cart that is left retired must be one whose machines are all retired.
LEMMA SeGuardaUnCarro ==
    ASSUME InventarioAssumption, IInvI, cambiosI' \in 0 .. MaxCambiosI,
           NEW c \in Carros, NEW r \in Carro, GuardarCarro(c, r),
           r.baja => \A e \in ListarEquiposPorCarro(c) : equipos[e].baja
    PROVE  IInvI'
<1> USE DEF GuardarCarro
<1>1. r # Vacio /\ carros \in [Carros -> Carro \cup {Vacio}]
  BY DEF InventarioAssumption, IInvI, TypeOKI
<1>2. /\ carros' \in [Carros -> Carro \cup {Vacio}]
      /\ carros'[c] = r
      /\ \A o \in Carros \ {c} : carros'[o] = carros[o]
      /\ equipos' = equipos
  BY <1>1
<1>3. TypeOKI'
  BY <1>2 DEF IInvI, TypeOKI
<1>4. EquiposCargados' = EquiposCargados
  BY <1>2 DEF EquiposCargados
<1>5. CarrosCargados' = CarrosCargados \cup {c}
  BY <1>1, <1>2 DEF CarrosCargados
<1>6. CarrosDistintos'
  <2>1. \A o \in Carros \ {c} :
           (carros'[o] # Vacio /\ ~carros'[o].baja /\ ~r.baja) => carros'[o].nombre # r.nombre
    BY <1>2 DEF NombreLibre
  <2>2. ASSUME NEW a \in CarrosCargados', NEW o \in CarrosCargados', a # o,
               ~carros'[a].baja, ~carros'[o].baja
        PROVE  carros'[a].nombre # carros'[o].nombre
    <3>1. CASE a = c
      BY <1>2, <2>1, <2>2, <3>1 DEF CarrosCargados
    <3>2. CASE o = c
      BY <1>2, <2>1, <2>2, <3>2 DEF CarrosCargados
    <3>3. CASE a # c /\ o # c
      BY <1>2, <1>5, <2>2, <3>3 DEF IInvI, CarrosDistintos, CarrosCargados
    <3> QED BY <3>1, <3>2, <3>3
  <2> QED BY <2>2 DEF CarrosDistintos
<1>7. ZocalosDistintos' /\ NombresSueltosDistintos' /\ SueltoSinZocalo' /\ DeCarroConSerie'
  BY <1>2, <1>4 DEF IInvI, ZocalosDistintos, NombresSueltosDistintos, SueltoSinZocalo, DeCarroConSerie
<1>8. EnCarroCargado'
  BY <1>2, <1>4, <1>5 DEF IInvI, EnCarroCargado
<1>9. NingunEquipoInvisible'
  <2>1. ASSUME NEW e \in Equipos, EnCirculacion(e)', equipos'[e].carro # Vacio
        PROVE  ~carros'[equipos'[e].carro].baja
    <3>1. e \in EquiposCargados /\ ~equipos[e].baja /\ equipos[e].carro # Vacio
      BY <1>2, <1>4, <2>1 DEF EnCirculacion
    <3>2. equipos[e].carro \in CarrosCargados /\ ~carros[equipos[e].carro].baja
      BY <3>1 DEF IInvI, EnCarroCargado, NingunEquipoInvisible, EnCirculacion
    <3>3. CASE equipos[e].carro = c
      BY <1>2, <3>1, <3>3 DEF ListarEquiposPorCarro, Carro
    <3>4. CASE equipos[e].carro # c
      BY <1>2, <3>2, <3>4 DEF CarrosCargados
    <3> QED BY <3>3, <3>4
  <2> QED BY <2>1 DEF NingunEquipoInvisible
<1> QED BY <1>3, <1>6, <1>7, <1>8, <1>9 DEF IInvI

-----------------------------------------------------------------------------
(* Every operation                                                           *)

\* The bound on the changes is kept by whoever counts one.
LEMMA CuentaCambios == ASSUME InventarioAssumption, TypeOKI, CambiaI PROVE cambiosI' \in 0 .. MaxCambiosI
BY DEF InventarioAssumption, TypeOKI, CambiaI

\* The carts.
LEMMA PasoDeCarros ==
    ASSUME InventarioAssumption, IInvI,
           PeticionesDeCarros \/ EdicionesDeCarros \/ RetirosDeCarros
    PROVE  IInvI'
<1>1. TypeOKI
  BY DEF IInvI
<1>2. ASSUME NEW c \in Carros, NEW n \in NombresCarro, CrearCarro(c, n)
      PROVE  IInvI'
  <2>1. [nombre |-> n, baja |-> FALSE] \in Carro
    BY DEF Carro
  <2> QED BY <1>1, <1>2, <2>1, CuentaCambios, SeGuardaUnCarro DEF CrearCarro
<1>3. ASSUME NEW c \in Carros, NEW n \in NombresCarro, EditarCarro(c, n)
      PROVE  IInvI'
  <2> DEFINE r == [carros[c] EXCEPT !.nombre = n]
  <2>1. carros[c] \in Carro /\ c \in CarrosCargados
    BY <1>1, <1>3 DEF TypeOKI, EditarCarro, CarrosCargados
  <2>2. r \in Carro /\ r.baja = carros[c].baja
    BY <2>1 DEF Carro
  <2>3. carros[c].baja => \A e \in ListarEquiposPorCarro(c) : equipos[e].baja
    BY <2>1, InventarioAssumption DEF ListarEquiposPorCarro, EquiposCargados, CarrosCargados, IInvI,
       NingunEquipoInvisible, EnCirculacion, InventarioAssumption
  <2>4. GuardarCarro(c, r) /\ cambiosI' \in 0 .. MaxCambiosI
    BY <1>1, <1>3, CuentaCambios DEF EditarCarro
  <2> HIDE DEF r
  <2> QED BY <2>2, <2>3, <2>4, SeGuardaUnCarro
<1>4. ASSUME NEW c \in Carros, DarDeBajaCarro(c)
      PROVE  IInvI'
  <2>1. carros[c] \in Carro
    BY <1>1, <1>4 DEF TypeOKI, DarDeBajaCarro, CarrosCargados
  <2>2. [carros[c] EXCEPT !.baja = TRUE] \in Carro
    BY <2>1 DEF Carro
  <2> QED BY <1>1, <1>4, <2>2, CuentaCambios, SeGuardaUnCarro DEF DarDeBajaCarro
<1>5. ASSUME NEW c \in Carros, ReactivarCarro(c)
      PROVE  IInvI'
  <2>1. carros[c] \in Carro
    BY <1>1, <1>5 DEF TypeOKI, ReactivarCarro, CarrosCargados
  <2>2. /\ [carros[c] EXCEPT !.baja = FALSE] \in Carro
        /\ ~[carros[c] EXCEPT !.baja = FALSE].baja
    BY <2>1 DEF Carro
  <2> QED BY <1>1, <1>5, <2>2, CuentaCambios, SeGuardaUnCarro DEF ReactivarCarro
<1> QED BY <1>2, <1>3, <1>4, <1>5 DEF PeticionesDeCarros, EdicionesDeCarros, RetirosDeCarros

\* A machine that is created. One of a cart is born with its number and its serial number,
\* in a cart that is not retired.
LEMMA PasoDeAltas ==
    ASSUME InventarioAssumption, IInvI, AltasEnCarro \/ AltasSueltas
    PROVE  IInvI'
<1>1. TypeOKI /\ conReservas \subseteq Equipos
  BY DEF IInvI, TypeOKI
<1>2. ASSUME NEW e \in Equipos, NEW c \in Carros, NEW z \in Zocalos, NEW s \in Series,
             CrearEquipoDeCarro(e, c, z, s)
      PROVE  IInvI'
  <2> DEFINE r == NuevoEquipoDeCarro(c, z, s)
  <2>1. r \in Equipo /\ r.carro = c /\ r.serie = s /\ ~r.baja
    BY DEF NuevoEquipoDeCarro, Equipo, EstadosEquipo
  <2>2. BienPuesto(r)
    BY <1>2, <2>1 DEF CrearEquipoDeCarro, VerificarCarroDisponible, BienPuesto, InventarioAssumption
  <2>3. GuardarEquipo(e, r) /\ cambiosI' \in 0 .. MaxCambiosI /\ conReservas' \subseteq Equipos
    BY <1>1, <1>2, CuentaCambios DEF CrearEquipoDeCarro
  <2> HIDE DEF r
  <2> QED BY <2>2, <2>3, SeGuardaUnEquipo
<1>3. ASSUME NEW e \in Equipos, NEW n \in Nombres, NEW s \in Series \cup {Vacio}, NEW b \in BOOLEAN,
             CrearEquipo(e, n, s, b)
      PROVE  IInvI'
  <2> DEFINE r == NuevoEquipoSuelto(n, s, b)
  <2>1. r \in Equipo /\ r.carro = Vacio /\ r.identificador = Vacio
    BY DEF NuevoEquipoSuelto, Equipo, EstadosEquipo
  <2>2. BienPuesto(r)
    BY <2>1 DEF BienPuesto
  <2>3. GuardarEquipo(e, r) /\ cambiosI' \in 0 .. MaxCambiosI /\ conReservas' \subseteq Equipos
    BY <1>1, <1>3, CuentaCambios DEF CrearEquipo
  <2> HIDE DEF r
  <2> QED BY <2>2, <2>3, SeGuardaUnEquipo
<1> QED BY <1>2, <1>3 DEF AltasEnCarro, AltasSueltas

\* A row that is in the table is well placed, but perhaps for a new state of its own.
LEMMA YaBienPuesto ==
    ASSUME InventarioAssumption, IInvI, NEW e \in EquiposCargados
    PROVE  BienPuesto(equipos[e]) /\ e \in Equipos
BY DEF IInvI, TypeOKI, EquiposCargados, BienPuesto, EnCarroCargado, NingunEquipoInvisible,
   EnCirculacion, DeCarroConSerie, SueltoSinZocalo

\* A machine is moved, edited or renumbered. Only what has a number can be in a cart, and what is in a
\* cart keeps its serial number.
LEMMA PasoDeEdiciones ==
    ASSUME InventarioAssumption, IInvI, EdicionesDeEquipos
    PROVE  IInvI'
<1>1. TypeOKI /\ conReservas \subseteq Equipos
  BY DEF IInvI, TypeOKI
<1>2. ASSUME NEW e \in Equipos, NEW c \in Carros, MoverACarro(e, c)
      PROVE  IInvI'
  <2> DEFINE r == [equipos[e] EXCEPT !.carro = c]
  <2>1. e \in EquiposCargados /\ BienPuesto(equipos[e]) /\ equipos[e] \in Equipo
    BY <1>2, YaBienPuesto DEF MoverACarro, BienPuesto
  <2>2. /\ r \in Equipo /\ r.carro = c
        /\ r.identificador = equipos[e].identificador /\ r.serie = equipos[e].serie
    BY <2>1 DEF Equipo
  <2>3. GuardarEquipo(e, r) /\ cambiosI' \in 0 .. MaxCambiosI /\ conReservas' \subseteq Equipos
    BY <1>1, <1>2, CuentaCambios DEF MoverACarro
  <2>4. c \in CarrosCargados /\ ~carros[c].baja /\ c # Vacio
    BY <1>2 DEF MoverACarro, VerificarCarroDisponible, InventarioAssumption
  <2> HIDE DEF r
  <2>5. equipos[e].carro # Vacio
    BY <2>1, <2>2, <2>3, <2>4 DEF GuardarEquipo, Identificable, BienPuesto
  <2>6. BienPuesto(r)
    BY <2>1, <2>2, <2>4, <2>5 DEF BienPuesto
  <2> QED BY <2>3, <2>6, SeGuardaUnEquipo
<1>3. ASSUME NEW e \in Equipos, NEW n \in Nombres \cup {Vacio}, NEW s \in Series \cup {Vacio},
             NEW b \in BOOLEAN, EditarEquipo(e, n, s, b)
      PROVE  IInvI'
  <2> DEFINE r == [equipos[e] EXCEPT !.nombre = n, !.serie = s, !.reservable = b]
  <2>1. e \in EquiposCargados /\ BienPuesto(equipos[e]) /\ equipos[e] \in Equipo
    BY <1>3, YaBienPuesto DEF EditarEquipo, BienPuesto
  <2>2. /\ r \in Equipo /\ r.carro = equipos[e].carro /\ r.baja = equipos[e].baja
        /\ r.identificador = equipos[e].identificador /\ r.serie = s
    BY <2>1 DEF Equipo
  <2>3. GuardarEquipo(e, r) /\ cambiosI' \in 0 .. MaxCambiosI /\ conReservas' \subseteq Equipos
    BY <1>1, <1>3, CuentaCambios DEF EditarEquipo
  <2>4. s = Vacio => equipos[e].carro = Vacio
    BY <1>3 DEF EditarEquipo
  <2> HIDE DEF r
  <2>5. BienPuesto(r)
    BY <2>1, <2>2, <2>4 DEF BienPuesto
  <2> QED BY <2>3, <2>5, SeGuardaUnEquipo
<1>4. ASSUME NEW e \in Equipos, NEW z \in Zocalos, NEW n \in Zocalos, RenumerarEquipo(e, z, n)
      PROVE  IInvI'
  <2> DEFINE r == [equipos[e] EXCEPT !.identificador = n]
  <2>1. e \in EquiposCargados /\ BienPuesto(equipos[e]) /\ equipos[e] \in Equipo /\ equipos[e].carro # Vacio
    BY <1>4, YaBienPuesto DEF RenumerarEquipo, EnCirculacion, BienPuesto
  <2>2. /\ r \in Equipo /\ r.carro = equipos[e].carro /\ r.baja = equipos[e].baja
        /\ r.serie = equipos[e].serie
    BY <2>1 DEF Equipo
  <2>3. GuardarEquipo(e, r) /\ cambiosI' \in 0 .. MaxCambiosI /\ conReservas' \subseteq Equipos
    BY <1>1, <1>4, CuentaCambios DEF RenumerarEquipo
  <2> HIDE DEF r
  <2>4. BienPuesto(r)
    BY <2>1, <2>2 DEF BienPuesto
  <2> QED BY <2>3, <2>4, SeGuardaUnEquipo
<1> QED BY <1>2, <1>3, <1>4 DEF EdicionesDeEquipos

\* A machine changes of state, is retired or comes back. Only coming back asks for its cart.
LEMMA PasoDeCirculacion ==
    ASSUME InventarioAssumption, IInvI, CambiosDeEstado \/ BajasDeEquipos \/ Reactivaciones
    PROVE  IInvI'
<1>1. TypeOKI /\ conReservas \subseteq Equipos
  BY DEF IInvI, TypeOKI
<1>2. ASSUME NEW e \in Equipos, NEW x \in EstadosEquipo, CambiarEstadoEquipo(e, x)
      PROVE  IInvI'
  <2> DEFINE r == [equipos[e] EXCEPT !.estado = x]
  <2>1. BienPuesto(equipos[e]) /\ equipos[e] \in Equipo
    BY <1>2, YaBienPuesto DEF CambiarEstadoEquipo, BienPuesto
  <2>2. /\ r \in Equipo /\ r.carro = equipos[e].carro /\ r.baja = equipos[e].baja
        /\ r.identificador = equipos[e].identificador /\ r.serie = equipos[e].serie
    BY <2>1 DEF Equipo
  <2>3. GuardarEquipo(e, r) /\ cambiosI' \in 0 .. MaxCambiosI /\ conReservas' \subseteq Equipos
    BY <1>1, <1>2, CuentaCambios DEF CambiarEstadoEquipo, CancelarReservasFuturasDeEquipo
  <2> HIDE DEF r
  <2>4. BienPuesto(r)
    BY <2>1, <2>2 DEF BienPuesto
  <2> QED BY <2>3, <2>4, SeGuardaUnEquipo
<1>3. ASSUME NEW e \in Equipos, DarDeBajaEquipo(e)
      PROVE  IInvI'
  <2> DEFINE r == [equipos[e] EXCEPT !.baja = TRUE]
  <2>1. BienPuesto(equipos[e]) /\ equipos[e] \in Equipo
    BY <1>3, YaBienPuesto DEF DarDeBajaEquipo, BienPuesto
  <2>2. /\ r \in Equipo /\ r.carro = equipos[e].carro /\ r.baja
        /\ r.identificador = equipos[e].identificador /\ r.serie = equipos[e].serie
    BY <2>1 DEF Equipo
  <2>3. GuardarEquipo(e, r) /\ cambiosI' \in 0 .. MaxCambiosI /\ conReservas' \subseteq Equipos
    BY <1>1, <1>3, CuentaCambios DEF DarDeBajaEquipo, CancelarReservasFuturasDeEquipo
  <2> HIDE DEF r
  <2>4. BienPuesto(r)
    BY <2>1, <2>2 DEF BienPuesto
  <2> QED BY <2>3, <2>4, SeGuardaUnEquipo
<1>4. ASSUME NEW e \in Equipos, ReactivarEquipo(e)
      PROVE  IInvI'
  <2> DEFINE r == [equipos[e] EXCEPT !.baja = FALSE]
  <2>1. BienPuesto(equipos[e]) /\ equipos[e] \in Equipo
    BY <1>4, YaBienPuesto DEF ReactivarEquipo, BienPuesto
  <2>2. /\ r \in Equipo /\ r.carro = equipos[e].carro
        /\ r.identificador = equipos[e].identificador /\ r.serie = equipos[e].serie
    BY <2>1 DEF Equipo
  <2>3. GuardarEquipo(e, r) /\ cambiosI' \in 0 .. MaxCambiosI /\ conReservas' \subseteq Equipos
    BY <1>1, <1>4, CuentaCambios DEF ReactivarEquipo
  <2>4. equipos[e].carro # Vacio => ~carros[equipos[e].carro].baja
    BY <1>4 DEF ReactivarEquipo, VerificarCarroDisponible
  <2> HIDE DEF r
  <2>5. BienPuesto(r)
    BY <2>1, <2>2, <2>4 DEF BienPuesto
  <2> QED BY <2>3, <2>5, SeGuardaUnEquipo
<1> QED BY <1>2, <1>3, <1>4 DEF CambiosDeEstado, BajasDeEquipos, Reactivaciones

\* What leaves both tables alone.
LEMMA PasoAjeno ==
    ASSUME InventarioAssumption, IInvI, TypeOKI', UNCHANGED <<carros, equipos>>
    PROVE  IInvI'
BY DEF IInvI, CarrosDistintos, ZocalosDistintos, NombresSueltosDistintos, EnCarroCargado, SueltoSinZocalo,
   NingunEquipoInvisible, DeCarroConSerie, EnCirculacion, CarrosCargados, EquiposCargados

\* Reservations, hand-outs and incidents.
LEMMA PasoDeActividad ==
    ASSUME InventarioAssumption, IInvI,
           Actividad \/ ReportesDeFallas \/ EdicionesDeIncidencias
    PROVE  IInvI'
<1>1. TypeOKI
  BY DEF IInvI
<1>2. ASSUME NEW e \in Equipos, Reservar(e) \/ EntregarODevolver(e)
      PROVE  TypeOKI' /\ UNCHANGED <<carros, equipos>>
  <2>1. cambiosI' \in 0 .. MaxCambiosI
    BY <1>1, <1>2, CuentaCambios DEF Reservar, EntregarODevolver
  <2> QED BY <1>1, <1>2, <2>1 DEF Reservar, EntregarODevolver, TypeOKI
<1>3. ASSUME NEW i \in Incidencias, NEW e \in Equipos, CrearIncidencia(i, e)
      PROVE  TypeOKI' /\ UNCHANGED <<carros, equipos>>
  <2>1. [equipo |-> e, estado |-> "ABIERTA", enviada |-> FALSE] \in Incidencia
    BY DEF Incidencia, EstadosIncidencia
  <2>2. cambiosI' \in 0 .. MaxCambiosI
    BY <1>1, <1>3, CuentaCambios DEF CrearIncidencia
  <2> QED BY <1>1, <1>3, <2>1, <2>2 DEF CrearIncidencia, TypeOKI
<1>4. ASSUME NEW i \in Incidencias, NEW enviar \in BOOLEAN, NEW x \in EstadosIncidencia,
             EditarIncidencia(i, enviar, x)
      PROVE  TypeOKI' /\ UNCHANGED <<carros, equipos>>
  <2> DEFINE r == [incidencias[i] EXCEPT !.estado = IF enviar THEN "ENVIADA_A_SOPORTE" ELSE x,
                                         !.enviada = enviar \/ @]
  <2>1. incidencias[i] \in Incidencia
    BY <1>1, <1>4 DEF EditarIncidencia, TypeOKI
  <2>2. (enviar \/ incidencias[i].enviada) \in BOOLEAN
    OBVIOUS
  <2>3. r \in Incidencia
    BY <2>1, <2>2 DEF Incidencia, EstadosIncidencia
  <2>4. incidencias' = [incidencias EXCEPT ![i] = r]
    BY <1>1, <1>4, <2>1 DEF EditarIncidencia, TypeOKI, Incidencia
  <2>5. cambiosI' \in 0 .. MaxCambiosI
    BY <1>1, <1>4, CuentaCambios DEF EditarIncidencia
  <2> HIDE DEF r
  <2> QED BY <1>1, <1>4, <2>3, <2>4, <2>5 DEF EditarIncidencia, TypeOKI
<1> QED BY <1>2, <1>3, <1>4, PasoAjeno DEF Actividad, ReportesDeFallas, EdicionesDeIncidencias

-----------------------------------------------------------------------------
(* The theorems                                                              *)

\* The invariant of the carts and the machines is inductive: every operation of
\* internal/inventory that the module models keeps it.
THEOREM InvarianteDeInventario == SpecI => []IInvI
<1>1. InitI => IInvI
  BY InicioI, InventarioAssumption
<1>2. IInvI /\ [NextI]_varsI => IInvI'
  <2> SUFFICES ASSUME IInvI, [NextI]_varsI PROVE IInvI'
    OBVIOUS
  <2>1. CASE PeticionesDeCarros \/ EdicionesDeCarros \/ RetirosDeCarros
    BY <2>1, PasoDeCarros, InventarioAssumption
  <2>2. CASE AltasEnCarro \/ AltasSueltas
    BY <2>2, PasoDeAltas, InventarioAssumption
  <2>3. CASE EdicionesDeEquipos
    BY <2>3, PasoDeEdiciones, InventarioAssumption
  <2>4. CASE CambiosDeEstado \/ BajasDeEquipos \/ Reactivaciones
    BY <2>4, PasoDeCirculacion, InventarioAssumption
  <2>5. CASE Actividad \/ ReportesDeFallas \/ EdicionesDeIncidencias
    BY <2>5, PasoDeActividad, InventarioAssumption
  <2>6. CASE UNCHANGED varsI
    <3>1. TypeOKI'
      BY <2>6 DEF varsI, IInvI, TypeOKI
    <3> QED BY <2>6, <3>1, PasoAjeno, InventarioAssumption DEF varsI
  <2> QED BY <2>1, <2>2, <2>3, <2>4, <2>5, <2>6 DEF NextI
<1> QED BY <1>1, <1>2, PTL DEF SpecI

\* What is taken for the same machine is the same machine. Of two in carts: in the same cart
\* they have different numbers, and different carts are not retired, so ux_carro_nombre keeps
\* their names apart. Of two that a notice calls the same, none is loose or without a name
\* unless the other is a machine of a cart with a name of its own.
THEOREM EtiquetasUnicas == SpecI => []EtiquetaUnica
<1>1. IInvI => EtiquetaUnica
  <2> SUFFICES ASSUME IInvI, NEW e \in Equipos, NEW o \in Equipos, e # o,
                      EnCirculacion(e), EnCirculacion(o)
               PROVE  /\ equipos[e].carro # Vacio /\ equipos[o].carro # Vacio
                         => <<DelCarro(e), equipos[e].identificador>> # <<DelCarro(o), equipos[o].identificador>>
                      /\ EtiquetaConCarro(e) = EtiquetaConCarro(o) => ConNombrePropio(e) \/ ConNombrePropio(o)
    BY DEF EtiquetaUnica
  <2>1. e \in EquiposCargados /\ ~equipos[e].baja /\ o \in EquiposCargados /\ ~equipos[o].baja
    BY DEF EnCirculacion
  <2>2. ASSUME equipos[e].carro # Vacio, equipos[o].carro # Vacio
        PROVE  DelCarro(e) # DelCarro(o) \/ equipos[e].identificador # equipos[o].identificador
    <3>1. CASE equipos[e].carro = equipos[o].carro
      BY <2>1, <2>2, <3>1 DEF IInvI, ZocalosDistintos
    <3>2. CASE equipos[e].carro # equipos[o].carro
      <4>1. /\ equipos[e].carro \in CarrosCargados /\ ~carros[equipos[e].carro].baja
            /\ equipos[o].carro \in CarrosCargados /\ ~carros[equipos[o].carro].baja
        BY <2>1, <2>2 DEF IInvI, EnCarroCargado, NingunEquipoInvisible
      <4>2. carros[equipos[e].carro].nombre # carros[equipos[o].carro].nombre
        BY <3>2, <4>1 DEF IInvI, CarrosDistintos
      <4> QED BY <2>2, <4>2 DEF DelCarro
    <3> QED BY <3>1, <3>2
  <2>3. ASSUME EtiquetaConCarro(e) = EtiquetaConCarro(o), ~ConNombrePropio(e), ~ConNombrePropio(o)
        PROVE  FALSE
    <3>1. /\ Etiqueta(e) = Etiqueta(o)
          /\ (IF equipos[e].nombre # Vacio THEN Vacio ELSE DelCarro(e))
             = (IF equipos[o].nombre # Vacio THEN Vacio ELSE DelCarro(o))
      BY <2>3 DEF EtiquetaConCarro
    <3>2. equipos[e].nombre = equipos[o].nombre
      BY <3>1 DEF Etiqueta
    <3>3. CASE equipos[e].nombre # Vacio
      <4>1. equipos[e].carro = Vacio /\ equipos[o].carro = Vacio
        BY <2>3, <3>2, <3>3 DEF ConNombrePropio
      <4> QED BY <2>1, <3>2, <4>1 DEF IInvI, NombresSueltosDistintos
    <3>4. CASE equipos[e].nombre = Vacio
      <4>1. equipos[e].carro # Vacio /\ equipos[o].carro # Vacio
        BY <2>1, <3>2, <3>4 DEF IInvI, NombresSueltosDistintos
      <4>2. DelCarro(e) = DelCarro(o) /\ equipos[e].identificador = equipos[o].identificador
        BY <3>1, <3>2, <3>4 DEF Etiqueta
      <4> QED BY <2>2, <4>1, <4>2
    <3> QED BY <3>3, <3>4
  <2> QED BY <2>2, <2>3
<1> QED BY <1>1, InvarianteDeInventario, PTL

\* A machine that can be booked is in a cart that the screens list: the cart is asked for
\* when the machine enters it or comes back, and nobody retires a cart with one inside.
THEOREM NadieInvisible == SpecI => []NingunEquipoInvisible
<1>1. IInvI => NingunEquipoInvisible
  BY DEF IInvI
<1> QED BY <1>1, InvarianteDeInventario, PTL

\* Every machine of a cart has its serial number: it is asked for when it is created there,
\* no edition empties it, and what was created loose has no number to enter a cart with.
THEOREM DeCarroTieneSerie == SpecI => []DeCarroConSerie
<1>1. IInvI => DeCarroConSerie
  BY DEF IInvI
<1> QED BY <1>1, InvarianteDeInventario, PTL

-----------------------------------------------------------------------------
(* Buzon                                                                     *)

Contadores == [pendientes : Nat, respuestas : Nat, leidos : Nat]

\* The types without the bounds of the counters, which the argument does not need.
TiposB ==
    /\ rol \in [Personas -> RolesB]
    /\ hilos \in [Hilos -> Hilo \cup {Ausente}]
    /\ tramite \in [Personas -> Tramite \cup {Ausente}]
    /\ cola \in [Hilos -> Seq(EventoB)]
    /\ bandeja \in [Personas -> [Hilos -> Contadores]]
    /\ reclamado \subseteq Hilos
    /\ avisados \in [Hilos -> SUBSET Personas]

\* Who has read a thread FOR UPDATE is alone with it, and what was read still holds.
LoLeidoEsVigente ==
    \A u \in Personas : tramite[u] # Ausente =>
      /\ hilos[tramite[u].hilo] # Ausente
      /\ tramite[u].abierta = hilos[tramite[u].hilo].abierta
      /\ \A v \in Personas : (tramite[v] # Ausente /\ tramite[v].hilo = tramite[u].hilo) => v = u

\* The last event of a thread says whether it waits for an answer.
UltimoEvento ==
    \A h \in Hilos : (hilos[h] # Ausente /\ cola[h] # << >>) =>
      (cola[h][Len(cola[h])].clase = "pregunta" <=> EsperaRespuesta(h))

\* A notice is a task at most once, and of a thread that is there.
ComoMuchoUno ==
    \A u \in Personas, h \in Hilos :
      /\ bandeja[u][h].pendientes <= 1
      /\ hilos[h] = Ausente => bandeja[u][h].pendientes = 0

IInvB ==
    /\ TiposB
    /\ LoLeidoEsVigente /\ NadaReabiertoQuedaCerrado
    /\ UltimoEvento /\ ComoMuchoUno /\ CampanaDelHilo

-----------------------------------------------------------------------------
(* What the threads say and what the bell says change apart                  *)

\* The half of the invariant that looks at the threads.
Conversacion == TiposB /\ LoLeidoEsVigente /\ NadaReabiertoQuedaCerrado /\ UltimoEvento

LEMMA InicioB == ASSUME BuzonAssumption, InitB PROVE IInvB
<1>1. TiposB
  BY DEF BuzonAssumption, InitB, TiposB, RolesB, Contadores, SinAvisos
<1>2. LoLeidoEsVigente /\ NadaReabiertoQuedaCerrado /\ UltimoEvento
  BY DEF InitB, LoLeidoEsVigente, NadaReabiertoQuedaCerrado, UltimoEvento
<1>3. ComoMuchoUno /\ CampanaDelHilo
  BY DEF InitB, ComoMuchoUno, CampanaDelHilo, SinAvisos
<1> QED BY <1>1, <1>2, <1>3 DEF IInvB

\* An event is put at the end of the queue of its thread.
LEMMA SeEmite ==
    ASSUME TiposB, NEW h \in Hilos, NEW clase \in ActosB, NEW autor \in Personas,
           Emitir(h, clase, autor)
    PROVE  /\ cola' \in [Hilos -> Seq(EventoB)]
           /\ \A g \in Hilos \ {h} : cola'[g] = cola[g]
           /\ cola'[h] # << >>
           /\ cola'[h][Len(cola'[h])].clase = clase
<1> DEFINE e == [clase |-> clase, autor |-> autor]
<1>1. e \in EventoB /\ e.clase = clase
  BY DEF EventoB
<1>2. cola[h] \in Seq(EventoB)
  BY DEF TiposB
<1>3. cola' = [cola EXCEPT ![h] = Append(cola[h], e)]
  BY DEF Emitir
<1> HIDE DEF e
<1>4. /\ Append(cola[h], e) \in Seq(EventoB)
      /\ Append(cola[h], e) # << >>
      /\ Append(cola[h], e)[Len(Append(cola[h], e))] = e
  BY <1>1, <1>2, AppendProperties
<1> QED BY <1>1, <1>3, <1>4 DEF TiposB

\* With one more event on its way, nothing is asked of the bell but its bound.
LEMMA CampanaEnCamino ==
    ASSUME IInvB, TiposB', NEW h \in Hilos,
           \A g \in Hilos \ {h} : hilos'[g] = hilos[g] /\ cola'[g] = cola[g],
           hilos'[h] # Ausente, cola'[h] # << >>, UNCHANGED <<bandeja, avisados, rol>>
    PROVE  ComoMuchoUno' /\ CampanaDelHilo'
<1>1. ComoMuchoUno'
  BY DEF IInvB, ComoMuchoUno
<1>2. CampanaDelHilo'
  BY DEF IInvB, CampanaDelHilo, EsperaRespuesta
<1> QED BY <1>1, <1>2

-----------------------------------------------------------------------------
(* The thread                                                                *)

\* A new thread: nobody can have it open, because it did not exist.
LEMMA PasoEscribir ==
    ASSUME BuzonAssumption, IInvB, NEW u \in Personas, NEW h \in Hilos, Escribir(u, h)
    PROVE  IInvB'
<1> DEFINE nuevo == [autor |-> u, abierta |-> TRUE, ultimoDeAdmin |-> FALSE]
<1>1. nuevo \in Hilo /\ nuevo # Ausente /\ nuevo.abierta /\ ~nuevo.ultimoDeAdmin
  <2>1. nuevo \in Hilo
    BY DEF Hilo
  <2>2. nuevo.abierta = TRUE /\ nuevo.ultimoDeAdmin = FALSE
    OBVIOUS
  <2> QED BY <2>1, <2>2 DEF BuzonAssumption
<1>2. TiposB /\ hilos[h] = Ausente /\ hilos' = [hilos EXCEPT ![h] = nuevo]
      /\ UNCHANGED <<rol, tramite, bandeja, avisados>> /\ reclamado' = reclamado \cup {h}
      /\ Emitir(h, "pregunta", u)
  BY DEF IInvB, Escribir
<1> HIDE DEF nuevo
<1>3. /\ hilos' \in [Hilos -> Hilo \cup {Ausente}] /\ hilos'[h] = nuevo
      /\ \A g \in Hilos \ {h} : hilos'[g] = hilos[g]
  BY <1>1, <1>2 DEF TiposB
<1>4. /\ cola' \in [Hilos -> Seq(EventoB)]
      /\ \A g \in Hilos \ {h} : cola'[g] = cola[g]
      /\ cola'[h] # << >> /\ cola'[h][Len(cola'[h])].clase = "pregunta"
  <2>1. "pregunta" \in ActosB
    BY DEF ActosB
  <2> QED BY <1>2, <2>1, SeEmite
<1>5. TiposB'
  BY <1>2, <1>3, <1>4 DEF TiposB
<1>6. LoLeidoEsVigente'
  <2>1. \A v \in Personas : tramite[v] # Ausente => tramite[v].hilo \in Hilos \ {h}
    BY <1>2 DEF TiposB, Tramite, IInvB, LoLeidoEsVigente
  <2> QED BY <1>2, <1>3, <2>1 DEF IInvB, LoLeidoEsVigente
<1>7. NadaReabiertoQuedaCerrado'
  BY <1>1, <1>2, <1>3 DEF IInvB, NadaReabiertoQuedaCerrado
<1>8. UltimoEvento'
  BY <1>1, <1>3, <1>4 DEF IInvB, UltimoEvento, EsperaRespuesta
<1>9. ComoMuchoUno' /\ CampanaDelHilo'
  BY <1>1, <1>2, <1>3, <1>4, <1>5, CampanaEnCamino
<1> QED BY <1>5, <1>6, <1>7, <1>8, <1>9 DEF IInvB

\* The row is locked: nobody else has the thread, and what is noted is what it says.
LEMMA PasoAbrir ==
    ASSUME BuzonAssumption, IInvB, NEW u \in Personas, NEW h \in Hilos, NEW acto \in ActosB,
           Abrir(u, h, acto)
    PROVE  IInvB'
<1> DEFINE t == [hilo |-> h, acto |-> acto, abierta |-> hilos[h].abierta]
<1>1. TiposB /\ hilos[h] # Ausente /\ Libre(h) /\ tramite' = [tramite EXCEPT ![u] = t]
      /\ UNCHANGED <<rol, hilos, cola, bandeja, reclamado, avisados>>
  BY DEF IInvB, Abrir
<1>2. t \in Tramite /\ t.hilo = h /\ t.abierta = hilos[h].abierta
  BY <1>1 DEF TiposB, Hilo, Tramite
<1> HIDE DEF t
<1>3. /\ tramite' \in [Personas -> Tramite \cup {Ausente}] /\ tramite'[u] = t
      /\ \A v \in Personas \ {u} : tramite'[v] = tramite[v]
  BY <1>1, <1>2 DEF TiposB
<1>4. TiposB'
  BY <1>1, <1>3 DEF TiposB
<1>5. LoLeidoEsVigente'
  BY <1>1, <1>2, <1>3 DEF IInvB, LoLeidoEsVigente, Libre, EnTramite
<1>6. NadaReabiertoQuedaCerrado' /\ UltimoEvento' /\ ComoMuchoUno' /\ CampanaDelHilo'
  BY <1>1 DEF IInvB, NadaReabiertoQuedaCerrado, UltimoEvento, ComoMuchoUno, CampanaDelHilo, EsperaRespuesta
<1> QED BY <1>4, <1>5, <1>6 DEF IInvB

\* What is written back was read under the lock, so it forgets nobody's resolution and
\* nobody's message.
LEMMA PasoGuardar ==
    ASSUME BuzonAssumption, IInvB, NEW u \in Personas, Guardar(u)
    PROVE  IInvB'
<1> DEFINE t == tramite[u]
           h == t.hilo
           r == [hilos[h] EXCEPT !.abierta = (t.acto = "pregunta" \/ t.abierta) /\ t.acto # "cierre",
                                 !.ultimoDeAdmin = IF t.acto = "cierre" THEN @ ELSE t.acto = "respuesta"]
<1>1. TiposB /\ t \in Tramite /\ t # Ausente /\ h \in Hilos /\ t.acto \in ActosB /\ t.abierta \in BOOLEAN
  BY DEF IInvB, TiposB, Guardar, Tramite
<1>2. hilos[h] \in Hilo /\ hilos[h] # Ausente /\ t.abierta = hilos[h].abierta
  BY <1>1 DEF IInvB, LoLeidoEsVigente, TiposB
<1>3. /\ r \in Hilo /\ r # Ausente /\ r.autor = hilos[h].autor
      /\ r.abierta <=> (t.acto = "pregunta" \/ t.abierta) /\ t.acto # "cierre"
      /\ t.acto # "cierre" => (r.ultimoDeAdmin <=> t.acto = "respuesta")
  <2>1. (IF t.acto = "cierre" THEN hilos[h].ultimoDeAdmin ELSE t.acto = "respuesta") \in BOOLEAN
    BY <1>2 DEF Hilo
  <2>2. r \in Hilo
    BY <1>2, <2>1 DEF Hilo
  <2> QED BY <1>2, <2>2 DEF Hilo, BuzonAssumption
<1>4. /\ hilos' = [hilos EXCEPT ![h] = r]
      /\ tramite' = [tramite EXCEPT ![u] = Ausente]
      /\ Emitir(h, t.acto, hilos[h].autor)
      /\ UNCHANGED <<rol, bandeja, avisados>>
      /\ reclamado' = CASE t.acto = "pregunta" -> reclamado \cup {h}
                        [] t.acto = "cierre" -> reclamado \ {h}
                        [] OTHER -> reclamado
  BY <1>1, <1>2 DEF Guardar, TiposB, Hilo
<1>5. /\ cola' \in [Hilos -> Seq(EventoB)]
      /\ \A g \in Hilos \ {h} : cola'[g] = cola[g]
      /\ cola'[h] # << >> /\ cola'[h][Len(cola'[h])].clase = t.acto
  BY <1>1, <1>2, <1>4, SeEmite DEF Hilo
<1>6. /\ \A v \in Personas \ {u} : tramite'[v] = tramite[v] /\ (tramite[v] # Ausente => tramite[v].hilo # h)
      /\ tramite'[u] = Ausente
      /\ tramite' \in [Personas -> Tramite \cup {Ausente}]
  BY <1>1, <1>4 DEF TiposB, IInvB, LoLeidoEsVigente
<1> HIDE DEF r, t
<1>7. /\ hilos' \in [Hilos -> Hilo \cup {Ausente}] /\ hilos'[h] = r
      /\ \A g \in Hilos \ {h} : hilos'[g] = hilos[g]
  BY <1>1, <1>3, <1>4 DEF TiposB
<1> HIDE DEF h
<1>8. TiposB'
  BY <1>1, <1>4, <1>5, <1>6, <1>7 DEF TiposB
<1>9. LoLeidoEsVigente'
  <2>1. \A v \in Personas : tramite'[v] # Ausente => v # u /\ tramite[v].hilo \in Hilos \ {h}
    BY <1>1, <1>6 DEF TiposB, Tramite
  <2> QED BY <1>6, <1>7, <2>1 DEF IInvB, LoLeidoEsVigente
<1>10. NadaReabiertoQuedaCerrado'
  <2>1. hilos[h].abierta <=> h \in reclamado
    BY <1>1, <1>2 DEF IInvB, NadaReabiertoQuedaCerrado
  <2>2. r.abierta <=> h \in reclamado'
    BY <1>1, <1>2, <1>3, <1>4, <2>1 DEF ActosB
  <2>3. \A g \in Hilos \ {h} : g \in reclamado' <=> g \in reclamado
    BY <1>1, <1>4 DEF ActosB
  <2> QED BY <1>7, <2>2, <2>3 DEF IInvB, NadaReabiertoQuedaCerrado
<1>11. UltimoEvento'
  <2>1. (r.abierta /\ ~r.ultimoDeAdmin) <=> t.acto = "pregunta"
    <3>1. t.acto = "respuesta" => r.ultimoDeAdmin
      BY <1>3
    <3> QED BY <1>1, <1>3, <3>1 DEF ActosB
  <2> QED BY <1>3, <1>5, <1>7, <2>1 DEF IInvB, UltimoEvento, EsperaRespuesta
<1>12. ComoMuchoUno' /\ CampanaDelHilo'
  BY <1>1, <1>3, <1>4, <1>5, <1>7, <1>8, CampanaEnCamino DEF h
<1> QED BY <1>8, <1>9, <1>10, <1>11, <1>12 DEF IInvB

\* A rollback gives the lock back and nothing else.
LEMMA PasoAbandonar ==
    ASSUME BuzonAssumption, IInvB, NEW u \in Personas, Abandonar(u)
    PROVE  IInvB'
<1>1. TiposB /\ tramite' = [tramite EXCEPT ![u] = Ausente]
      /\ UNCHANGED <<rol, hilos, cola, bandeja, reclamado, avisados>>
  BY DEF IInvB, Abandonar
<1>2. TiposB' /\ tramite'[u] = Ausente /\ \A v \in Personas \ {u} : tramite'[v] = tramite[v]
  BY <1>1 DEF TiposB
<1>3. LoLeidoEsVigente'
  BY <1>1, <1>2 DEF IInvB, LoLeidoEsVigente
<1>4. NadaReabiertoQuedaCerrado' /\ UltimoEvento' /\ ComoMuchoUno' /\ CampanaDelHilo'
  BY <1>1 DEF IInvB, NadaReabiertoQuedaCerrado, UltimoEvento, ComoMuchoUno, CampanaDelHilo, EsperaRespuesta
<1> QED BY <1>2, <1>3, <1>4 DEF IInvB

-----------------------------------------------------------------------------
(* The deliveries                                                            *)

\* What is done to the notices of one person about one thread.
LEMMA UnAviso ==
    ASSUME NEW c \in Contadores, NEW h \in Hilos
    PROVE  /\ Avisado(c, h) \in Contadores
           /\ Avisado(c, h).pendientes = IF EsperaRespuesta(h) THEN c.pendientes + 1 ELSE c.pendientes
           /\ Leidos(c) \in Contadores /\ Leidos(c).pendientes = 0
           /\ [c EXCEPT !.respuestas = @ + 1] \in Contadores
           /\ [c EXCEPT !.respuestas = @ + 1].pendientes = c.pendientes
<1>1. /\ c.pendientes \in Nat /\ c.respuestas \in Nat /\ c.leidos \in Nat
      /\ c.pendientes + 1 \in Nat /\ c.respuestas + 1 \in Nat /\ c.leidos + 1 \in Nat
      /\ c.leidos + c.pendientes \in Nat
  BY DEF Contadores
<1>2. ASSUME EsperaRespuesta(h)
      PROVE  Avisado(c, h) \in Contadores /\ Avisado(c, h).pendientes = c.pendientes + 1
  <2>1. Avisado(c, h) = [c EXCEPT !.pendientes = c.pendientes + 1]
    BY <1>2 DEF Avisado
  <2> QED BY <1>1, <2>1 DEF Contadores
<1>3. ASSUME ~EsperaRespuesta(h)
      PROVE  Avisado(c, h) \in Contadores /\ Avisado(c, h).pendientes = c.pendientes
  <2>1. Avisado(c, h) = [c EXCEPT !.leidos = c.leidos + 1]
    BY <1>3 DEF Avisado
  <2> QED BY <1>1, <2>1 DEF Contadores
<1>4. Leidos(c) \in Contadores /\ Leidos(c).pendientes = 0
  BY <1>1 DEF Contadores, Leidos
<1>5. /\ [c EXCEPT !.respuestas = @ + 1] \in Contadores
      /\ [c EXCEPT !.respuestas = @ + 1].pendientes = c.pendientes
  BY <1>1 DEF Contadores
<1> QED BY <1>2, <1>3, <1>4, <1>5

\* A delivery that closes: nothing about the thread is a task any more, for anybody.
LEMMA SeCierra ==
    ASSUME TiposB, NEW u \in Personas, NEW h \in Hilos, NEW autor
    PROVE  /\ Cerrados(u, h, autor) \in [Hilos -> Contadores]
           /\ Cerrados(u, h, autor)[h].pendientes = 0
           /\ \A g \in Hilos \ {h} : Cerrados(u, h, autor)[g] = bandeja[u][g]
<1>1. \A g \in Hilos : bandeja[u][g] \in Contadores
  BY DEF TiposB
<1>2. Leidos(bandeja[u][h]) \in Contadores /\ Leidos(bandeja[u][h]).pendientes = 0
  BY <1>1, UnAviso
<1> QED BY <1>1, <1>2 DEF Cerrados, DelHilo

\* What a delivery does to the notices of its thread, and to no other.
LEMMA LoEntregado ==
    ASSUME TiposB, NEW h \in Hilos, EntregarB(h)
    PROVE  /\ Head(cola[h]) \in EventoB
           /\ bandeja' \in [Personas -> [Hilos -> Contadores]]
           /\ \A u \in Personas, g \in Hilos \ {h} : bandeja'[u][g] = bandeja[u][g]
           /\ Head(cola[h]).clase # "pregunta" =>
                /\ \A u \in Personas : bandeja'[u][h].pendientes = 0
                /\ avisados' = avisados
           /\ Head(cola[h]).clase = "pregunta" =>
                /\ avisados' = [avisados EXCEPT ![h] = Admins]
                /\ \A u \in Personas :
                     bandeja'[u][h].pendientes =
                       IF u \in Admins /\ bandeja[u][h].pendientes = 0 /\ EsperaRespuesta(h)
                       THEN 1 ELSE bandeja[u][h].pendientes
<1> DEFINE e == Head(cola[h])
<1>1. e \in EventoB
  <2>1. cola[h] \in Seq(EventoB) /\ cola[h] # << >>
    BY DEF TiposB, EntregarB
  <2> QED BY <2>1, HeadTailProperties
<1>2. /\ \A u \in Personas, g \in Hilos : bandeja[u][g] \in Contadores /\ bandeja[u][g].pendientes \in Nat
      /\ \A u \in Personas : bandeja[u] \in [Hilos -> Contadores]
  BY DEF TiposB, Contadores
<1>3. CASE e.clase = "pregunta"
  <2>1. NotificarATodosLosAdminsSinRepetir(h, e.autor) /\ avisados' = [avisados EXCEPT ![h] = Admins]
    BY <1>3 DEF EntregarB
  <2>2. \A u \in Personas : YaAvisado(u, h, e.autor) <=> bandeja[u][h].pendientes # 0
    BY <1>2 DEF YaAvisado, DelHilo
  <2> HIDE DEF e
  <2>3. ASSUME NEW u \in Personas
        PROVE  /\ Avisado(bandeja[u][h], h) \in Contadores
               /\ bandeja[u][h].pendientes = 0 =>
                    Avisado(bandeja[u][h], h).pendientes = IF EsperaRespuesta(h) THEN 1 ELSE 0
    <3> DEFINE c == bandeja[u][h]
    <3>1. c \in Contadores
      BY <1>2
    <3> HIDE DEF c
    <3>2. /\ Avisado(c, h) \in Contadores
          /\ Avisado(c, h).pendientes = IF EsperaRespuesta(h) THEN c.pendientes + 1 ELSE c.pendientes
      BY <3>1, UnAviso
    <3>3. /\ Avisado(c, h) \in Contadores
          /\ c.pendientes = 0 => Avisado(c, h).pendientes = IF EsperaRespuesta(h) THEN 1 ELSE 0
      BY <3>2
    <3> QED BY <3>3 DEF c
  <2>4. \A u \in Personas :
           bandeja'[u] = IF u \in Admins /\ ~YaAvisado(u, h, e.autor)
                         THEN [bandeja[u] EXCEPT ![h] = Avisado(bandeja[u][h], h)] ELSE bandeja[u]
    BY <2>1 DEF NotificarATodosLosAdminsSinRepetir
  <2>5. \A u \in Personas : bandeja'[u] \in [Hilos -> Contadores]
    BY <1>2, <2>3, <2>4
  <2>6. bandeja' \in [Personas -> [Hilos -> Contadores]]
    BY <2>1, <2>5 DEF NotificarATodosLosAdminsSinRepetir
  <2>7. \A u \in Personas, g \in Hilos \ {h} : bandeja'[u][g] = bandeja[u][g]
    BY <1>2, <2>4
  <2>8. \A u \in Personas :
           bandeja'[u][h].pendientes =
             IF u \in Admins /\ bandeja[u][h].pendientes = 0 /\ EsperaRespuesta(h)
             THEN 1 ELSE bandeja[u][h].pendientes
    BY <1>2, <2>2, <2>3, <2>4
  <2> QED BY <1>1, <1>3, <2>1, <2>6, <2>7, <2>8 DEF e
<1>4. CASE e.clase = "respuesta"
  <2>1. CerrarYAvisarAlAutor(h, e.autor) /\ avisados' = avisados
    BY <1>4 DEF EntregarB
  <2> HIDE DEF e
  <2>2. ASSUME NEW u \in Personas
        PROVE  /\ bandeja'[u] \in [Hilos -> Contadores]
               /\ bandeja'[u][h].pendientes = 0
               /\ \A g \in Hilos \ {h} : bandeja'[u][g] = bandeja[u][g]
    <3> DEFINE c == Cerrados(u, h, e.autor)
    <3>1. /\ c \in [Hilos -> Contadores] /\ c[h].pendientes = 0
          /\ \A g \in Hilos \ {h} : c[g] = bandeja[u][g]
      BY SeCierra
    <3>2. bandeja'[u] = c \/ bandeja'[u] = [c EXCEPT ![h].respuestas = @ + 1]
      BY <2>1 DEF CerrarYAvisarAlAutor
    <3> HIDE DEF c
    <3>3. CASE bandeja'[u] = c
      BY <3>1, <3>3
    <3>4. CASE bandeja'[u] = [c EXCEPT ![h].respuestas = @ + 1]
      <4>1. [c[h] EXCEPT !.respuestas = @ + 1] \in Contadores
            /\ [c[h] EXCEPT !.respuestas = @ + 1].pendientes = 0
        BY <3>1, UnAviso
      <4> QED BY <3>1, <3>4, <4>1
    <3> QED BY <3>2, <3>3, <3>4
  <2>3. bandeja' \in [Personas -> [Hilos -> Contadores]]
    BY <2>1, <2>2 DEF CerrarYAvisarAlAutor
  <2> QED BY <1>1, <1>4, <2>1, <2>2, <2>3 DEF e
<1>5. CASE e.clase = "cierre"
  <2>1. CerrarAvisosSobreUsuario(h, e.autor) /\ avisados' = avisados
    BY <1>5 DEF EntregarB
  <2> HIDE DEF e
  <2>2. ASSUME NEW u \in Personas
        PROVE  /\ bandeja'[u] \in [Hilos -> Contadores]
               /\ bandeja'[u][h].pendientes = 0
               /\ \A g \in Hilos \ {h} : bandeja'[u][g] = bandeja[u][g]
    BY <2>1, SeCierra DEF CerrarAvisosSobreUsuario
  <2>3. bandeja' \in [Personas -> [Hilos -> Contadores]]
    BY <2>1, <2>2 DEF CerrarAvisosSobreUsuario
  <2> QED BY <1>1, <1>5, <2>1, <2>2, <2>3 DEF e
<1> QED BY <1>1, <1>3, <1>4, <1>5 DEF EventoB, ActosB

\* The last event of the thread is the one that decides, and when it is delivered the bell
\* is right; while others are on their way nothing is asked but the bound.
LEMMA PasoEntregar ==
    ASSUME BuzonAssumption, IInvB, NEW h \in Hilos, EntregarB(h)
    PROVE  IInvB'
<1>1. /\ TiposB /\ cola[h] # << >> /\ cola' = [cola EXCEPT ![h] = Tail(cola[h])]
      /\ UNCHANGED <<rol, hilos, tramite, reclamado>>
  BY DEF IInvB, EntregarB
<1>2. cola[h] \in Seq(EventoB)
  BY <1>1 DEF TiposB
<1>3. /\ Tail(cola[h]) \in Seq(EventoB) /\ Len(Tail(cola[h])) = Len(cola[h]) - 1
      /\ \A i \in 1 .. Len(Tail(cola[h])) : Tail(cola[h])[i] = cola[h][i + 1]
      /\ Len(cola[h]) \in Nat /\ Len(Tail(cola[h])) \in Nat
  BY <1>1, <1>2, HeadTailProperties, LenProperties
<1>4. /\ cola' \in [Hilos -> Seq(EventoB)] /\ cola'[h] = Tail(cola[h])
      /\ \A g \in Hilos \ {h} : cola'[g] = cola[g]
  BY <1>1, <1>3 DEF TiposB
<1>5. /\ cola'[h] # << >> => cola'[h][Len(cola'[h])] = cola[h][Len(cola[h])]
      /\ cola'[h] = << >> => Head(cola[h]) = cola[h][Len(cola[h])]
  <2>1. ASSUME cola'[h] # << >>
        PROVE  cola'[h][Len(cola'[h])] = cola[h][Len(cola[h])]
    <3> DEFINE s == cola[h]
               r == Tail(s)
    <3>1. /\ r \in Seq(EventoB) /\ r # << >> /\ Len(s) \in Nat /\ Len(r) = Len(s) - 1
          /\ \A i \in 1 .. Len(r) : r[i] = s[i + 1]
      BY <1>3, <1>4, <2>1
    <3> HIDE DEF s, r
    <3>2. Len(r) # 0 /\ Len(r) \in Nat
      BY <3>1, EmptySeq, LenProperties
    <3>3. Len(r) \in 1 .. Len(r) /\ Len(r) + 1 = Len(s)
      BY <3>1, <3>2
    <3>4. r[Len(r)] = s[Len(s)]
      BY <3>1, <3>3
    <3> QED BY <1>4, <3>4 DEF r, s
  <2>2. ASSUME cola'[h] = << >>
        PROVE  Head(cola[h]) = cola[h][Len(cola[h])]
    <3>1. Len(cola[h]) = 1
      <4>1. Len(Tail(cola[h])) = 0
        BY <1>3, <1>4, <2>2, EmptySeq
      <4> QED BY <1>3, <4>1
    <3> QED BY <1>2, <3>1
  <2> QED BY <2>1, <2>2
<1>6. /\ Head(cola[h]) \in EventoB
      /\ bandeja' \in [Personas -> [Hilos -> Contadores]]
      /\ \A u \in Personas, g \in Hilos \ {h} : bandeja'[u][g] = bandeja[u][g]
      /\ Head(cola[h]).clase # "pregunta" =>
           /\ \A u \in Personas : bandeja'[u][h].pendientes = 0
           /\ avisados' = avisados
      /\ Head(cola[h]).clase = "pregunta" =>
           /\ avisados' = [avisados EXCEPT ![h] = Admins]
           /\ \A u \in Personas :
                bandeja'[u][h].pendientes =
                  IF u \in Admins /\ bandeja[u][h].pendientes = 0 /\ EsperaRespuesta(h)
                  THEN 1 ELSE bandeja[u][h].pendientes
  BY <1>1, LoEntregado
<1>7. /\ avisados' \in [Hilos -> SUBSET Personas]
      /\ \A g \in Hilos \ {h} : avisados'[g] = avisados[g]
      /\ Head(cola[h]).clase = "pregunta" => avisados'[h] = Admins
  BY <1>1, <1>6 DEF TiposB, Admins
<1>8. TiposB'
  BY <1>1, <1>4, <1>6, <1>7 DEF TiposB
<1>9. LoLeidoEsVigente' /\ NadaReabiertoQuedaCerrado'
  BY <1>1 DEF IInvB, LoLeidoEsVigente, NadaReabiertoQuedaCerrado
<1>10. UltimoEvento'
  BY <1>1, <1>4, <1>5 DEF IInvB, UltimoEvento, EsperaRespuesta
<1>11. EsperaRespuesta(h)' <=> EsperaRespuesta(h)
  BY <1>1 DEF EsperaRespuesta
<1>12. \A u \in Personas : bandeja[u][h].pendientes \in Nat /\ bandeja[u][h].pendientes <= 1
  BY DEF IInvB, TiposB, Contadores, ComoMuchoUno
<1>13. ComoMuchoUno'
  <2>1. ASSUME NEW u \in Personas
        PROVE  /\ bandeja'[u][h].pendientes <= 1
               /\ hilos'[h] = Ausente => bandeja'[u][h].pendientes = 0
    <3>1. hilos[h] = Ausente => bandeja[u][h].pendientes = 0 /\ ~EsperaRespuesta(h)
      BY DEF IInvB, ComoMuchoUno, EsperaRespuesta
    <3> QED BY <1>1, <1>6, <1>12, <3>1
  <2> QED BY <1>1, <1>6, <2>1 DEF IInvB, ComoMuchoUno
<1>14. CampanaDelHilo'
  <2>1. ASSUME NEW u \in Personas, hilos'[h] # Ausente, cola'[h] = << >>
        PROVE  /\ bandeja'[u][h].pendientes <= 1
               /\ ~EsperaRespuesta(h)' => bandeja'[u][h].pendientes = 0
               /\ (EsperaRespuesta(h)' /\ u \in avisados'[h] /\ rol'[u] # "ELIMINADA")
                    => bandeja'[u][h].pendientes = 1
    <3>1. Head(cola[h]).clase = "pregunta" <=> EsperaRespuesta(h)
      BY <1>1, <1>5, <2>1 DEF IInvB, UltimoEvento
    <3>2. CASE Head(cola[h]).clase = "pregunta"
      <4>1. /\ EsperaRespuesta(h) /\ EsperaRespuesta(h)' /\ avisados'[h] = Admins
            /\ bandeja'[u][h].pendientes =
                 IF u \in Admins /\ bandeja[u][h].pendientes = 0 /\ EsperaRespuesta(h)
                 THEN 1 ELSE bandeja[u][h].pendientes
        BY <1>6, <1>7, <1>11, <3>1, <3>2
      <4>2. bandeja[u][h].pendientes = 0 \/ bandeja[u][h].pendientes = 1
        BY <1>12
      <4> QED BY <4>1, <4>2
    <3>3. CASE Head(cola[h]).clase # "pregunta"
      BY <1>6, <1>11, <3>1, <3>3
    <3> QED BY <3>2, <3>3
  <2>2. ASSUME NEW u \in Personas, NEW g \in Hilos \ {h}, hilos'[g] # Ausente, cola'[g] = << >>
        PROVE  /\ bandeja'[u][g].pendientes <= 1
               /\ ~EsperaRespuesta(g)' => bandeja'[u][g].pendientes = 0
               /\ (EsperaRespuesta(g)' /\ u \in avisados'[g] /\ rol'[u] # "ELIMINADA")
                    => bandeja'[u][g].pendientes = 1
    BY <1>1, <1>4, <1>6, <1>7, <2>2 DEF IInvB, CampanaDelHilo, EsperaRespuesta
  <2> QED BY <2>1, <2>2 DEF CampanaDelHilo
<1> QED BY <1>8, <1>9, <1>10, <1>13, <1>14 DEF IInvB

-----------------------------------------------------------------------------
(* The bell and the people                                                   *)

\* Who reads or deletes touches no thread.
LEMMA SoloLaCampana ==
    ASSUME Conversacion, TiposB', UNCHANGED <<hilos, tramite, cola, reclamado>>
    PROVE  Conversacion'
BY DEF Conversacion, LoLeidoEsVigente, NadaReabiertoQuedaCerrado, UltimoEvento, EsperaRespuesta

\* A notice that is read is a task no more, and its owner looked at the thread.
LEMMA PasoLeer ==
    ASSUME IInvB, NEW u \in Personas, MarcarTodasLeidas(u) \/ \E h \in Hilos : MarcarLeida(u, h)
    PROVE  IInvB'
<1>1. TiposB /\ UNCHANGED <<rol, hilos, tramite, cola, reclamado>>
  BY DEF IInvB, MarcarTodasLeidas, MarcarLeida
<1>2. /\ \A v \in Personas, g \in Hilos :
           /\ bandeja[v][g] \in Contadores /\ bandeja[v][g].pendientes \in Nat
           /\ bandeja[v][g].respuestas \in Nat /\ bandeja[v][g].leidos \in Nat
      /\ \A v \in Personas : bandeja[v] \in [Hilos -> Contadores]
  BY <1>1 DEF TiposB, Contadores
<1>3. \E H \in SUBSET Hilos :
        /\ Enterado(u, H)
        /\ bandeja' \in [Personas -> [Hilos -> Contadores]]
        /\ \A v \in Personas \ {u}, g \in Hilos : bandeja'[v][g] = bandeja[v][g]
        /\ \A g \in Hilos \ H : bandeja'[u][g] = bandeja[u][g]
        /\ \A g \in H : bandeja'[u][g].pendientes <= bandeja[u][g].pendientes
  <2>1. CASE MarcarTodasLeidas(u)
    <3> DEFINE c(h) == [SinAvisos EXCEPT !.leidos =
                          @ + bandeja[u][h].pendientes + bandeja[u][h].respuestas + bandeja[u][h].leidos]
    <3>1. \A h \in Hilos : c(h) \in Contadores /\ c(h).pendientes = 0
      BY <1>2 DEF SinAvisos, Contadores
    <3>2. bandeja' = [bandeja EXCEPT ![u] = [h \in Hilos |-> c(h)]] /\ Enterado(u, Hilos)
      BY <2>1 DEF MarcarTodasLeidas
    <3> HIDE DEF c
    <3>3. /\ bandeja' \in [Personas -> [Hilos -> Contadores]]
          /\ \A v \in Personas \ {u}, g \in Hilos : bandeja'[v][g] = bandeja[v][g]
          /\ \A g \in Hilos : bandeja'[u][g].pendientes <= bandeja[u][g].pendientes
      BY <1>1, <1>2, <3>1, <3>2 DEF TiposB
    <3> QED BY <3>2, <3>3
  <2>2. ASSUME NEW h \in Hilos, MarcarLeida(u, h)
        PROVE  /\ Enterado(u, {h})
               /\ bandeja' \in [Personas -> [Hilos -> Contadores]]
               /\ \A v \in Personas \ {u}, g \in Hilos : bandeja'[v][g] = bandeja[v][g]
               /\ \A g \in Hilos \ {h} : bandeja'[u][g] = bandeja[u][g]
               /\ \A g \in {h} : bandeja'[u][g].pendientes <= bandeja[u][g].pendientes
    <3> DEFINE c == bandeja[u][h]
    <3>0. c \in Contadores
      BY <1>2
    <3>1. \/ c.pendientes > 0 /\ bandeja' = [bandeja EXCEPT ![u] = [bandeja[u] EXCEPT ![h] = PendienteLeido(c)]]
          \/ c.respuestas > 0 /\ bandeja' = [bandeja EXCEPT ![u] = [bandeja[u] EXCEPT ![h] = RespuestaLeida(c)]]
      BY <1>1, <1>2, <2>2 DEF MarcarLeida, TiposB
    <3> HIDE DEF c
    <3>2. /\ c.pendientes > 0 => PendienteLeido(c) \in Contadores /\ PendienteLeido(c).pendientes <= c.pendientes
          /\ c.respuestas > 0 => RespuestaLeida(c) \in Contadores /\ RespuestaLeida(c).pendientes <= c.pendientes
      <4>1. c.pendientes \in Nat /\ c.respuestas \in Nat /\ c.leidos + 1 \in Nat
        BY <3>0 DEF Contadores
      <4>2. /\ c.pendientes > 0 => c.pendientes - 1 \in Nat /\ c.pendientes - 1 <= c.pendientes
            /\ c.respuestas > 0 => c.respuestas - 1 \in Nat /\ c.pendientes <= c.pendientes
        BY <4>1
      <4> QED BY <3>0, <4>1, <4>2 DEF Contadores, PendienteLeido, RespuestaLeida
    <3>3. PICK d \in Contadores : /\ d.pendientes <= c.pendientes
                                  /\ bandeja' = [bandeja EXCEPT ![u] = [bandeja[u] EXCEPT ![h] = d]]
      BY <3>1, <3>2
    <3>4. bandeja' \in [Personas -> [Hilos -> Contadores]]
      BY <1>1, <1>2, <3>3 DEF TiposB
    <3>5. bandeja'[u] = [bandeja[u] EXCEPT ![h] = d] /\ \A v \in Personas \ {u} : bandeja'[v] = bandeja[v]
      BY <1>1, <3>3 DEF TiposB
    <3>6. bandeja'[u][h] = d /\ \A g \in Hilos \ {h} : bandeja'[u][g] = bandeja[u][g]
      BY <1>2, <3>5
    <3> QED BY <2>2, <3>3, <3>4, <3>5, <3>6 DEF MarcarLeida, c
  <2>3. ASSUME NEW h \in Hilos, MarcarLeida(u, h)
        PROVE  \E H \in SUBSET Hilos :
                 /\ Enterado(u, H)
                 /\ bandeja' \in [Personas -> [Hilos -> Contadores]]
                 /\ \A v \in Personas \ {u}, g \in Hilos : bandeja'[v][g] = bandeja[v][g]
                 /\ \A g \in Hilos \ H : bandeja'[u][g] = bandeja[u][g]
                 /\ \A g \in H : bandeja'[u][g].pendientes <= bandeja[u][g].pendientes
    <3>1. {h} \in SUBSET Hilos
      OBVIOUS
    <3> QED BY <2>2, <2>3, <3>1
  <2> QED BY <2>1, <2>3
<1>4. PICK H \in SUBSET Hilos :
        /\ Enterado(u, H)
        /\ bandeja' \in [Personas -> [Hilos -> Contadores]]
        /\ \A v \in Personas \ {u}, g \in Hilos : bandeja'[v][g] = bandeja[v][g]
        /\ \A g \in Hilos \ H : bandeja'[u][g] = bandeja[u][g]
        /\ \A g \in H : bandeja'[u][g].pendientes <= bandeja[u][g].pendientes
  BY <1>3
<1>5. /\ avisados' \in [Hilos -> SUBSET Personas]
      /\ \A g \in Hilos \ H : avisados'[g] = avisados[g]
      /\ \A g \in H : avisados'[g] = avisados[g] \ {u}
  BY <1>1, <1>4 DEF Enterado, TiposB
<1>6. TiposB'
  BY <1>1, <1>4, <1>5 DEF TiposB
<1>7. Conversacion'
  BY <1>1, <1>6, SoloLaCampana DEF IInvB, Conversacion
<1>8. \A v \in Personas, g \in Hilos : /\ bandeja'[v][g].pendientes \in Nat
                                       /\ bandeja'[v][g].pendientes <= bandeja[v][g].pendientes
  BY <1>2, <1>4 DEF Contadores
<1>9. ComoMuchoUno'
  BY <1>1, <1>2, <1>8 DEF IInvB, ComoMuchoUno
<1>10. \A g \in Hilos : EsperaRespuesta(g)' <=> EsperaRespuesta(g)
  BY <1>1 DEF EsperaRespuesta
<1>11. ASSUME NEW v \in Personas, NEW g \in Hilos, hilos[g] # Ausente, cola[g] = << >>
       PROVE  /\ bandeja'[v][g].pendientes <= 1
              /\ ~EsperaRespuesta(g) => bandeja'[v][g].pendientes = 0
              /\ (EsperaRespuesta(g) /\ v \in avisados'[g] /\ rol[v] # "ELIMINADA")
                   => bandeja'[v][g].pendientes = 1
  <2>1. /\ bandeja[v][g].pendientes <= 1
        /\ ~EsperaRespuesta(g) => bandeja[v][g].pendientes = 0
        /\ (EsperaRespuesta(g) /\ v \in avisados[g] /\ rol[v] # "ELIMINADA")
             => bandeja[v][g].pendientes = 1
    BY <1>11 DEF IInvB, CampanaDelHilo
  <2>2. v \in avisados'[g] => v \in avisados[g] /\ bandeja'[v][g] = bandeja[v][g]
    BY <1>4, <1>5
  <2> QED BY <1>2, <1>8, <2>1, <2>2
<1>12. CampanaDelHilo'
  BY <1>1, <1>10, <1>11 DEF CampanaDelHilo
<1> QED BY <1>7, <1>9, <1>12 DEF IInvB, Conversacion

\* Only what was read is deleted, so no task goes with it.
LEMMA PasoBorrar ==
    ASSUME IInvB, NEW u \in Personas, BorrarLeidas(u) \/ \E h \in Hilos : Borrar(u, h)
    PROVE  IInvB'
<1>1. TiposB /\ UNCHANGED <<rol, hilos, tramite, cola, reclamado, avisados>>
  BY DEF IInvB, BorrarLeidas, Borrar
<1>2. /\ \A v \in Personas, g \in Hilos : bandeja[v][g] \in Contadores
      /\ \A v \in Personas : bandeja[v] \in [Hilos -> Contadores]
  BY <1>1 DEF TiposB
<1>3. /\ bandeja' \in [Personas -> [Hilos -> Contadores]]
      /\ \A v \in Personas, g \in Hilos : bandeja'[v][g].pendientes = bandeja[v][g].pendientes
  <2>1. CASE BorrarLeidas(u)
    <3>1. \A h \in Hilos : /\ [bandeja[u][h] EXCEPT !.leidos = 0] \in Contadores
                           /\ [bandeja[u][h] EXCEPT !.leidos = 0].pendientes = bandeja[u][h].pendientes
      BY <1>2 DEF Contadores
    <3> QED BY <1>1, <1>2, <2>1, <3>1 DEF BorrarLeidas, TiposB
  <2>2. ASSUME NEW h \in Hilos, Borrar(u, h)
        PROVE  /\ bandeja' \in [Personas -> [Hilos -> Contadores]]
               /\ \A v \in Personas, g \in Hilos : bandeja'[v][g].pendientes = bandeja[v][g].pendientes
    <3> DEFINE d == [bandeja[u][h] EXCEPT !.leidos = @ - 1]
    <3>1. d \in Contadores /\ d.pendientes = bandeja[u][h].pendientes
      BY <1>2, <2>2 DEF Contadores, Borrar
    <3>2. bandeja' = [bandeja EXCEPT ![u] = [bandeja[u] EXCEPT ![h] = d]]
      BY <1>1, <1>2, <2>2 DEF Borrar, TiposB, Contadores
    <3> HIDE DEF d
    <3>3. bandeja' \in [Personas -> [Hilos -> Contadores]]
      BY <1>1, <1>2, <3>1, <3>2 DEF TiposB
    <3>4. bandeja'[u] = [bandeja[u] EXCEPT ![h] = d] /\ \A v \in Personas \ {u} : bandeja'[v] = bandeja[v]
      BY <1>1, <3>2 DEF TiposB
    <3>5. bandeja'[u][h] = d /\ \A g \in Hilos \ {h} : bandeja'[u][g] = bandeja[u][g]
      BY <1>2, <3>4
    <3> QED BY <3>1, <3>3, <3>4, <3>5
  <2> QED BY <2>1, <2>2
<1>4. TiposB'
  BY <1>1, <1>3 DEF TiposB
<1>5. Conversacion'
  BY <1>1, <1>4, SoloLaCampana DEF IInvB, Conversacion
<1>6. ComoMuchoUno' /\ CampanaDelHilo'
  <2>1. \A g \in Hilos : \A v \in Personas :
           /\ bandeja'[v][g].pendientes <= 1
           /\ hilos'[g] = Ausente => bandeja'[v][g].pendientes = 0
           /\ (hilos'[g] # Ausente /\ cola'[g] = << >>) =>
                /\ ~EsperaRespuesta(g)' => bandeja'[v][g].pendientes = 0
                /\ (EsperaRespuesta(g)' /\ v \in avisados'[g] /\ rol'[v] # "ELIMINADA")
                     => bandeja'[v][g].pendientes = 1
    BY <1>1, <1>3 DEF IInvB, ComoMuchoUno, CampanaDelHilo, EsperaRespuesta
  <2> QED BY <2>1 DEF ComoMuchoUno, CampanaDelHilo
<1> QED BY <1>5, <1>6 DEF IInvB, Conversacion

\* A new role takes nothing from a bell: what its owner was told of stays there.
LEMMA PasoCambiarRol ==
    ASSUME IInvB, NEW u \in Personas, NEW r \in RolesB, CambiarRol(u, r)
    PROVE  IInvB'
<1>1. /\ TiposB /\ rol' = [rol EXCEPT ![u] = r] /\ rol[u] # "ELIMINADA"
      /\ UNCHANGED <<hilos, tramite, cola, bandeja, reclamado, avisados>>
  BY DEF IInvB, CambiarRol, Ve
<1>2. TiposB' /\ \A v \in Personas : rol'[v] # "ELIMINADA" => rol[v] # "ELIMINADA"
  BY <1>1 DEF TiposB
<1>3. Conversacion'
  BY <1>1, <1>2, SoloLaCampana DEF IInvB, Conversacion
<1>4. ComoMuchoUno'
  BY <1>1 DEF IInvB, ComoMuchoUno
<1>5. CampanaDelHilo'
  BY <1>1, <1>2 DEF IInvB, CampanaDelHilo, EsperaRespuesta
<1> QED BY <1>3, <1>4, <1>5 DEF IInvB, Conversacion

\* An account is deleted with its threads and the notices about them; it waits for whoever
\* has one open, so nobody writes back to a thread that is gone.
LEMMA PasoEliminar ==
    ASSUME BuzonAssumption, IInvB, NEW u \in Personas, EliminarDefinitivamente(u)
    PROVE  IInvB'
<1> DEFINE suyos == {h \in Hilos : hilos[h] # Ausente /\ hilos[h].autor = u}
<1>1. /\ TiposB /\ rol' = [rol EXCEPT ![u] = "ELIMINADA"] /\ suyos \cap EnTramite = {}
      /\ hilos' = [h \in Hilos |-> IF h \in suyos THEN Ausente ELSE hilos[h]]
      /\ bandeja' = [v \in Personas |-> [h \in Hilos |->
                       IF v = u \/ h \in suyos THEN SinAvisos ELSE bandeja[v][h]]]
      /\ reclamado' = reclamado \ suyos /\ UNCHANGED <<tramite, cola, avisados>>
  BY DEF IInvB, EliminarDefinitivamente
<1>2. suyos \subseteq Hilos
  OBVIOUS
<1> HIDE DEF suyos
<1>3. /\ hilos' \in [Hilos -> Hilo \cup {Ausente}]
      /\ \A h \in suyos : hilos'[h] = Ausente
      /\ \A h \in Hilos \ suyos : hilos'[h] = hilos[h]
  BY <1>1, <1>2 DEF TiposB
<1>4. SinAvisos \in Contadores /\ SinAvisos.pendientes = 0
  BY DEF SinAvisos, Contadores
<1>5. /\ bandeja' \in [Personas -> [Hilos -> Contadores]]
      /\ \A v \in Personas, h \in Hilos :
           bandeja'[v][h] = IF v = u \/ h \in suyos THEN SinAvisos ELSE bandeja[v][h]
  BY <1>1, <1>4 DEF TiposB
<1>6. TiposB' /\ rol'[u] = "ELIMINADA" /\ \A v \in Personas \ {u} : rol'[v] = rol[v]
  BY <1>1, <1>3, <1>5 DEF TiposB, RolesB
<1>7. LoLeidoEsVigente'
  <2>1. \A v \in Personas : tramite[v] # Ausente => tramite[v].hilo \in Hilos \ suyos
    BY <1>1, <1>2 DEF TiposB, Tramite, EnTramite
  <2> QED BY <1>1, <1>3, <2>1 DEF IInvB, LoLeidoEsVigente
<1>8. NadaReabiertoQuedaCerrado'
  BY <1>1, <1>2, <1>3 DEF IInvB, NadaReabiertoQuedaCerrado
<1>9. UltimoEvento'
  BY <1>1, <1>2, <1>3 DEF IInvB, UltimoEvento, EsperaRespuesta
<1>10. ComoMuchoUno'
  BY <1>2, <1>3, <1>4, <1>5 DEF IInvB, ComoMuchoUno
<1>11. CampanaDelHilo'
  <2>1. ASSUME NEW v \in Personas, NEW h \in Hilos, hilos'[h] # Ausente, cola'[h] = << >>
        PROVE  /\ bandeja'[v][h].pendientes <= 1
               /\ ~EsperaRespuesta(h)' => bandeja'[v][h].pendientes = 0
               /\ (EsperaRespuesta(h)' /\ v \in avisados'[h] /\ rol'[v] # "ELIMINADA")
                    => bandeja'[v][h].pendientes = 1
    <3>1. h \notin suyos /\ hilos'[h] = hilos[h] /\ cola[h] = << >> /\ hilos[h] # Ausente
      BY <1>1, <1>3, <2>1
    <3>2. EsperaRespuesta(h)' <=> EsperaRespuesta(h)
      BY <3>1 DEF EsperaRespuesta
    <3>3. CASE v = u
      BY <1>4, <1>5, <1>6, <3>3
    <3>4. CASE v # u
      BY <1>1, <1>5, <1>6, <3>1, <3>2, <3>4 DEF IInvB, CampanaDelHilo
    <3> QED BY <3>3, <3>4
  <2> QED BY <2>1 DEF CampanaDelHilo
<1> QED BY <1>6, <1>7, <1>8, <1>9, <1>10, <1>11 DEF IInvB

-----------------------------------------------------------------------------
(* The theorems                                                              *)

\* The invariant of the mailbox is inductive: what each request read of its thread under
\* the lock, what the last event of a thread says of it, and what the bell shows.
THEOREM InvarianteDelBuzon == SpecB => []IInvB
<1>1. InitB => IInvB
  BY InicioB, BuzonAssumption
<1>2. IInvB /\ [NextB]_varsB => IInvB'
  <2> SUFFICES ASSUME IInvB, [NextB]_varsB PROVE IInvB'
    OBVIOUS
  <2>1. CASE Conversaciones
    BY <2>1, BuzonAssumption, PasoEscribir, PasoAbrir, PasoGuardar, PasoAbandonar DEF Conversaciones
  <2>2. CASE EntregasB
    BY <2>2, BuzonAssumption, PasoEntregar DEF EntregasB
  <2>3. CASE LecturasB
    BY <2>3, PasoLeer DEF LecturasB
  <2>4. CASE Borrados
    BY <2>4, PasoBorrar DEF Borrados
  <2>5. CASE CambiosDePersona
    BY <2>5, BuzonAssumption, PasoCambiarRol, PasoEliminar DEF CambiosDePersona
  <2>6. CASE UNCHANGED varsB
    BY <2>6 DEF varsB, IInvB, TiposB, LoLeidoEsVigente, NadaReabiertoQuedaCerrado, UltimoEvento,
       ComoMuchoUno, CampanaDelHilo, EsperaRespuesta
  <2> QED BY <2>1, <2>2, <2>3, <2>4, <2>5, <2>6 DEF NextB
<1> QED BY <1>1, <1>2, PTL DEF SpecB

\* However many people write, answer and resolve at once, no thread stays closed over a
\* message its author wrote afterwards, nor open over a resolution.
THEOREM NadaQuedaCerrado == SpecB => []NadaReabiertoQuedaCerrado
<1>1. IInvB => NadaReabiertoQuedaCerrado
  BY DEF IInvB
<1> QED BY <1>1, InvarianteDelBuzon, PTL

\* With its events delivered, a thread that waits is in the bell of every Admin who was
\* told and did not look, once, and one that does not wait is a task of nobody, whatever was
\* answered, read, deleted or changed of role in between.
THEOREM LaCampanaDelHilo == SpecB => []CampanaDelHilo
<1>1. IInvB => CampanaDelHilo
  BY DEF IInvB
<1> QED BY <1>1, InvarianteDelBuzon, PTL

-----------------------------------------------------------------------------
(* CuentasDeEquipo                                                           *)

\* What an account keeps is noted with what it says now.
GuardadaAnotada ==
    \A f \in Fichas : fichas[f] # Ninguna => Anotada(f, fichas[f]) \subseteq anotadas

\* A reveal under way keeps what justified it, whatever happens to the account meanwhile, and
\* has its row when its turn to answer comes.
PedidoConMotivo ==
    \A p \in Pedidos : pedidos[p] # Ninguna =>
        /\ pedidos[p].leida.cifrada # Ninguna
        /\ Anotada(pedidos[p].ficha, pedidos[p].leida) \subseteq anotadas
        /\ pedidos[p].rol = "ADMIN" \/ pedidos[p].leida.visibilidad = "PUBLICA"
        /\ pedidos[p].fase = "asentada" => FilaDe(pedidos[p]) \in asentadas

IInvP == TypeOKP /\ GuardadaAnotada /\ PedidoConMotivo /\ TodaVistaConMotivo

LEMMA InicioP == InitP => IInvP
<1> SUFFICES ASSUME InitP PROVE IInvP
  OBVIOUS
<1>1. TypeOKP
  BY CuentasDeEquipoAssumption DEF InitP, TypeOKP
<1>2. GuardadaAnotada /\ PedidoConMotivo /\ TodaVistaConMotivo
  BY DEF InitP, GuardadaAnotada, PedidoConMotivo, TodaVistaConMotivo
<1> QED BY <1>1, <1>2 DEF IInvP

LEMMA CuentaPeticiones == ASSUME TypeOKP, Cuenta PROVE cambiosP' \in 0 .. MaxCambiosP
BY CuentasDeEquipoAssumption DEF TypeOKP, Cuenta

\* Writing an account, with or without a password.
LEMMA GuardarFichaPreserva ==
    ASSUME IInvP, Cuenta, NEW f \in Fichas, NEW r \in Ficha, GuardarFicha(f, r)
    PROVE  IInvP'
<1>1. /\ fichas' = [fichas EXCEPT ![f] = r]
      /\ anotadas' = anotadas \cup Anotada(f, r)
      /\ UNCHANGED <<clave, pedidos, asentadas, vistas>>
  BY DEF GuardarFicha
<1>2. Anotada(f, r) \subseteq Anotacion
  BY DEF Anotada, Anotacion, Ficha, Cifrada
<1>3. TypeOKP'
  BY <1>1, <1>2, CuentaPeticiones DEF IInvP, TypeOKP
<1>4. fichas'[f] = r /\ \A o \in Fichas \ {f} : fichas'[o] = fichas[o]
  BY <1>1 DEF IInvP, TypeOKP
<1>5. GuardadaAnotada'
  BY <1>1, <1>4 DEF IInvP, GuardadaAnotada
<1>6. PedidoConMotivo' /\ TodaVistaConMotivo'
  BY <1>1 DEF IInvP, PedidoConMotivo, TodaVistaConMotivo
<1> QED BY <1>3, <1>5, <1>6 DEF IInvP

LEMMA CifrarTipo ==
    ASSUME TypeOKP, NEW w \in Passwords \cup {Ninguna}, NEW tiene \in BOOLEAN, SePuedeAnotar(w, tiene)
    PROVE  CifrarPassword(w) \in Cifrada \cup {Ninguna}
BY DEF TypeOKP, SePuedeAnotar, Disponible, CifrarPassword, Cifrada

LEMMA PeticionesPreservan ==
    ASSUME IInvP, PeticionesDeCuentas
    PROVE  IInvP'
<1>1. PICK f \in Fichas :
        \/ \E u \in UsuariosPC, v \in Visibilidades, tiene \in BOOLEAN, w \in Passwords \cup {Ninguna} :
             CrearCuentaDeEquipo(f, u, v, tiene, w)
        \/ \E u \in UsuariosPC, v \in Visibilidades, tiene, trae \in BOOLEAN,
              w \in Passwords \cup {Ninguna} : EditarCuentaDeEquipo(f, u, v, tiene, trae, w)
        \/ BorrarCuentaDeEquipo(f)
  BY DEF PeticionesDeCuentas
<1>2. ASSUME NEW u \in UsuariosPC, NEW v \in Visibilidades, NEW tiene \in BOOLEAN,
             NEW w \in Passwords \cup {Ninguna}, CrearCuentaDeEquipo(f, u, v, tiene, w)
      PROVE  IInvP'
  <2>1. CifrarPassword(w) \in Cifrada \cup {Ninguna}
    BY <1>2, CifrarTipo DEF IInvP, CrearCuentaDeEquipo
  <2>2. [usuario |-> u, visibilidad |-> v, tiene |-> tiene, cifrada |-> CifrarPassword(w)] \in Ficha
    BY <2>1 DEF Ficha
  <2> QED BY <1>2, <2>2, GuardarFichaPreserva DEF CrearCuentaDeEquipo
<1>3. ASSUME NEW u \in UsuariosPC, NEW v \in Visibilidades, NEW tiene \in BOOLEAN, NEW trae \in BOOLEAN,
             NEW w \in Passwords \cup {Ninguna}, EditarCuentaDeEquipo(f, u, v, tiene, trae, w)
      PROVE  IInvP'
  <2> DEFINE c == IF trae THEN CifrarPassword(w) ELSE Conservada(f, tiene)
  <2>1. c \in Cifrada \cup {Ninguna}
    <3>1. trae => CifrarPassword(w) \in Cifrada \cup {Ninguna}
      BY <1>3, CifrarTipo DEF IInvP, EditarCuentaDeEquipo
    <3>2. fichas[f] \in Ficha
      BY <1>3 DEF IInvP, TypeOKP, EditarCuentaDeEquipo
    <3>3. Conservada(f, tiene) \in Cifrada \cup {Ninguna}
      BY <3>2 DEF Conservada, Ficha
    <3> QED BY <3>1, <3>3
  <2>2. GuardarFicha(f, [usuario |-> u, visibilidad |-> v, tiene |-> tiene, cifrada |-> c]) /\ Cuenta
    BY <1>3 DEF EditarCuentaDeEquipo
  <2> HIDE DEF c
  <2>3. [usuario |-> u, visibilidad |-> v, tiene |-> tiene, cifrada |-> c] \in Ficha
    BY <2>1 DEF Ficha
  <2> QED BY <2>2, <2>3, GuardarFichaPreserva
<1>4. ASSUME BorrarCuentaDeEquipo(f) PROVE IInvP'
  <2>1. /\ fichas' = [fichas EXCEPT ![f] = Ninguna] /\ Cuenta
        /\ UNCHANGED <<clave, pedidos, asentadas, anotadas, vistas>>
    BY <1>4 DEF BorrarCuentaDeEquipo
  <2>2. TypeOKP'
    BY <2>1, CuentaPeticiones DEF IInvP, TypeOKP
  <2>3. GuardadaAnotada' /\ PedidoConMotivo' /\ TodaVistaConMotivo'
    BY <2>1 DEF IInvP, TypeOKP, GuardadaAnotada, PedidoConMotivo, TodaVistaConMotivo
  <2> QED BY <2>2, <2>3 DEF IInvP
<1> QED BY <1>1, <1>2, <1>3, <1>4

LEMMA RevelacionesPreservan ==
    ASSUME IInvP, Revelaciones
    PROVE  IInvP'
<1>1. PICK p \in Pedidos :
        \/ \E f \in Fichas, r \in Roles : Revelar(p, f, r)
        \/ RegistrarRevelacion(p) \/ Responder(p)
  BY DEF Revelaciones
<1>2. ASSUME NEW f \in Fichas, NEW r \in Roles, Revelar(p, f, r) PROVE IInvP'
  <2> DEFINE t == [n |-> cambiosP', ficha |-> f, rol |-> r, leida |-> fichas[f], fase |-> "leida"]
  <2>1. /\ pedidos' = [pedidos EXCEPT ![p] = t] /\ Cuenta
        /\ fichas[f] # Ninguna /\ fichas[f].cifrada # Ninguna
        /\ r = "ADMIN" \/ fichas[f].visibilidad = "PUBLICA"
        /\ UNCHANGED <<clave, fichas, asentadas, anotadas, vistas>>
    BY <1>2 DEF Revelar, PuedeRevelar, HayPasswordGuardada
  <2>2. cambiosP' \in 1 .. MaxCambiosP
    BY <2>1, CuentasDeEquipoAssumption DEF Cuenta, IInvP, TypeOKP
  <2>3. t \in Pedido /\ t.ficha = f /\ t.rol = r /\ t.leida = fichas[f] /\ t.fase # "asentada"
    BY <2>1, <2>2 DEF IInvP, TypeOKP, Pedido
  <2>4. Anotada(t.ficha, t.leida) \subseteq anotadas
    BY <2>1, <2>3 DEF IInvP, GuardadaAnotada
  <2> HIDE DEF t
  <2>5. TypeOKP'
    BY <2>1, <2>2, <2>3 DEF IInvP, TypeOKP
  <2>6. PedidoConMotivo'
    BY <2>1, <2>3, <2>4 DEF IInvP, TypeOKP, PedidoConMotivo
  <2>7. GuardadaAnotada' /\ TodaVistaConMotivo'
    BY <2>1 DEF IInvP, GuardadaAnotada, TodaVistaConMotivo
  <2> QED BY <2>5, <2>6, <2>7 DEF IInvP
<1>3. ASSUME RegistrarRevelacion(p) PROVE IInvP'
  <2>1. PICK t : t = pedidos[p] /\ t \in Pedido /\ t # Ninguna
    BY <1>3 DEF RegistrarRevelacion, IInvP, TypeOKP
  <2>2. FilaDe(t) \in Fila
    BY <2>1 DEF FilaDe, Fila, Pedido, Ficha
  <2>3. /\ asentadas \subseteq asentadas' /\ asentadas' \subseteq asentadas \cup {FilaDe(t)}
        /\ \/ pedidos' = [pedidos EXCEPT ![p] = [t EXCEPT !.fase = "asentada"]] /\ FilaDe(t) \in asentadas'
           \/ pedidos' = [pedidos EXCEPT ![p] = Ninguna]
        /\ UNCHANGED <<clave, fichas, anotadas, vistas, cambiosP>>
    <3>1. CASE /\ asentadas' = asentadas \cup {FilaDe(pedidos[p])}
               /\ pedidos' = [pedidos EXCEPT ![p].fase = "asentada"]
      BY <1>3, <2>1, <3>1 DEF RegistrarRevelacion
    <3>2. CASE /\ asentadas' \in {asentadas, asentadas \cup {FilaDe(pedidos[p])}}
               /\ pedidos' = [pedidos EXCEPT ![p] = TrasFallar(@)]
      BY <1>3, <2>1, <3>2 DEF RegistrarRevelacion, TrasFallar
    <3> QED BY <1>3, <3>1, <3>2 DEF RegistrarRevelacion
  <2>4. PICK u : u = [t EXCEPT !.fase = "asentada"]
    OBVIOUS
  <2>5. /\ u \in Pedido /\ u.leida = t.leida /\ u.ficha = t.ficha /\ u.rol = t.rol
        /\ FilaDe(u) = FilaDe(t)
    BY <2>1, <2>4 DEF Pedido, FilaDe
  <2>6. TypeOKP'
    BY <2>2, <2>3, <2>4, <2>5 DEF IInvP, TypeOKP
  <2>7. \A q \in Pedidos \ {p} : pedidos'[q] = pedidos[q]
    BY <2>3 DEF IInvP, TypeOKP
  <2>8. pedidos'[p] = Ninguna \/ (pedidos'[p] = u /\ FilaDe(u) \in asentadas')
    BY <2>3, <2>4, <2>5 DEF IInvP, TypeOKP
  <2>9. PedidoConMotivo'
    BY <2>1, <2>3, <2>5, <2>7, <2>8 DEF IInvP, PedidoConMotivo
  <2>10. GuardadaAnotada' /\ TodaVistaConMotivo'
    BY <2>3 DEF IInvP, GuardadaAnotada, TodaVistaConMotivo
  <2> QED BY <2>6, <2>9, <2>10 DEF IInvP
<1>4. ASSUME Responder(p) PROVE IInvP'
  <2>1. PICK t : t = pedidos[p] /\ t \in Pedido /\ t # Ninguna /\ t.fase = "asentada"
    BY <1>4 DEF Responder, IInvP, TypeOKP
  <2>2. /\ vistas' = vistas \cup {VistaDe(t)}
        /\ pedidos' = [pedidos EXCEPT ![p] = Ninguna]
        /\ UNCHANGED <<clave, fichas, asentadas, anotadas, cambiosP>>
    BY <1>4, <2>1 DEF Responder
  <2>3. /\ t.leida \in Ficha /\ t.leida.cifrada # Ninguna
        /\ Anotada(t.ficha, t.leida) \subseteq anotadas
        /\ t.rol = "ADMIN" \/ t.leida.visibilidad = "PUBLICA"
        /\ FilaDe(t) \in asentadas
    BY <1>4, <2>1 DEF Responder, IInvP, PedidoConMotivo, Pedido
  <2>4. VistaDe(t) \in Vista
    BY <2>1, <2>3 DEF VistaDe, Vista, Pedido, Ficha, Cifrada
  <2>5. TypeOKP'
    BY <2>2, <2>4 DEF IInvP, TypeOKP
  <2>6. GuardadaAnotada' /\ PedidoConMotivo'
    BY <2>2 DEF IInvP, TypeOKP, GuardadaAnotada, PedidoConMotivo
  <2>7. [ficha |-> t.ficha, usuario |-> t.leida.usuario, visibilidad |-> t.leida.visibilidad,
         texto |-> t.leida.cifrada.texto] \in anotadas
    BY <2>3 DEF Anotada
  <2>8. PICK a \in asentadas : a = FilaDe(t)
    BY <2>3
  <2>9. PICK v : v = VistaDe(t)
    OBVIOUS
  <2>10. /\ a.n = t.n /\ a.ficha = t.ficha /\ a.rol = t.rol
         /\ a.usuario = t.leida.usuario /\ a.visibilidad = t.leida.visibilidad
         /\ v.n = t.n /\ v.ficha = t.ficha /\ v.rol = t.rol /\ v.texto = t.leida.cifrada.texto
    BY <2>8, <2>9 DEF FilaDe, VistaDe
  <2>11. TodaVistaConMotivo'
    BY <2>2, <2>3, <2>7, <2>8, <2>9, <2>10 DEF IInvP, TodaVistaConMotivo
  <2> QED BY <2>5, <2>6, <2>11 DEF IInvP
<1> QED BY <1>1, <1>2, <1>3, <1>4

LEMMA ReiniciarPreserva ==
    ASSUME IInvP, NEW k \in Claves \cup {Ninguna}, Reiniciar(k)
    PROVE  IInvP'
<1>1. /\ clave' = k /\ pedidos' = [p \in Pedidos |-> Ninguna] /\ Cuenta
      /\ UNCHANGED <<fichas, asentadas, anotadas, vistas>>
  BY DEF Reiniciar
<1>2. TypeOKP'
  BY <1>1, CuentaPeticiones DEF IInvP, TypeOKP
<1>3. GuardadaAnotada' /\ PedidoConMotivo' /\ TodaVistaConMotivo'
  BY <1>1 DEF IInvP, GuardadaAnotada, PedidoConMotivo, TodaVistaConMotivo
<1> QED BY <1>2, <1>3 DEF IInvP

\* Whatever is edited, erased or restarted while a password is on its way.
THEOREM CuentasDeEquipoCoherentes == SpecP => []IInvP
<1>1. IInvP /\ [NextP]_varsP => IInvP'
  <2> SUFFICES ASSUME IInvP, [NextP]_varsP PROVE IInvP'
    OBVIOUS
  <2>1. CASE PeticionesDeCuentas
    BY <2>1, PeticionesPreservan
  <2>2. CASE Revelaciones
    BY <2>2, RevelacionesPreservan
  <2>3. CASE \E k \in Claves \cup {Ninguna} : Reiniciar(k)
    BY <2>3, ReiniciarPreserva
  <2>4. CASE UNCHANGED varsP
    BY <2>4 DEF varsP, IInvP, TypeOKP, GuardadaAnotada, PedidoConMotivo, TodaVistaConMotivo
  <2> QED BY <2>1, <2>2, <2>3, <2>4 DEF NextP
<1> QED BY <1>1, InicioP, PTL DEF SpecP

\* Nobody is ever shown a password without a reason and a row of audit.
THEOREM TodaVistaSiempreConMotivo == SpecP => []TodaVistaConMotivo
<1>1. IInvP => TodaVistaConMotivo
  BY DEF IInvP
<1> QED BY <1>1, CuentasDeEquipoCoherentes, PTL

-----------------------------------------------------------------------------
(* The desk of Jornada                                                       *)

TiposDelMostrador ==
    /\ aprobados \subseteq Usuarios
    /\ horarios \in [Bloques -> BloqueHorario \cup {Nadie}]
    /\ excepciones \in [Usuarios \X Fechas -> Excepcion \cup {Nadie}]

IInvM == TiposDelMostrador /\ HorarioSinSolape

\* The sweep and the screen compute the same from the same rows.
LEMMA PantallaYBarrido ==
    ASSUME TiposDelMostrador
    PROVE  PantallaYBarridoCoinciden
<1> SUFFICES ASSUME NEW f \in Fechas, NEW h \in Horas
             PROVE  /\ MostradorEn(f, h) <=> \E u \in aprobados : DisponibleAhora(u, f, h)
                    /\ (MostradorEseDia(f) /\ Opera(f, MostradorEn(f, h))) => MostradorEn(f, h)
  BY DEF PantallaYBarridoCoinciden
<1>1. ASSUME NEW u \in aprobados
      PROVE  DisponibleAhora(u, f, h) <=> \E t \in TramosDeAtencion(u, f) : t.inicio <= h /\ h < t.fin
  <2>1. PICK x : x = excepciones[<<u, f>>] /\ x \in Excepcion \cup {Nadie}
    BY DEF TiposDelMostrador
  <2>2. CASE x = Nadie
    <3>1. TramosDeAtencion(u, f) = {[inicio |-> b.inicio, fin |-> b.fin] : b \in {o \in BloquesDe(u) : o.dia = DiaDe(f)}}
      BY <2>1, <2>2 DEF TramosDeAtencion
    <3>2. DisponibleAhora(u, f, h) <=> \E b \in BloquesDe(u) : b.dia = DiaDe(f) /\ b.inicio <= h /\ h < b.fin
      BY <2>1, <2>2 DEF DisponibleAhora
    <3>3. ASSUME NEW b \in BloquesDe(u), b.dia = DiaDe(f), b.inicio <= h, h < b.fin
          PROVE  \E t \in TramosDeAtencion(u, f) : t.inicio <= h /\ h < t.fin
      <4>1. PICK t : t = [inicio |-> b.inicio, fin |-> b.fin] /\ t \in TramosDeAtencion(u, f)
        BY <3>1, <3>3
      <4>2. t.inicio = b.inicio /\ t.fin = b.fin
        BY <4>1
      <4> QED BY <3>3, <4>1, <4>2
    <3>4. ASSUME NEW t \in TramosDeAtencion(u, f), t.inicio <= h, h < t.fin
          PROVE  \E b \in BloquesDe(u) : b.dia = DiaDe(f) /\ b.inicio <= h /\ h < b.fin
      <4>1. PICK b \in BloquesDe(u) : b.dia = DiaDe(f) /\ t = [inicio |-> b.inicio, fin |-> b.fin]
        BY <3>1, <3>4
      <4>2. t.inicio = b.inicio /\ t.fin = b.fin
        BY <4>1
      <4> QED BY <3>4, <4>1, <4>2
    <3> QED BY <3>2, <3>3, <3>4
  <2>3. CASE x # Nadie
    <3>1. x.tipo \in {"NO_DISPONIBLE", "HORARIO_MODIFICADO"}
      BY <2>1, <2>3 DEF Excepcion
    <3>2. TramosDeAtencion(u, f) = IF x.tipo = "NO_DISPONIBLE" THEN {} ELSE {[inicio |-> x.inicio, fin |-> x.fin]}
      BY <2>1, <2>3 DEF TramosDeAtencion
    <3>3. DisponibleAhora(u, f, h) <=> x.tipo = "HORARIO_MODIFICADO" /\ x.inicio <= h /\ h < x.fin
      BY <2>1, <2>3 DEF DisponibleAhora
    <3>4. PICK t : t = [inicio |-> x.inicio, fin |-> x.fin]
      OBVIOUS
    <3>5. t.inicio = x.inicio /\ t.fin = x.fin
      BY <3>4
    <3>6. TramosDeAtencion(u, f) = IF x.tipo = "NO_DISPONIBLE" THEN {} ELSE {t}
      BY <3>2, <3>4
    <3>7. CASE x.tipo = "NO_DISPONIBLE"
      BY <3>3, <3>6, <3>7
    <3>8. CASE x.tipo = "HORARIO_MODIFICADO"
      BY <3>3, <3>5, <3>6, <3>8
    <3> QED BY <3>1, <3>7, <3>8
  <2> QED BY <2>2, <2>3
<1>2. ASSUME NEW u \in aprobados, TramosDeAtencion(u, f) # {} PROVE Declarado(f)
  <2>1. excepciones[<<u, f>>] = Nadie => BloquesDe(u) # {}
    BY <1>2 DEF TramosDeAtencion
  <2> QED BY <2>1 DEF Declarado
<1> QED BY <1>1, <1>2 DEF MostradorEn, MostradorEseDia, Opera

LEMMA GuardarBloquePreserva ==
    ASSUME IInvM, NEW b \in Bloques, NEW r \in BloqueHorario, GuardarBloque(b, r)
    PROVE  IInvM'
<1>1. /\ VerificarSinSolape(b, r) /\ horarios' = [horarios EXCEPT ![b] = r]
      /\ UNCHANGED <<aprobados, excepciones>>
  BY DEF GuardarBloque
<1>2. TiposDelMostrador' /\ horarios'[b] = r /\ \A o \in Bloques \ {b} : horarios'[o] = horarios[o]
  BY <1>1 DEF IInvM, TiposDelMostrador
<1>3. \A x, y : SeSolapaCon(x, y) <=> SeSolapaCon(y, x)
  BY DEF SeSolapaCon
<1>4. \A o \in Bloques \ {b} : horarios[o] # Nadie /\ horarios[o].usuario = r.usuario =>
         ~SeSolapaCon(r, horarios[o]) /\ ~SeSolapaCon(horarios[o], r)
  BY <1>1, <1>3 DEF VerificarSinSolape
<1>5. HorarioSinSolape'
  <2> SUFFICES ASSUME NEW x \in Bloques, NEW y \in Bloques, x # y, horarios'[x] # Nadie, horarios'[y] # Nadie,
                      horarios'[x].usuario = horarios'[y].usuario
               PROVE  ~SeSolapaCon(horarios'[x], horarios'[y])
    BY DEF HorarioSinSolape, SeSolapaCon
  <2>1. CASE x = b
    BY <1>2, <1>4, <2>1
  <2>2. CASE y = b
    BY <1>2, <1>4, <2>2
  <2>3. CASE x # b /\ y # b
    BY <1>2, <2>3 DEF IInvM, HorarioSinSolape
  <2> QED BY <2>1, <2>2, <2>3
<1> QED BY <1>2, <1>5 DEF IInvM

LEMMA MostradorPreserva == IInvM /\ [NextJ]_varsJ => IInvM'
<1> SUFFICES ASSUME IInvM, [NextJ]_varsJ PROVE IInvM'
  OBVIOUS
<1>1. ASSUME UNCHANGED <<aprobados, horarios, excepciones>> PROVE IInvM'
  BY <1>1 DEF IInvM, TiposDelMostrador, HorarioSinSolape
<1>2. CASE NextClases
  <2>1. UNCHANGED <<aprobados, horarios, excepciones>>
    BY <1>2 DEF NextClases, PeticionesDeJornada, PeticionesDeClases, Tick, MostrarImpacto, AmpliarJornada,
                ReemplazarJornada, Reemplazar, CrearReserva, CancelarReserva
  <2> QED BY <1>1, <2>1
<1>3. CASE PeticionesDeAgregar
  BY <1>3, GuardarBloquePreserva DEF PeticionesDeAgregar, AgregarBloque
<1>4. CASE PeticionesDeEditar
  BY <1>4, GuardarBloquePreserva DEF PeticionesDeEditar, EditarBloque
<1>5. CASE PeticionesDeEliminar
  <2>1. PICK b \in Bloques : EliminarBloque(b)
    BY <1>5 DEF PeticionesDeEliminar
  <2>2. /\ UNCHANGED <<aprobados, excepciones>> /\ horarios' = [horarios EXCEPT ![b] = Nadie]
    BY <2>1 DEF EliminarBloque
  <2>3. TiposDelMostrador' /\ horarios'[b] = Nadie /\ \A o \in Bloques \ {b} : horarios'[o] = horarios[o]
    BY <2>2 DEF IInvM, TiposDelMostrador
  <2>4. \A o \in Bloques : horarios'[o] # Nadie => horarios'[o] = horarios[o]
    BY <2>3
  <2>5. HorarioSinSolape'
    BY <2>4 DEF IInvM, HorarioSinSolape
  <2> QED BY <2>3, <2>5 DEF IInvM
<1>6. ASSUME NEW u \in Usuarios, NEW f \in Fechas, NEW x \in Excepcion, CargarExcepcion(u, f, x) PROVE IInvM'
  <2>1. /\ UNCHANGED <<aprobados, horarios>> /\ excepciones' = [excepciones EXCEPT ![<<u, f>>] = x]
    BY <1>6 DEF CargarExcepcion
  <2>2. TiposDelMostrador'
    BY <2>1 DEF IInvM, TiposDelMostrador
  <2> QED BY <2>1, <2>2 DEF IInvM, HorarioSinSolape
<1>7. CASE PeticionesDeExcepcion
  BY <1>6, <1>7 DEF PeticionesDeExcepcion
<1>8. CASE AvisosDeAusencia
  <2>1. [tipo |-> "NO_DISPONIBLE"] \in Excepcion
    BY DEF Excepcion
  <2> QED BY <1>6, <1>8, <2>1 DEF AvisosDeAusencia, MarcarNoDisponibleAhora
<1>9. CASE CambiosDeCuenta
  BY <1>9 DEF CambiosDeCuenta, CambiarAprobado, IInvM, TiposDelMostrador, HorarioSinSolape
<1>10. CASE UNCHANGED varsJ
  BY <1>1, <1>10 DEF varsJ
<1> QED BY <1>2, <1>3, <1>4, <1>5, <1>7, <1>8, <1>9, <1>10 DEF NextJ, NextMostrador

\* The desk: no block of an Admin over another, and one answer to who attends.
THEOREM MostradorSiempreCoherente == SpecJ => []MostradorCoherente
<1>1. InitJ => IInvM
  BY DEF InitJ, IInvM, TiposDelMostrador, HorarioSinSolape
<1>2. IInvM => MostradorCoherente
  BY PantallaYBarrido DEF IInvM, MostradorCoherente
<1> QED BY <1>1, <1>2, MostradorPreserva, PTL DEF SpecJ

-----------------------------------------------------------------------------
(* The opening hours of Jornada: first what the merging of blocks computes,   *)
(* then that no change of hours and no booking leaves a class outside them.   *)

\* One step of the recursion that FoldLeft makes, from the last to the first.
UnPaso(g, s, S) == IF S = {} THEN << >> ELSE Fusionar(g[S \ {Max(S)}], s[Max(S)])

LEMMA ElMayor ==
    ASSUME NEW k \in Nat, NEW S \in SUBSET (1 .. k + 1), k + 1 \in S PROVE Max(S) = k + 1
<1>1. \A y \in S : y \in Nat /\ k + 1 >= y
  OBVIOUS
<1>2. \A x \in S : (\A y \in S : x >= y) => x = k + 1
  BY <1>1
<1>3. Max(S) \in S /\ \A y \in S : Max(S) >= y
  BY <1>1 DEF Max
<1> QED BY <1>2, <1>3

\* The function FoldLeft defines by recursion exists.
LEMMA HayRecursion ==
    ASSUME NEW s, NEW n \in Nat
    PROVE  \E g : g = [S \in SUBSET (1 .. n) |-> UnPaso(g, s, S)]
<1> DEFINE Es(g, k) == g = [S \in SUBSET (1 .. k) |-> UnPaso(g, s, S)]
           T == {k \in Nat : \E g : Es(g, k)}
<1>1. 0 \in T
  <2> DEFINE g == [S \in SUBSET (1 .. 0) |-> << >>]
  <2>1. \A S \in SUBSET (1 .. 0) : S = {}
    OBVIOUS
  <2>2. \A S \in SUBSET (1 .. 0) : g[S] = UnPaso(g, s, S)
    BY <2>1 DEF UnPaso
  <2>3. g = [S \in SUBSET (1 .. 0) |-> UnPaso(g, s, S)]
    <3>1. g = [S \in SUBSET (1 .. 0) |-> g[S]]
      OBVIOUS
    <3> HIDE DEF g
    <3> QED BY <2>2, <3>1
  <2> HIDE DEF g
  <2>4. Es(g, 0)
    BY <2>3
  <2> QED BY <2>4
<1>2. \A k \in T : k + 1 \in T
  <2>1. TAKE k \in T
  <2>2. PICK g : Es(g, k)
    OBVIOUS
  <2>3. k \in Nat
    OBVIOUS
  <2>4. \A S \in SUBSET (1 .. k) : g[S] = UnPaso(g, s, S)
    BY <2>2
  <2> DEFINE h == [S \in SUBSET (1 .. k + 1) |->
                     IF k + 1 \in S THEN Fusionar(g[S \ {k + 1}], s[k + 1]) ELSE g[S]]
  <2>5. ASSUME NEW S \in SUBSET (1 .. k + 1), k + 1 \notin S
        PROVE  S \in SUBSET (1 .. k) /\ S \in SUBSET (1 .. k + 1) /\ h[S] = g[S]
    <3>1. \A x \in S : x \in 1 .. k
      BY <2>3, <2>5
    <3> QED BY <2>5, <3>1
  <2>6. \A S \in SUBSET (1 .. k + 1) : k + 1 \in S => h[S] = Fusionar(g[S \ {k + 1}], s[k + 1])
    OBVIOUS
  <2>7. h = [S \in SUBSET (1 .. k + 1) |-> h[S]]
    OBVIOUS
  <2> HIDE DEF h
  <2>8. ASSUME NEW S \in SUBSET (1 .. k + 1) PROVE h[S] = UnPaso(h, s, S)
    <3>1. CASE k + 1 \in S
      <4>1. Max(S) = k + 1 /\ S # {}
        BY <2>3, <3>1, ElMayor
      <4>2. h[S \ {k + 1}] = g[S \ {k + 1}]
        BY <2>5
      <4> QED BY <2>6, <3>1, <4>1, <4>2 DEF UnPaso
    <3>2. CASE k + 1 \notin S
      <4>1. h[S] = UnPaso(g, s, S)
        BY <2>4, <2>5, <3>2
      <4>2. h[S \ {Max(S)}] = g[S \ {Max(S)}]
        BY <2>5, <3>2
      <4> QED BY <4>1, <4>2 DEF UnPaso
    <3> QED BY <3>1, <3>2
  <2>9. Es(h, k + 1)
    BY <2>7, <2>8
  <2> QED BY <2>3, <2>9
<1>3. T = Nat
  <2>1. T \in SUBSET Nat
    OBVIOUS
  <2> HIDE DEF T
  <2> QED BY <1>1, <1>2, <2>1, InduccionDeConjuntos
<1>4. n \in T
  BY <1>3
<1> QED BY <1>4

\* Merging the blocks of s is merging them one by one, in order.
LEMMA FusionPorPasos ==
    ASSUME NEW X, NEW s \in Seq(X)
    PROVE  \E f : /\ f[0] = << >>
                  /\ \A m \in 1 .. Len(s) : f[m] = Fusionar(f[m - 1], s[m])
                  /\ FoldLeft(Fusionar, << >>, s) = f[Len(s)]
<1> DEFINE n == Len(s)
           Es(g) == g = [S \in SUBSET (1 .. n) |-> UnPaso(g, s, S)]
           h == CHOOSE g : Es(g)
           f == [m \in 0 .. n |-> h[1 .. m]]
<1>1. n \in Nat /\ DOMAIN s = 1 .. n
  OBVIOUS
<1>2. Es(h)
  <2>1. \E g : Es(g)
    BY <1>1, HayRecursion
  <2> HIDE DEF Es
  <2> QED BY <2>1
<1>3. FoldLeft(Fusionar, << >>, s) = h[1 .. n]
  BY <1>1 DEF FoldLeft, MapThenFoldSet, UnPaso
<1> HIDE DEF h
<1>4. \A S \in SUBSET (1 .. n) : h[S] = UnPaso(h, s, S)
  BY <1>2
<1>5. f[0] = << >>
  <2>1. 1 .. 0 = {} /\ {} \in SUBSET (1 .. n) /\ 0 \in 0 .. n
    BY <1>1
  <2>2. h[{}] = << >>
    BY <1>4, <2>1 DEF UnPaso
  <2> QED BY <2>1, <2>2
<1>6. ASSUME NEW m \in 1 .. n PROVE f[m] = Fusionar(f[m - 1], s[m])
  <2>1. m - 1 \in Nat /\ m \in 0 .. n /\ m - 1 \in 0 .. n /\ (m - 1) + 1 = m
    BY <1>1
  <2>2. 1 .. m \in SUBSET (1 .. n) /\ m \in 1 .. m
    BY <1>1
  <2>3. Max(1 .. m) = m
    BY <2>1, <2>2, ElMayor
  <2>4. (1 .. m) \ {m} = 1 .. m - 1
    BY <2>1
  <2>5. h[1 .. m] = Fusionar(h[1 .. m - 1], s[m])
    BY <1>4, <2>2, <2>3, <2>4 DEF UnPaso
  <2> QED BY <2>1, <2>5
<1>7. f[n] = h[1 .. n]
  BY <1>1
<1> HIDE DEF f, n
<1> QED BY <1>3, <1>5, <1>6, <1>7 DEF n

TramoRelativo == [desde : Nat, hasta : Nat]

\* Blocks one after another, with time between them.
Separados(q) ==
    /\ q \in Seq(TramoRelativo)
    /\ \A i \in DOMAIN q : q[i].desde < q[i].hasta
    /\ \A i, j \in DOMAIN q : i < j => q[i].hasta < q[j].desde

Abarca(q, h) == \E i \in DOMAIN q : q[i].desde <= h /\ h < q[i].hasta

\* One more block, that does not begin before the others, only adds its hours.
LEMMA FusionarUno ==
    ASSUME NEW q, Separados(q), NEW t \in TramoRelativo, t.desde < t.hasta,
           \A i \in DOMAIN q : q[i].desde <= t.desde
    PROVE  /\ Separados(Fusionar(q, t)) /\ Fusionar(q, t) # << >>
           /\ \A i \in DOMAIN Fusionar(q, t) : Fusionar(q, t)[i].desde <= t.desde
           /\ \A h \in Nat : Abarca(Fusionar(q, t), h)
                               <=> Abarca(q, h) \/ (t.desde <= h /\ h < t.hasta)
<1> DEFINE r == Fusionar(q, t)
           n == Len(q)
<1>a. q \in Seq(TramoRelativo) /\ n \in Nat /\ DOMAIN q = 1 .. n /\ q = [i \in 1 .. n |-> q[i]]
  BY DEF Separados
<1>b. Last(q) = q[n] /\ Front(q) = SubSeq(q, 1, n - 1) /\ (q = << >> <=> n = 0)
  BY <1>a DEF Last, Front
<1>c. n = Len(q)
  OBVIOUS
<1> HIDE DEF n
<1>d. \A i \in 1 .. n : q[i] \in TramoRelativo
  BY <1>a
<1>e. \A i \in 1 .. n : q[i].desde \in Nat /\ q[i].hasta \in Nat
  BY <1>d DEF TramoRelativo
<1>1. /\ q \in Seq(TramoRelativo) /\ n \in Nat /\ DOMAIN q = 1 .. n
      /\ \A i \in 1 .. n : q[i] \in TramoRelativo /\ q[i].desde \in Nat /\ q[i].hasta \in Nat
      /\ \A i \in 1 .. n : q[i].desde < q[i].hasta /\ q[i].desde <= t.desde
      /\ \A i, j \in 1 .. n : i < j => q[i].hasta < q[j].desde
  BY <1>a, <1>d, <1>e DEF Separados
<1>2. t.desde \in Nat /\ t.hasta \in Nat
  BY DEF TramoRelativo
<1>3. CASE q # << >> /\ t.desde <= Last(q).hasta
  <2> DEFINE u == q[n]
  <2>1. n > 0 /\ n \in 1 .. n /\ Last(q) = u
    BY <1>1, <1>3, <1>b
  <2>2. u \in TramoRelativo /\ u.desde \in Nat /\ u.hasta \in Nat /\ u.desde <= t.desde /\ t.desde <= u.hasta
    BY <1>1, <1>3, <2>1
  <2>3. CASE t.hasta > u.hasta
    <3> DEFINE v == [u EXCEPT !.hasta = t.hasta]
    <3>1. v \in TramoRelativo /\ v.desde = u.desde /\ v.hasta = t.hasta
      BY <1>2, <2>2 DEF TramoRelativo
    <3>2. r = Append(Front(q), v)
      BY <1>3, <2>1, <2>3 DEF Fusionar
    <3> HIDE DEF v, u, r
    <3>3. /\ Front(q) \in Seq(TramoRelativo) /\ Len(Front(q)) = n - 1
          /\ \A i \in 1 .. n - 1 : Front(q)[i] = q[i]
      BY <1>1, <1>b, <1>c, <2>1
    <3>4. /\ r \in Seq(TramoRelativo) /\ Len(r) = n /\ DOMAIN r = 1 .. n /\ r[n] = v
          /\ \A i \in 1 .. n - 1 : r[i] = q[i]
      <4> DEFINE w == Front(q)
      <4>1. w \in Seq(TramoRelativo) /\ Len(w) = n - 1 /\ \A i \in 1 .. n - 1 : w[i] = q[i]
        BY <3>3
      <4>2. r = Append(w, v)
        BY <3>2
      <4> HIDE DEF w
      <4> QED BY <1>1, <2>1, <3>1, <4>1, <4>2
    <3>5. \A i \in 1 .. n : i = n \/ i \in 1 .. n - 1
      BY <1>1
    <3>6. Separados(r)
      <4>1. \A i \in 1 .. n : r[i].desde < r[i].hasta
        BY <1>1, <1>2, <2>2, <2>3, <3>1, <3>4, <3>5
      <4>2. \A i, j \in 1 .. n : i < j => r[i].hasta < r[j].desde
        <5> SUFFICES ASSUME NEW i \in 1 .. n, NEW j \in 1 .. n, i < j PROVE r[i].hasta < r[j].desde
          OBVIOUS
        <5>1. i \in 1 .. n - 1 /\ r[i] = q[i]
          BY <1>1, <3>4
        <5>2. r[j].desde = q[j].desde
          BY <3>1, <3>4, <3>5 DEF u
        <5> QED BY <1>1, <5>1, <5>2
      <4> QED BY <3>4, <4>1, <4>2 DEF Separados
    <3>7. \A i \in 1 .. n : r[i].desde <= t.desde
      BY <1>1, <2>2, <3>1, <3>4, <3>5
    <3>8. ASSUME NEW h \in Nat PROVE Abarca(r, h) <=> Abarca(q, h) \/ (t.desde <= h /\ h < t.hasta)
      <4>1. Abarca(r, h) <=> \/ \E i \in 1 .. n - 1 : q[i].desde <= h /\ h < q[i].hasta
                             \/ u.desde <= h /\ h < t.hasta
        BY <2>1, <3>1, <3>4, <3>5 DEF Abarca
      <4>2. Abarca(q, h) <=> \/ \E i \in 1 .. n - 1 : q[i].desde <= h /\ h < q[i].hasta
                             \/ u.desde <= h /\ h < u.hasta
        BY <1>1, <2>1, <3>5 DEF Abarca, u
      <4>3. (u.desde <= h /\ h < t.hasta) <=> (u.desde <= h /\ h < u.hasta) \/ (t.desde <= h /\ h < t.hasta)
        BY <1>2, <2>2, <2>3
      <4> QED BY <4>1, <4>2, <4>3
    <3>9. r # << >>
      BY <2>1, <3>4
    <3> QED BY <3>4, <3>6, <3>7, <3>8, <3>9 DEF r
  <2>4. CASE ~(t.hasta > u.hasta)
    <3>1. r = q
      BY <1>3, <2>1, <2>4 DEF Fusionar
    <3>2. ASSUME NEW h \in Nat, t.desde <= h, h < t.hasta PROVE Abarca(q, h)
      <4>1. u.desde <= h /\ h < u.hasta
        BY <1>2, <2>2, <2>4, <3>2
      <4> QED BY <1>1, <2>1, <4>1 DEF Abarca
    <3> HIDE DEF r
    <3>3. \A h \in Nat : Abarca(r, h) <=> Abarca(q, h) \/ (t.desde <= h /\ h < t.hasta)
      BY <3>1, <3>2
    <3> QED BY <1>3, <3>1, <3>3 DEF r
  <2> QED BY <2>3, <2>4
<1>4. CASE ~(q # << >> /\ t.desde <= Last(q).hasta)
  <2>1. r = Append(q, t)
    BY <1>4 DEF Fusionar
  <2>2. \A i \in 1 .. n : q[i].hasta < t.desde
    <3> SUFFICES ASSUME NEW i \in 1 .. n PROVE q[i].hasta < t.desde
      OBVIOUS
    <3>1. n \in 1 .. n /\ q # << >>
      BY <1>1, <1>b
    <3>2. q[n].hasta < t.desde
      BY <1>1, <1>2, <1>4, <1>b, <3>1
    <3>3. i = n \/ q[i].hasta < q[n].hasta
      BY <1>1, <3>1
    <3> QED BY <1>1, <1>2, <3>1, <3>2, <3>3
  <2> HIDE DEF r
  <2>3. /\ r \in Seq(TramoRelativo) /\ Len(r) = n + 1 /\ DOMAIN r = 1 .. n + 1 /\ r[n + 1] = t
        /\ \A i \in 1 .. n : r[i] = q[i]
    BY <1>1, <1>c, <2>1
  <2>4. \A i \in 1 .. n + 1 : i = n + 1 \/ i \in 1 .. n
    BY <1>1
  <2>5. Separados(r)
    <3>1. \A i \in 1 .. n + 1 : r[i].desde < r[i].hasta
      BY <1>1, <2>3, <2>4
    <3>2. \A i, j \in 1 .. n + 1 : i < j => r[i].hasta < r[j].desde
      <4> SUFFICES ASSUME NEW i \in 1 .. n + 1, NEW j \in 1 .. n + 1, i < j
                   PROVE  r[i].hasta < r[j].desde
        OBVIOUS
      <4>1. i \in 1 .. n /\ r[i] = q[i]
        BY <1>1, <2>3
      <4>2. CASE j = n + 1
        BY <2>2, <2>3, <4>1, <4>2
      <4>3. CASE j \in 1 .. n
        BY <1>1, <2>3, <4>1, <4>3
      <4> QED BY <2>4, <4>2, <4>3
    <3> QED BY <2>3, <3>1, <3>2 DEF Separados
  <2>6. \A i \in 1 .. n + 1 : r[i].desde <= t.desde
    BY <1>1, <1>2, <2>3, <2>4
  <2>7. \A h \in Nat : Abarca(r, h) <=> Abarca(q, h) \/ (t.desde <= h /\ h < t.hasta)
    <3> TAKE h \in Nat
    <3>1. n + 1 \in 1 .. n + 1 /\ \A i \in 1 .. n : i \in 1 .. n + 1
      BY <1>1
    <3> QED BY <1>1, <2>3, <2>4, <3>1 DEF Abarca
  <2>8. r # << >>
    BY <1>1, <2>3
  <2> QED BY <2>3, <2>5, <2>6, <2>7, <2>8 DEF r
<1> QED BY <1>3, <1>4

\* Blocks taken by their beginning, merged: apart from one another, and with the
\* hours of all of them, no more and no fewer.
LEMMA FusionDeOrdenados ==
    ASSUME NEW s \in Seq(TramoRelativo), \A k \in DOMAIN s : s[k].desde < s[k].hasta,
           \A j, k \in DOMAIN s : j < k => s[j].desde < s[k].desde
    PROVE  /\ Separados(FoldLeft(Fusionar, << >>, s))
           /\ \A h \in Nat : Abarca(FoldLeft(Fusionar, << >>, s), h)
                               <=> \E k \in DOMAIN s : s[k].desde <= h /\ h < s[k].hasta
<1> DEFINE n == Len(s)
<1>1. n \in Nat /\ DOMAIN s = 1 .. n
  OBVIOUS
<1>2. \A k \in 1 .. n : s[k] \in TramoRelativo /\ s[k].desde \in Nat /\ s[k].hasta \in Nat
  <2>1. \A k \in 1 .. n : s[k] \in TramoRelativo
    BY <1>1
  <2> QED BY <2>1 DEF TramoRelativo
<1>3. PICK f : /\ f[0] = << >> /\ \A m \in 1 .. n : f[m] = Fusionar(f[m - 1], s[m])
               /\ FoldLeft(Fusionar, << >>, s) = f[n]
  BY FusionPorPasos
<1> HIDE DEF n
<1> DEFINE Hasta(m) ==
             /\ Separados(f[m])
             /\ \A i \in DOMAIN f[m] : \A k \in m + 1 .. n : f[m][i].desde <= s[k].desde
             /\ \A h \in Nat : Abarca(f[m], h) <=> \E k \in 1 .. m : s[k].desde <= h /\ h < s[k].hasta
           T == {m \in Nat : m <= n => Hasta(m)}
<1>4. 0 \in T
  <2>1. f[0] \in Seq(TramoRelativo) /\ DOMAIN f[0] = {} /\ 1 .. 0 = {}
    BY <1>3
  <2>2. Separados(f[0])
    BY <2>1 DEF Separados
  <2> QED BY <2>1, <2>2 DEF Abarca
<1>5. ASSUME NEW m \in T PROVE m + 1 \in T
  <2>1. SUFFICES ASSUME m + 1 <= n PROVE Hasta(m + 1)
    OBVIOUS
  <2>2. m \in Nat /\ m <= n /\ m + 1 \in 1 .. n /\ (m + 1) - 1 = m /\ m + 1 \in m + 1 .. n
    BY <1>1, <2>1
  <2>3. Hasta(m)
    BY <2>2
  <2> DEFINE q == f[m]
             t == s[m + 1]
             r == f[m + 1]
  <2>4. Separados(q) /\ t \in TramoRelativo /\ t.desde < t.hasta /\ r = Fusionar(q, t)
    BY <1>1, <1>2, <1>3, <2>2, <2>3
  <2>5. \A i \in DOMAIN q : q[i].desde <= t.desde
    BY <2>2, <2>3
  <2>6. \A h \in Nat : Abarca(q, h) <=> \E k \in 1 .. m : s[k].desde <= h /\ h < s[k].hasta
    BY <2>3
  <2> HIDE DEF q, r, Hasta
  <2>7. /\ Separados(r) /\ \A i \in DOMAIN r : r[i].desde <= t.desde
        /\ \A h \in Nat : Abarca(r, h) <=> Abarca(q, h) \/ (t.desde <= h /\ h < t.hasta)
    BY <2>4, <2>5, FusionarUno
  <2>8. ASSUME NEW i \in DOMAIN r, NEW k \in (m + 1) + 1 .. n PROVE r[i].desde <= s[k].desde
    <3>1. k \in 1 .. n /\ m + 1 < k
      BY <1>1, <2>2
    <3>2. t.desde < s[k].desde
      BY <1>1, <2>2, <3>1
    <3>3. r[i] \in TramoRelativo
      BY <2>7 DEF Separados
    <3>4. r[i].desde \in Nat
      BY <3>3 DEF TramoRelativo
    <3>5. t.desde \in Nat /\ s[k].desde \in Nat
      BY <1>2, <2>2, <3>1
    <3> HIDE DEF t
    <3> QED BY <2>7, <3>2, <3>4, <3>5
  <2>9. \A k : k \in 1 .. m + 1 <=> k \in 1 .. m \/ k = m + 1
    BY <2>2
  <2>10. ASSUME NEW h \in Nat
         PROVE  Abarca(r, h) <=> \E k \in 1 .. m + 1 : s[k].desde <= h /\ h < s[k].hasta
    BY <2>6, <2>7, <2>9
  <2> QED BY <2>7, <2>8, <2>10 DEF Hasta, r
<1>6. T = Nat
  <2>1. T \in SUBSET Nat
    OBVIOUS
  <2> HIDE DEF T
  <2> QED BY <1>4, <1>5, <2>1, InduccionDeConjuntos
<1>7. Hasta(n)
  BY <1>1, <1>6
<1> QED BY <1>1, <1>3, <1>7

\* The blocks of day d, as TramosDelDia takes them.
DelDia(j, d) ==
    {[desde |-> b.inicio, hasta |-> FinRelativo(b.inicio, b.fin)] : b \in {x \in j : x.dia = d}}

\* Blocks that do not overlap begin at different hours, so they have one order.
LEMMA ElOrdenDelDia ==
    ASSUME JornadaAssumption, NEW j \in SUBSET Tramos, SinSolape(j), NEW d
    PROVE  /\ PorInicio(DelDia(j, d)) \in Seq(TramoRelativo)
           /\ Range(PorInicio(DelDia(j, d))) = DelDia(j, d)
           /\ \A t \in DelDia(j, d) : t.desde < t.hasta
           /\ \A k, l \in DOMAIN PorInicio(DelDia(j, d)) :
                k < l => PorInicio(DelDia(j, d))[k].desde < PorInicio(DelDia(j, d))[l].desde
<1> DEFINE S == DelDia(j, d)
           p == PorInicio(S)
           R == {z \in S \X S : z[1].desde < z[2].desde}
<1>1. \A b \in j : /\ b.inicio \in Horas /\ b.inicio < FinRelativo(b.inicio, b.fin)
                   /\ b.inicio \in Nat /\ FinRelativo(b.inicio, b.fin) \in Nat
  <2> TAKE b \in j
  <2>1. /\ HorasDelDia \in Nat /\ b.inicio \in 0 .. HorasDelDia - 1 /\ b.fin \in 0 .. HorasDelDia - 1
        /\ b.inicio # b.fin
    BY DEF JornadaAssumption
  <2> QED BY <2>1 DEF FinRelativo, Horas
<1>2. \A t \in S : t \in TramoRelativo /\ t.desde \in Horas /\ t.desde \in Nat /\ t.hasta \in Nat /\ t.desde < t.hasta
  <2> TAKE t \in S
  <2>1. PICK b \in j : t = [desde |-> b.inicio, hasta |-> FinRelativo(b.inicio, b.fin)]
    BY DEF DelDia
  <2> QED BY <1>1, <2>1 DEF TramoRelativo
<1>3. ASSUME NEW x \in S, NEW y \in S, x.desde = y.desde PROVE x = y
  <2>1. PICK a \in j : a.dia = d /\ x = [desde |-> a.inicio, hasta |-> FinRelativo(a.inicio, a.fin)]
    BY DEF DelDia
  <2>2. PICK b \in j : b.dia = d /\ y = [desde |-> b.inicio, hasta |-> FinRelativo(b.inicio, b.fin)]
    BY DEF DelDia
  <2>3. a.inicio = b.inicio
    BY <1>3, <2>1, <2>2
  <2>4. SolapaCon(a, b)
    BY <1>1, <2>1, <2>2, <2>3 DEF SolapaCon
  <2>5. a = b
    BY <2>4 DEF SinSolape
  <2> QED BY <2>1, <2>2, <2>5
<1> HIDE DEF S
<1>4. IsFiniteSet(S)
  <2> DEFINE g == [x \in S |-> x.desde]
  <2>1. g \in Injection(S, Horas)
    BY <1>2, <1>3 DEF Injection, IsInjective
  <2>2. IsFiniteSet(Horas)
    BY FS_Interval DEF JornadaAssumption, Horas
  <2> HIDE DEF g
  <2> QED BY <2>1, <2>2, FS_Injection
<1>5. OrdenTotal(R, S)
  <2>1. \A x, y \in S : <<x, y>> \in R <=> x.desde < y.desde
    OBVIOUS
  <2> HIDE DEF R
  <2>2. \A x, y \in S : x # y => x.desde < y.desde \/ y.desde < x.desde
    BY <1>2, <1>3
  <2> QED BY <1>2, <2>1, <2>2 DEF OrdenTotal
<1>6. \E s \in SetToSeqs(S) : \A k, l \in DOMAIN s : k < l => s[k].desde < s[l].desde
  <2>1. PICK s \in SetToSeqs(S) : \A k, l \in DOMAIN s : k < l => <<s[k], s[l]>> \in R
    BY <1>4, <1>5, HayOrdenada
  <2> QED BY <2>1
<1>7. p \in SetToSeqs(S) /\ \A k, l \in DOMAIN p : k < l => p[k].desde < p[l].desde
  BY <1>6 DEF PorInicio
<1> HIDE DEF p
<1>8. p \in Seq(S) /\ Range(p) = S
  BY <1>4, <1>7, Enumerada
<1>9. p \in Seq(TramoRelativo)
  <2>1. S \in SUBSET TramoRelativo
    BY <1>2
  <2> QED BY <1>8, <2>1
<1> QED BY <1>2, <1>7, <1>8, <1>9 DEF p, S

\* What the merging computes: blocks apart, with the open hours of the day.
LEMMA LosTramosDelDia ==
    ASSUME JornadaAssumption, NEW j \in SUBSET Tramos, SinSolape(j), NEW d
    PROVE  /\ Separados(TramosDelDia(j, d))
           /\ \A h \in Nat : Abarca(TramosDelDia(j, d), h) <=> Abierto(j, d, h)
<1> DEFINE p == PorInicio(DelDia(j, d))
<1>1. /\ p \in Seq(TramoRelativo) /\ Range(p) = DelDia(j, d) /\ \A t \in DelDia(j, d) : t.desde < t.hasta
      /\ \A k, l \in DOMAIN p : k < l => p[k].desde < p[l].desde
  BY ElOrdenDelDia
<1>2. TramosDelDia(j, d) = FoldLeft(Fusionar, << >>, p)
  BY DEF TramosDelDia, DelDia
<1> HIDE DEF p
<1>3. \A k \in DOMAIN p : p[k] \in DelDia(j, d)
  BY <1>1 DEF Range
<1>4. \A t \in DelDia(j, d) : \E k \in DOMAIN p : p[k] = t
  BY <1>1 DEF Range
<1>5. /\ Separados(TramosDelDia(j, d))
      /\ \A h \in Nat : Abarca(TramosDelDia(j, d), h) <=> \E k \in DOMAIN p : p[k].desde <= h /\ h < p[k].hasta
  BY <1>1, <1>2, <1>3, FusionDeOrdenados
<1>6. ASSUME NEW h \in Nat
      PROVE  (\E k \in DOMAIN p : p[k].desde <= h /\ h < p[k].hasta) <=> Abierto(j, d, h)
  <2>1. ASSUME NEW k \in DOMAIN p, p[k].desde <= h, h < p[k].hasta PROVE Abierto(j, d, h)
    <3>1. PICK b \in j : b.dia = d /\ p[k] = [desde |-> b.inicio, hasta |-> FinRelativo(b.inicio, b.fin)]
      BY <1>3 DEF DelDia
    <3> QED BY <2>1, <3>1 DEF Abierto
  <2>2. ASSUME NEW b \in j, b.dia = d, b.inicio <= h, h < FinRelativo(b.inicio, b.fin)
        PROVE  \E k \in DOMAIN p : p[k].desde <= h /\ h < p[k].hasta
    <3>1. PICK t \in DelDia(j, d) : t = [desde |-> b.inicio, hasta |-> FinRelativo(b.inicio, b.fin)]
      BY <2>2 DEF DelDia
    <3>2. PICK k \in DOMAIN p : p[k] = t
      BY <1>4
    <3>3. t.desde = b.inicio /\ t.hasta = FinRelativo(b.inicio, b.fin)
      BY <3>1
    <3> QED BY <2>2, <3>2, <3>3
  <2> QED BY <2>1, <2>2 DEF Abierto
<1> QED BY <1>5, <1>6

\* PermiteReserva of jornada_institucion.go looks for one merged block around
\* the whole booking: it finds one exactly when the school is open every hour.
THEOREM PermiteLoQueEntra ==
    ASSUME JornadaAssumption, NEW j \in SUBSET Tramos, SinSolape(j), NEW c \in Clase, c.inicio # c.fin
    PROVE  PermiteReserva(j, DiaDe(c.fecha), c.inicio, c.fin) <=> Entra(j, c)
<1> DEFINE d == DiaDe(c.fecha)
           a == c.inicio
           b == FinRelativo(c.inicio, c.fin)
           q == TramosDelDia(j, d)
<1>1. Separados(q) /\ \A h \in Nat : Abarca(q, h) <=> Abierto(j, d, h)
  BY LosTramosDelDia
<1>2. a \in Nat /\ b \in Nat /\ a < b
  <2>1. HorasDelDia \in Nat /\ c.inicio \in 0 .. HorasDelDia - 1 /\ c.fin \in 0 .. HorasDelDia - 1
    BY DEF JornadaAssumption, Clase, Horas
  <2> QED BY <2>1 DEF FinRelativo
<1>3. PermiteReserva(j, d, a, c.fin) <=> j = {} \/ \E i \in DOMAIN q : q[i].desde <= a /\ b <= q[i].hasta
  BY DEF PermiteReserva, Range
<1>4. Entra(j, c) <=> j = {} \/ \A h \in a .. b - 1 : Abierto(j, d, h)
  BY DEF Entra
<1> HIDE DEF a, b, d, q
<1>5. \A h \in a .. b - 1 : h \in Nat /\ a <= h /\ h < b
  BY <1>2
<1>6. \A i \in DOMAIN q : q[i].desde \in Nat /\ q[i].hasta \in Nat /\ q[i].desde < q[i].hasta
  <2>1. \A i \in DOMAIN q : q[i] \in TramoRelativo
    BY <1>1 DEF Separados
  <2> QED BY <1>1, <2>1 DEF Separados, TramoRelativo
<1>7. DOMAIN q \in SUBSET Nat
  <2>1. q \in Seq(TramoRelativo)
    BY <1>1 DEF Separados
  <2> QED BY <2>1
<1>8. ASSUME NEW i \in DOMAIN q, q[i].desde <= a, b <= q[i].hasta, NEW h \in a .. b - 1 PROVE Abierto(j, d, h)
  <2>1. q[i].desde <= h /\ h < q[i].hasta
    BY <1>2, <1>5, <1>6, <1>8
  <2> QED BY <1>1, <1>5, <2>1 DEF Abarca
<1>9. ASSUME \A h \in a .. b - 1 : Abierto(j, d, h)
      PROVE  \E i \in DOMAIN q : q[i].desde <= a /\ b <= q[i].hasta
  <2>1. a \in a .. b - 1
    BY <1>2
  <2>2. PICK i \in DOMAIN q : q[i].desde <= a /\ a < q[i].hasta
    BY <1>1, <1>2, <1>9, <2>1 DEF Abarca
  <2> DEFINE h == q[i].hasta
  <2>3. SUFFICES ASSUME h < b PROVE FALSE
    BY <1>2, <1>6, <2>2
  <2>4. h \in a .. b - 1
    BY <1>2, <1>6, <2>2, <2>3
  <2>5. PICK k \in DOMAIN q : q[k].desde <= h /\ h < q[k].hasta
    BY <1>1, <1>5, <1>9, <2>4 DEF Abarca
  <2>6. k # i
    BY <1>6, <2>5
  <2>7. CASE i < k
    <3>1. h < q[k].desde
      BY <1>1, <2>7 DEF Separados
    <3> QED BY <1>6, <2>5, <3>1
  <2>8. CASE k < i
    <3>1. q[k].hasta < q[i].desde
      BY <1>1, <2>8 DEF Separados
    <3> QED BY <1>6, <2>5, <3>1
  <2> QED BY <1>7, <2>6, <2>7, <2>8
<1>10. Entra(j, c) <=> PermiteReserva(j, d, a, c.fin)
  BY <1>3, <1>4, <1>8, <1>9
<1> QED BY <1>10 DEF a, d

\* Nothing that fits in a block of the day goes past its closing.
LEMMA CierraDespues ==
    ASSUME NEW j, NEW d, Separados(TramosDelDia(j, d)), NEW t \in Range(TramosDelDia(j, d))
    PROVE  CierreDe(j, d) \in Nat /\ t.hasta <= CierreDe(j, d)
<1> DEFINE q == TramosDelDia(j, d)
           n == Len(q)
<1>1. PICK i \in DOMAIN q : t = q[i]
  BY DEF Range
<1>2. q \in Seq(TramoRelativo)
  BY DEF Separados
<1>3. n \in Nat /\ DOMAIN q = 1 .. n /\ q # << >> /\ n \in 1 .. n /\ i \in Nat /\ i <= n
  BY <1>1, <1>2
<1>4. CierreDe(j, d) = q[n].hasta
  BY <1>3 DEF CierreDe, Last
<1>5. q[i] \in TramoRelativo /\ q[n] \in TramoRelativo
  BY <1>1, <1>2, <1>3
<1>6. q[i].hasta \in Nat /\ q[n].hasta \in Nat /\ q[n].desde \in Nat /\ q[n].desde < q[n].hasta
  BY <1>3, <1>5 DEF TramoRelativo, Separados
<1>7. i < n => q[i].hasta < q[n].desde
  BY <1>1, <1>3 DEF Separados
<1> HIDE DEF q, n
<1>8. i = n \/ i < n
  BY <1>3
<1> QED BY <1>1, <1>4, <1>6, <1>7, <1>8

Permitida(r) == PermiteReserva(jornada, DiaDe(clases[r].fecha), clases[r].inicio, clases[r].fin)

\* The opening hours and the bookings never part: who changes one looks at the other.
IInvC ==
    /\ reloj \in Nat
    /\ jornada \in SUBSET Tramos /\ SinSolape(jornada)
    /\ clases \in [Reservas -> Clase \cup {Nadie}]
    /\ \A r \in Reservas : clases[r] # Nadie => clases[r].inicio # clases[r].fin
    /\ \A r \in ReservasFuturas : Permitida(r)

LEMMA TipoDeInicio == ASSUME JornadaAssumption, NEW c \in Clase PROVE Inicio(c) \in Nat
<1>1. c.fecha \in Nat /\ c.inicio \in Nat /\ HorasDelDia \in Nat
  BY DEF JornadaAssumption, Clase, Fechas, Horas
<1>2. c.fecha * HorasDelDia \in Nat
  BY <1>1
<1> QED BY <1>1, <1>2 DEF Inicio

\* The permission of a booking asks only for its own row and for the opening hours.
LEMMA SigueDentro ==
    ASSUME IInvC, reloj' \in Nat, jornada' = jornada, clases' \in [Reservas -> Clase \cup {Nadie}],
           \A r \in Reservas : clases'[r] # Nadie => clases'[r].inicio # clases'[r].fin,
           \A r \in ReservasFuturas' : (r \in ReservasFuturas /\ clases'[r] = clases[r]) \/ Permitida(r)'
    PROVE  IInvC'
<1>1. ASSUME NEW r \in ReservasFuturas' PROVE Permitida(r)'
  <2>1. CASE r \in ReservasFuturas /\ clases'[r] = clases[r]
    BY <2>1 DEF IInvC, Permitida
  <2> QED BY <2>1
<1>2. SinSolape(jornada)'
  BY DEF IInvC, SinSolape
<1>3. \A r \in ReservasFuturas' : Permitida(r)'
  BY <1>1
<1> QED BY <1>2, <1>3 DEF IInvC

LEMMA ReemplazarPreserva ==
    ASSUME IInvC, NEW j \in SUBSET Tramos, Validos(j), Reemplazar(j)
    PROVE  IInvC'
<1>1. jornada' = j /\ clases' = CancelarReservas(Impacto(j)) /\ reloj' = reloj
  BY DEF Reemplazar
<1>2. Impacto(j) \in SUBSET ReservasFuturas /\ ReservasFuturas \in SUBSET Reservas
  BY DEF Impacto, ReservasFuturas
<1>3. \A r \in Reservas : clases'[r] = IF r \in Impacto(j) THEN [clases[r] EXCEPT !.estado = "CANCELADA"] ELSE clases[r]
  BY <1>1 DEF CancelarReservas
<1>4. ASSUME NEW r \in Impacto(j)
      PROVE  /\ clases'[r] \in Clase /\ clases'[r].estado = "CANCELADA"
             /\ clases'[r].inicio # clases'[r].fin
  <2>1. r \in Reservas /\ clases[r] \in Clase /\ clases[r].inicio # clases[r].fin
    BY <1>2 DEF IInvC, ReservasFuturas
  <2> QED BY <1>3, <2>1 DEF Clase
<1>5. clases' \in [Reservas -> Clase \cup {Nadie}]
  <2>1. \A r \in Reservas : clases'[r] \in Clase \cup {Nadie}
    BY <1>3, <1>4 DEF IInvC
  <2>2. clases' = [r \in Reservas |-> clases'[r]]
    BY <1>1 DEF CancelarReservas
  <2> QED BY <2>1, <2>2
<1>6. \A r \in Reservas : clases'[r] # Nadie => clases'[r].inicio # clases'[r].fin
  BY <1>3, <1>4 DEF IInvC
<1>7. ASSUME NEW r \in ReservasFuturas' PROVE Permitida(r)'
  <2>1. r \in Reservas /\ clases'[r] # Nadie /\ clases'[r].estado = "CONFIRMADA" /\ Inicio(clases'[r]) > reloj
    BY <1>1 DEF ReservasFuturas
  <2>2. r \notin Impacto(j) /\ clases'[r] = clases[r]
    BY <1>3, <1>4, <2>1
  <2>3. r \in ReservasFuturas
    BY <2>1, <2>2 DEF ReservasFuturas
  <2>4. CASE j = {}
    BY <1>1, <2>4 DEF Permitida, PermiteReserva
  <2>5. CASE j # {}
    <3>1. PermiteReserva(j, DiaDe(clases[r].fecha), clases[r].inicio, clases[r].fin)
      BY <2>2, <2>3, <2>5 DEF Impacto
    <3> QED BY <1>1, <2>2, <3>1 DEF Permitida
  <2> QED BY <2>4, <2>5
<1>8. SinSolape(jornada)'
  BY <1>1 DEF Validos, SinSolape
<1>9. \A r \in ReservasFuturas' : Permitida(r)'
  BY <1>7
<1> QED BY <1>1, <1>5, <1>6, <1>8, <1>9 DEF IInvC

LEMMA ClasesPreservan ==
    ASSUME JornadaAssumption, IInvC, PeticionesDeClases PROVE IInvC'
<1>1. PICK r \in Reservas : \/ \E f \in Fechas, i \in Horas, h \in Horas : CrearReserva(r, f, i, h)
                            \/ CancelarReserva(r)
  BY DEF PeticionesDeClases
<1>2. ASSUME NEW f \in Fechas, NEW i \in Horas, NEW h \in Horas, CrearReserva(r, f, i, h) PROVE IInvC'
  <2> DEFINE c == [fecha |-> f, inicio |-> i, fin |-> h, estado |-> "CONFIRMADA"]
  <2>1. /\ i # h /\ PermiteReserva(jornada, DiaDe(f), i, h) /\ clases' = [clases EXCEPT ![r] = c]
        /\ jornada' = jornada /\ reloj' = reloj
    BY <1>2 DEF CrearReserva
  <2>2. c \in Clase /\ c.inicio # c.fin /\ c.fecha = f /\ c.inicio = i /\ c.fin = h
    BY <2>1 DEF Clase
  <2> HIDE DEF c
  <2>3. /\ clases' \in [Reservas -> Clase \cup {Nadie}] /\ clases'[r] = c
        /\ \A o \in Reservas \ {r} : clases'[o] = clases[o]
    BY <2>1, <2>2 DEF IInvC
  <2>4. \A o \in Reservas : clases'[o] # Nadie => clases'[o].inicio # clases'[o].fin
    BY <2>2, <2>3 DEF IInvC
  <2>5. Permitida(r)'
    BY <2>1, <2>2, <2>3 DEF Permitida
  <2>6. \A o \in ReservasFuturas' : (o \in ReservasFuturas /\ clases'[o] = clases[o]) \/ Permitida(o)'
    BY <2>1, <2>3, <2>5 DEF ReservasFuturas
  <2>7. reloj' \in Nat
    BY <2>1 DEF IInvC
  <2> QED BY <2>1, <2>3, <2>4, <2>6, <2>7, SigueDentro
<1>3. ASSUME CancelarReserva(r) PROVE IInvC'
  <2>1. /\ r \in ReservasFuturas /\ clases' = [clases EXCEPT ![r].estado = "CANCELADA"]
        /\ jornada' = jornada /\ reloj' = reloj
    BY <1>3 DEF CancelarReserva
  <2>2. clases[r] \in Clase /\ clases[r].inicio # clases[r].fin
    BY <2>1 DEF ReservasFuturas, IInvC
  <2>3. clases'[r] = [clases[r] EXCEPT !.estado = "CANCELADA"] /\ \A o \in Reservas \ {r} : clases'[o] = clases[o]
    BY <2>1 DEF IInvC
  <2>4. clases'[r] \in Clase /\ clases'[r].estado = "CANCELADA" /\ clases'[r].inicio # clases'[r].fin
    BY <2>2, <2>3 DEF Clase
  <2>5. clases' \in [Reservas -> Clase \cup {Nadie}]
    BY <2>1, <2>3, <2>4 DEF IInvC
  <2>6. \A o \in Reservas : clases'[o] # Nadie => clases'[o].inicio # clases'[o].fin
    BY <2>3, <2>4 DEF IInvC
  <2>7. \A o \in ReservasFuturas' : o \in ReservasFuturas /\ clases'[o] = clases[o]
    BY <2>1, <2>3, <2>4 DEF ReservasFuturas
  <2>8. reloj' \in Nat
    BY <2>1 DEF IInvC
  <2> QED BY <2>1, <2>5, <2>6, <2>7, <2>8, SigueDentro
<1> QED BY <1>1, <1>2, <1>3

LEMMA HorarioPreserva == ASSUME JornadaAssumption, IInvC, [NextJ]_varsJ PROVE IInvC'
<1>1. ASSUME UNCHANGED <<reloj, jornada, clases>> PROVE IInvC'
  BY <1>1 DEF IInvC, ReservasFuturas, Permitida, SinSolape
<1>2. CASE PeticionesDeJornada
  <2>1. PICK j \in SUBSET Tramos : MostrarImpacto(j) \/ AmpliarJornada(j) \/ ReemplazarJornada(j)
    BY <1>2 DEF PeticionesDeJornada
  <2>2. CASE MostrarImpacto(j)
    BY <1>1, <2>2 DEF MostrarImpacto
  <2>3. CASE AmpliarJornada(j) \/ ReemplazarJornada(j)
    BY <2>3, ReemplazarPreserva DEF AmpliarJornada, ReemplazarJornada
  <2> QED BY <2>1, <2>2, <2>3
<1>3. CASE PeticionesDeClases
  BY <1>3, ClasesPreservan
<1>4. CASE Tick
  <2>1. reloj \in Nat /\ reloj' = reloj + 1 /\ jornada' = jornada /\ clases' = clases
    BY <1>4 DEF Tick, IInvC
  <2>2. ASSUME NEW r \in ReservasFuturas' PROVE r \in ReservasFuturas /\ clases'[r] = clases[r]
    <3>1. /\ r \in Reservas /\ clases[r] # Nadie /\ clases[r].estado = "CONFIRMADA"
          /\ Inicio(clases[r]) > reloj + 1
      BY <2>1 DEF ReservasFuturas
    <3>2. clases[r] \in Clase
      BY <3>1 DEF IInvC
    <3>3. Inicio(clases[r]) \in Nat
      BY <3>2, TipoDeInicio
    <3>4. Inicio(clases[r]) > reloj
      BY <2>1, <3>1, <3>3
    <3> QED BY <2>1, <3>1, <3>4 DEF ReservasFuturas
  <2>3. reloj' \in Nat
    BY <2>1
  <2> QED BY <2>1, <2>2, <2>3, SigueDentro DEF IInvC
<1>5. CASE NextMostrador \/ UNCHANGED varsJ
  <2>1. UNCHANGED <<reloj, jornada, clases>>
    BY <1>5 DEF NextMostrador, PeticionesDeAgregar, PeticionesDeEditar, PeticionesDeEliminar,
                PeticionesDeExcepcion, AvisosDeAusencia, CambiosDeCuenta, AgregarBloque, EditarBloque,
                GuardarBloque, EliminarBloque, CargarExcepcion, MarcarNoDisponibleAhora, CambiarAprobado, varsJ
  <2> QED BY <1>1, <2>1
<1> QED BY <1>2, <1>3, <1>4, <1>5 DEF NextJ, NextClases

LEMMA DentroEnHorario == ASSUME JornadaAssumption, IInvC PROVE TodaClaseEnHorario
<1> SUFFICES ASSUME NEW r \in ReservasFuturas
             PROVE  /\ Entra(jornada, clases[r])
                    /\ jornada # {} => FinRelativo(clases[r].inicio, clases[r].fin)
                                         <= CierreDe(jornada, DiaDe(clases[r].fecha))
  BY DEF TodaClaseEnHorario
<1> DEFINE c == clases[r]
           d == DiaDe(c.fecha)
           b == FinRelativo(c.inicio, c.fin)
<1>1. c \in Clase /\ c.inicio # c.fin /\ PermiteReserva(jornada, d, c.inicio, c.fin)
  BY DEF ReservasFuturas, IInvC, Permitida
<1>2. Entra(jornada, c)
  BY <1>1, PermiteLoQueEntra DEF IInvC
<1>3. ASSUME jornada # {} PROVE b <= CierreDe(jornada, d)
  <2>1. Separados(TramosDelDia(jornada, d))
    BY LosTramosDelDia DEF IInvC
  <2>2. PICK t \in Range(TramosDelDia(jornada, d)) : b <= t.hasta
    BY <1>1, <1>3 DEF PermiteReserva
  <2>3. CierreDe(jornada, d) \in Nat /\ t.hasta <= CierreDe(jornada, d)
    BY <2>1, CierraDespues
  <2>4. t \in TramoRelativo
    BY <2>1 DEF Separados, Range
  <2>5. t.hasta \in Nat /\ b \in Nat
    <3>1. HorasDelDia \in Nat /\ c.inicio \in Nat /\ c.fin \in Nat
      BY <1>1 DEF JornadaAssumption, Clase, Horas
    <3> QED BY <2>4, <3>1 DEF TramoRelativo, FinRelativo
  <2> HIDE DEF b, d
  <2> QED BY <2>2, <2>3, <2>5
<1> QED BY <1>2, <1>3

\* Whatever is booked and however the opening hours are replaced, every class
\* that has not begun keeps the school open from its start to its end.
THEOREM ClasesSiempreEnHorario == SpecJ => []TodaClaseEnHorario
<1>1. InitJ => IInvC
  BY DEF InitJ, IInvC, ReservasFuturas, SinSolape
<1>2. IInvC /\ [NextJ]_varsJ => IInvC'
  BY JornadaAssumption, HorarioPreserva
<1>3. IInvC => TodaClaseEnHorario
  BY JornadaAssumption, DentroEnHorario
<1> QED BY <1>1, <1>2, <1>3, PTL DEF SpecJ

\* What neither the desk nor the hours say of the types.
RestoDeTipos ==
    /\ reloj \in 0 .. (MaxFecha + 1) * HorasDelDia
    /\ propuesta \in Propuesta \cup {Nadie}
    /\ cambiosJ \in 0 .. MaxCambiosJ

LEMMA UnInstanteMas ==
    ASSUME JornadaAssumption, reloj \in Nat, Hoy \in Fechas
    PROVE  reloj + 1 \in 0 .. (MaxFecha + 1) * HorasDelDia
<1> DEFINE H == HorasDelDia
           a == (reloj \div H) * H
           b == MaxFecha * H
<1>1. H \in Nat /\ H > 0 /\ MaxFecha \in Nat /\ reloj \div H \in Nat /\ reloj \div H <= MaxFecha
  BY DEF JornadaAssumption, Hoy, Fechas
<1>2. reloj % H \in 0 .. H - 1 /\ reloj = a + (reloj % H)
  BY <1>1
<1>3. a \in Nat /\ b \in Nat /\ a <= b
  BY <1>1
<1>4. (MaxFecha + 1) * H = b + H
  BY <1>1
<1>5. H = HorasDelDia
  OBVIOUS
<1> HIDE DEF a, b, H
<1> QED BY <1>1, <1>2, <1>3, <1>4, <1>5

LEMMA RestoPreserva == ASSUME JornadaAssumption, RestoDeTipos, [NextJ]_varsJ PROVE RestoDeTipos'
<1>1. CambiaJ => cambiosJ' \in 0 .. MaxCambiosJ
  BY DEF RestoDeTipos, CambiaJ, JornadaAssumption
<1>2. ASSUME CambiaJ, UNCHANGED <<reloj, propuesta>> PROVE RestoDeTipos'
  BY <1>1, <1>2 DEF RestoDeTipos
<1>3. CASE PeticionesDeJornada
  <2>1. PICK j \in SUBSET Tramos : MostrarImpacto(j) \/ AmpliarJornada(j) \/ ReemplazarJornada(j)
    BY <1>3 DEF PeticionesDeJornada
  <2>2. Impacto(j) \in SUBSET Reservas
    BY DEF Impacto, ReservasFuturas
  <2>3. CambiaJ /\ reloj' = reloj
    BY <2>1 DEF MostrarImpacto, AmpliarJornada, ReemplazarJornada, Reemplazar
  <2>4. propuesta' \in {propuesta, Nadie, [tramos |-> j, fuera |-> Impacto(j)]}
    BY <2>1 DEF MostrarImpacto, AmpliarJornada, ReemplazarJornada
  <2>5. propuesta' \in Propuesta \cup {Nadie}
    BY <2>2, <2>4 DEF RestoDeTipos, Propuesta
  <2> QED BY <1>1, <2>3, <2>5 DEF RestoDeTipos
<1>4. CASE PeticionesDeClases
  BY <1>2, <1>4 DEF PeticionesDeClases, CrearReserva, CancelarReserva
<1>5. CASE Tick
  BY <1>5, UnInstanteMas DEF Tick, RestoDeTipos
<1>6. CASE NextMostrador
  BY <1>2, <1>6 DEF NextMostrador, PeticionesDeAgregar, PeticionesDeEditar, PeticionesDeEliminar,
                    PeticionesDeExcepcion, AvisosDeAusencia, CambiosDeCuenta, AgregarBloque, EditarBloque,
                    GuardarBloque, EliminarBloque, CargarExcepcion, MarcarNoDisponibleAhora, CambiarAprobado
<1>7. CASE UNCHANGED varsJ
  BY <1>7 DEF varsJ, RestoDeTipos
<1> QED BY <1>3, <1>4, <1>5, <1>6, <1>7 DEF NextJ, NextClases

\* The hours, the bookings and the desk always have legal values.
THEOREM JornadaTipos == SpecJ => []TypeOKJ
<1> DEFINE I == IInvC /\ IInvM /\ RestoDeTipos
<1>1. InitJ => I
  <2> SUFFICES ASSUME InitJ PROVE I
    OBVIOUS
  <2>1. IInvC
    BY DEF InitJ, IInvC, ReservasFuturas, SinSolape
  <2>2. IInvM
    BY DEF InitJ, IInvM, TiposDelMostrador, HorarioSinSolape
  <2>3. (MaxFecha + 1) * HorasDelDia \in Nat /\ MaxCambiosJ \in Nat
    BY JornadaAssumption DEF JornadaAssumption
  <2>4. reloj = 0 /\ cambiosJ = 0 /\ propuesta = Nadie
    BY DEF InitJ
  <2> QED BY <2>1, <2>2, <2>3, <2>4 DEF RestoDeTipos
<1>2. I /\ [NextJ]_varsJ => I'
  BY JornadaAssumption, HorarioPreserva, MostradorPreserva, RestoPreserva
<1>3. I => TypeOKJ
  BY DEF IInvC, IInvM, TiposDelMostrador, RestoDeTipos, TypeOKJ
<1> HIDE DEF I
<1>4. SpecJ => []I
  BY <1>1, <1>2, PTL DEF SpecJ
<1> QED BY <1>3, <1>4, PTL

-----------------------------------------------------------------------------
(* Licencias                                                                 *)

HayMotivo == \E l \in Cargadas : EnVentana(licencias[l])

\* The sweep holds the coordination, so the rows it read are the rows that are
\* there, and it read only what corresponds to announce.
BarridoVigente ==
    barrido # Nada =>
        /\ barrido.dia \in 0 .. hoy
        /\ DOMAIN barrido.filas \subseteq Cargadas /\ DOMAIN barrido.filas # {}
        /\ \A l \in DOMAIN barrido.filas :
              /\ barrido.filas[l] = licencias[l] /\ licencias[l].vence # Nada
              /\ licencias[l].vence <= barrido.dia + licencias[l].aviso
              /\ \/ CorrespondeAvisoPrevio(licencias[l], barrido.dia)
                 \/ CorrespondeAvisoDeVencimiento(licencias[l], barrido.dia)

\* What was announced of the expiry in force is marked in the row.
MarcasAlDia ==
    \A l \in Licencias :
        /\ emitidos[l].ajenos = 0 /\ emitidos[l].previo <= 1 /\ emitidos[l].final <= 1
        /\ licencias[l] = Nada => emitidos[l].previo = 0 /\ emitidos[l].final = 0
        /\ emitidos[l].previo = 1 => licencias[l].previo = licencias[l].vence
        /\ emitidos[l].final = 1 => licencias[l].final = licencias[l].vence

\* The last event of the queue decides how the bell is left: it may leave it
\* open only while there is a licence in its window.
ColaConMotivo ==
    /\ porEntregar = <<>> => (campana # {} => HayMotivo)
    /\ porEntregar # <<>> =>
         LET e == porEntregar[Len(porEntregar)] IN
         (e.tipo = "licencia.por-vencer" \/ e.cuantas # 0) => HayMotivo

IInvL == TypeOKL /\ BarridoVigente /\ MarcasAlDia /\ ColaConMotivo

LEMMA InicioL == ASSUME LicenciasAssumption, InitL PROVE IInvL
<1>1. TypeOKL
  BY DEF LicenciasAssumption, InitL, TypeOKL, SinHistoria, Historia
<1>2. MarcasAlDia
  BY DEF InitL, MarcasAlDia, SinHistoria
<1> QED
  BY <1>1, <1>2 DEF IInvL, InitL, BarridoVigente, ColaConMotivo

-----------------------------------------------------------------------------
(* What the queue says of the window                                         *)

\* A count of the pending that is not zero has a licence behind it.
LEMMA PendientesConMotivo ==
  ASSUME LicenciasAssumption, NEW f
  PROVE  /\ ContarPendientesDeRenovar(f) \in Nat
         /\ ContarPendientesDeRenovar(f) # 0 =>
              \E l \in Licencias : f[l] # Nada /\ EnVentana(f[l])
<1> DEFINE S == {l \in Licencias : f[l] # Nada /\ EnVentana(f[l]) /\ f[l].equipo \in circulan}
<1>1. IsFiniteSet(S)
  BY FS_Subset DEF LicenciasAssumption
<1>2. Cardinality(S) \in Nat /\ (Cardinality(S) # 0 => S # {})
  BY <1>1, FS_CardinalityType, FS_EmptySet
<1> QED
  BY <1>2 DEF ContarPendientesDeRenovar

\* After an operation that queues licencia.pendientes the queue says how the table is left.
LEMMA ColaTrasPendientes ==
  ASSUME LicenciasAssumption, porEntregar \in Seq(Evento),
         porEntregar' = porEntregar \o Pendientes(licencias'), hoy' = hoy
  PROVE  porEntregar' \in Seq(Evento) /\ ColaConMotivo'
<1> DEFINE n == ContarPendientesDeRenovar(licencias')
           e == [tipo |-> "licencia.pendientes", cuantas |-> n]
<1>1. /\ n \in Nat
      /\ n # 0 => \E l \in Licencias : licencias'[l] # Nada /\ EnVentana(licencias'[l])
  BY PendientesConMotivo
<1>2. porEntregar' = porEntregar \o <<e>>
  BY DEF Pendientes
<1>3. e \in Evento /\ e.tipo # "licencia.por-vencer" /\ e.cuantas = n
  BY <1>1 DEF Evento
<1>4. n # 0 => HayMotivo'
  BY <1>1 DEF HayMotivo, EnVentana, Cargadas
<1> HIDE DEF e, n
<1>5. /\ porEntregar' \in Seq(Evento) /\ porEntregar' # <<>>
      /\ porEntregar'[Len(porEntregar')] = e
  BY <1>2, <1>3
<1> QED
  BY <1>3, <1>4, <1>5 DEF ColaConMotivo

\* The queue and the bell as they were, and a window that lost nothing.
LEMMA ColaIgual ==
  ASSUME ColaConMotivo, UNCHANGED <<porEntregar, campana>>, HayMotivo => HayMotivo'
  PROVE  ColaConMotivo'
  BY DEF ColaConMotivo

-----------------------------------------------------------------------------
(* The operations of the Admins                                              *)

\* Rows written whole over what was read: they keep the marks, and the history
\* starts again when the expiry changes.
LEMMA GuardarConservaMarcas ==
  ASSUME LicenciasAssumption, TypeOKL, MarcasAlDia, NEW filas, GuardarLicencia(filas),
         \A l \in Licencias \cap DOMAIN filas :
            /\ licencias[l] # Nada /\ filas[l] \in Licencia
            /\ filas[l].previo = licencias[l].previo /\ filas[l].final = licencias[l].final
  PROVE  /\ licencias' \in [Licencias -> Licencia \cup {Nada}]
         /\ emitidos' \in [Licencias -> Historia]
         /\ MarcasAlDia'
<1>1. licencias' \in [Licencias -> Licencia \cup {Nada}]
  BY DEF GuardarLicencia, TypeOKL
<1>2. emitidos' \in [Licencias -> Historia]
  BY DEF GuardarLicencia, TypeOKL, Historia
<1>3. ASSUME NEW l \in Licencias
      PROVE  /\ emitidos'[l].ajenos = 0 /\ emitidos'[l].previo <= 1 /\ emitidos'[l].final <= 1
             /\ licencias'[l] = Nada => emitidos'[l].previo = 0 /\ emitidos'[l].final = 0
             /\ emitidos'[l].previo = 1 => licencias'[l].previo = licencias'[l].vence
             /\ emitidos'[l].final = 1 => licencias'[l].final = licencias'[l].vence
  <2>1. CASE l \notin DOMAIN filas
    BY <2>1 DEF GuardarLicencia, MarcasAlDia
  <2>2. CASE l \in DOMAIN filas /\ filas[l].vence = licencias[l].vence
    <3>1. licencias'[l] = filas[l] /\ emitidos'[l] = emitidos[l]
      BY <2>2 DEF GuardarLicencia
    <3>2. licencias'[l] # Nada
      BY <2>2, <3>1 DEF LicenciasAssumption
    <3> QED
      BY <2>2, <3>1, <3>2 DEF MarcasAlDia
  <2>3. CASE l \in DOMAIN filas /\ filas[l].vence # licencias[l].vence
    <3>1. emitidos'[l] = [emitidos[l] EXCEPT !.previo = 0, !.final = 0]
      BY <2>3 DEF GuardarLicencia
    <3> QED
      BY <3>1 DEF MarcasAlDia, TypeOKL, Historia
  <2> QED
    BY <2>1, <2>2, <2>3
<1> QED
  BY <1>1, <1>2, <1>3 DEF MarcasAlDia

\* Whatever is declared of an expiry is a day.
LEMMA LoDeclaradoEsUnDia ==
  ASSUME LicenciasAssumption, hoy \in Nat, NEW d \in Duraciones, NEW v \in Declarables(d)
  PROVE  v \in Nat /\ v # Nada
  BY DEF LicenciasAssumption, Declarables

\* CrearLicencias only adds rows, which have no history.
LEMMA PasoAltas ==
  ASSUME LicenciasAssumption, IInvL, Altas PROVE IInvL'
<1> USE DEF IInvL
<1>1. PICK es \in SUBSET Maquinas \ {{}}, n \in Programas, d \in Duraciones, a \in Avisos :
           \E v \in Declarables(d) \cup {Nada} : CrearLicencias(es, n, d, a, v)
  BY DEF Altas
<1>2. PICK v \in Declarables(d) \cup {Nada} : CrearLicencias(es, n, d, a, v)
  BY <1>1
<1>v. v \in Nat \cup {Nada}
  BY LoDeclaradoEsUnDia DEF TypeOKL, LicenciasAssumption
<1> DEFINE nuevos == {e \in es : ~YaLaTiene(e, n)}
<1>3. PICK alta \in [nuevos -> Licencias \ Cargadas] :
         licencias' = [l \in Licencias |->
              IF l \in Range(alta) THEN NuevaLicencia(CHOOSE e \in nuevos : alta[e] = l, n, d, a, v)
              ELSE licencias[l]]
  BY <1>2 DEF CrearLicencias
<1>4. Range(alta) \subseteq Licencias \ Cargadas
  BY <1>3 DEF Range
<1>5. ASSUME NEW l \in Range(alta)
      PROVE  NuevaLicencia(CHOOSE e \in nuevos : alta[e] = l, n, d, a, v) \in Licencia
  <2>1. \E e \in nuevos : alta[e] = l
    BY <1>3, <1>5 DEF Range
  <2>2. (CHOOSE e \in nuevos : alta[e] = l) \in Maquinas
    BY <2>1
  <2> QED
    BY <1>v, <2>2 DEF NuevaLicencia, Licencia
<1>6. UNCHANGED <<hoy, circulan, barrido, porEntregar, campana, emitidos>> /\ Cambia
  BY <1>2 DEF CrearLicencias
<1> HIDE DEF nuevos
<1>7. licencias' \in [Licencias -> Licencia \cup {Nada}]
  BY <1>3, <1>5, Zenon DEF TypeOKL
<1>8. \A l \in Cargadas : licencias'[l] = licencias[l]
  BY <1>3, <1>4 DEF Cargadas
<1>9. TypeOKL'
  BY <1>6, <1>7 DEF TypeOKL, Cambia, LicenciasAssumption
<1>10. BarridoVigente'
  BY <1>6 DEF BarridoVigente, Cambia, Turno
<1>11. MarcasAlDia'
  <2>1. ASSUME NEW l \in Licencias, l \notin Cargadas
        PROVE  emitidos[l].previo = 0 /\ emitidos[l].final = 0
    BY <2>1 DEF Cargadas, MarcasAlDia
  <2> QED
    BY <1>6, <1>8, <2>1 DEF MarcasAlDia, Cargadas
<1>12. HayMotivo => HayMotivo'
  BY <1>6, <1>8 DEF HayMotivo, EnVentana, Cargadas
<1>13. ColaConMotivo'
  BY <1>6, <1>12, ColaIgual
<1> QED
  BY <1>9, <1>10, <1>11, <1>13

LEMMA PasoRenovaciones ==
  ASSUME LicenciasAssumption, IInvL, Renovaciones PROVE IInvL'
<1> USE DEF IInvL
<1>1. PICK ids \in SUBSET Licencias \ {{}}, dia \in 0 .. hoy : RenovarLicencias(ids, dia)
  BY DEF Renovaciones
<1> DEFINE leidas == BuscarLicenciasPorIDs(ids)
           filas == [l \in {i \in ids : leidas[i].vence # Nada} |-> RenovadaEl(leidas[l], dia)]
<1>2. /\ DOMAIN leidas = ids /\ GuardarLicencia(filas) /\ Cambia
      /\ porEntregar' = porEntregar \o Pendientes(licencias')
      /\ UNCHANGED <<hoy, circulan, barrido, campana>>
  BY <1>1 DEF RenovarLicencias
<1>3. ids \subseteq Cargadas /\ \A l \in ids : leidas[l] = licencias[l]
  BY <1>2 DEF BuscarLicenciasPorIDs
<1>4. ASSUME NEW l \in DOMAIN filas
      PROVE  /\ licencias[l] # Nada /\ filas[l] \in Licencia
             /\ filas[l].previo = licencias[l].previo /\ filas[l].final = licencias[l].final
  <2>1. l \in Licencias /\ licencias[l] # Nada /\ licencias[l] \in Licencia
    BY <1>3 DEF Cargadas, TypeOKL
  <2>2. filas[l] = [licencias[l] EXCEPT !.vence = dia + licencias[l].duracion]
    BY <1>3 DEF RenovadaEl
  <2>3. dia + licencias[l].duracion \in Nat
    <3>1. licencias[l].duracion \in Nat
      BY <2>1 DEF Licencia, LicenciasAssumption
    <3>2. hoy \in Nat
      BY DEF TypeOKL, LicenciasAssumption
    <3>3. dia \in Nat
      BY <3>2
    <3> QED
      BY <3>1, <3>3
  <2> QED
    BY <2>1, <2>2, <2>3 DEF Licencia
<1> HIDE DEF filas, leidas
<1>5. /\ licencias' \in [Licencias -> Licencia \cup {Nada}]
      /\ emitidos' \in [Licencias -> Historia]
      /\ MarcasAlDia'
  BY <1>2, <1>4, GuardarConservaMarcas
<1>6. porEntregar' \in Seq(Evento) /\ ColaConMotivo'
  BY <1>2, ColaTrasPendientes DEF TypeOKL
<1>7. TypeOKL'
  BY <1>2, <1>5, <1>6 DEF TypeOKL, Cambia, LicenciasAssumption
<1>8. BarridoVigente'
  BY <1>2 DEF BarridoVigente, Cambia, Turno
<1> QED
  BY <1>5, <1>6, <1>7, <1>8

\* EditarLicencia: what does not move the window queues nothing, and leaves it.
LEMMA PasoEdiciones ==
  ASSUME LicenciasAssumption, IInvL, Ediciones PROVE IInvL'
<1> USE DEF IInvL
<1>1. PICK l \in Licencias, n \in Programas, d \in Duraciones, a \in Avisos :
               \E v \in Declarables(d) \cup {Nada} : EditarLicencia(l, n, d, a, v)
  BY DEF Ediciones
<1>2. PICK v \in Declarables(d) \cup {Nada} : EditarLicencia(l, n, d, a, v)
  BY <1>1
<1>v. v \in Nat \cup {Nada}
  BY LoDeclaradoEsUnDia DEF TypeOKL, LicenciasAssumption
<1> DEFINE r == [licencias[l] EXCEPT !.nombre = n, !.duracion = d, !.aviso = a]
           s == [r EXCEPT !.vence = IF v = Nada THEN @ ELSE v]
           filas == [x \in {l} |-> s]
<1>3. /\ GuardarLicencia(filas) /\ Cambia /\ l \in Cargadas
      /\ UNCHANGED <<hoy, circulan, barrido, campana>>
      /\ porEntregar' = IF CambiaLaVentana(l, r, v)
                        THEN porEntregar \o Pendientes(licencias') ELSE porEntregar
  BY <1>2 DEF EditarLicencia
<1>4. licencias[l] \in Licencia /\ licencias[l] # Nada
  BY <1>3 DEF Cargadas, TypeOKL
<1>5. /\ s \in Licencia /\ s # Nada
      /\ s.previo = licencias[l].previo /\ s.final = licencias[l].final
      /\ s.vence = (IF v = Nada THEN licencias[l].vence ELSE v)
      /\ s.aviso = a /\ r.aviso = a
  BY <1>4, <1>v DEF Licencia, LicenciasAssumption
<1>6. DOMAIN filas = {l} /\ filas[l] = s
  OBVIOUS
<1> HIDE DEF filas, s, r
<1>7. /\ licencias' \in [Licencias -> Licencia \cup {Nada}]
      /\ emitidos' \in [Licencias -> Historia]
      /\ MarcasAlDia'
  BY <1>3, <1>4, <1>5, <1>6, GuardarConservaMarcas
<1>8. porEntregar' \in Seq(Evento) /\ ColaConMotivo'
  <2>1. CASE CambiaLaVentana(l, r, v)
    BY <1>3, <2>1, ColaTrasPendientes DEF TypeOKL
  <2>2. CASE ~CambiaLaVentana(l, r, v)
    <3>1. v = Nada /\ a = licencias[l].aviso
      BY <1>5, <2>2 DEF CambiaLaVentana
    <3>2. licencias' = [licencias EXCEPT ![l] = s]
      BY <1>3, <1>6 DEF GuardarLicencia, TypeOKL
    <3>3. HayMotivo => HayMotivo'
      BY <1>3, <1>5, <3>1, <3>2 DEF HayMotivo, EnVentana, Cargadas, TypeOKL
    <3>4. ColaConMotivo'
      BY <1>3, <2>2, <3>3, ColaIgual
    <3> QED
      BY <1>3, <2>2, <3>4 DEF TypeOKL
  <2> QED
    BY <2>1, <2>2
<1>9. TypeOKL'
  BY <1>3, <1>7, <1>8 DEF TypeOKL, Cambia, LicenciasAssumption
<1>10. BarridoVigente'
  BY <1>3 DEF BarridoVigente, Cambia, Turno
<1> QED
  BY <1>7, <1>8, <1>9, <1>10

LEMMA PasoBajas ==
  ASSUME LicenciasAssumption, IInvL, Bajas PROVE IInvL'
<1> USE DEF IInvL
<1>1. PICK l \in Licencias : BorrarLicencia(l)
  BY DEF Bajas
<1>2. licencias' \in [Licencias -> Licencia \cup {Nada}] /\ emitidos' \in [Licencias -> Historia]
  BY <1>1 DEF BorrarLicencia, TypeOKL, SinHistoria, Historia
<1>3. porEntregar' \in Seq(Evento) /\ ColaConMotivo'
  BY <1>1, ColaTrasPendientes DEF TypeOKL, BorrarLicencia
<1>4. TypeOKL'
  BY <1>1, <1>2, <1>3 DEF BorrarLicencia, TypeOKL, Cambia, LicenciasAssumption
<1>5. MarcasAlDia'
  BY <1>1 DEF BorrarLicencia, MarcasAlDia, TypeOKL, SinHistoria
<1>6. BarridoVigente'
  BY <1>1 DEF BorrarLicencia, BarridoVigente, Cambia, Turno
<1> QED
  BY <1>3, <1>4, <1>5, <1>6

\* What circulates does not enter the reason of a bell: a retired machine keeps it.
LEMMA PasoSinLicencias ==
  ASSUME LicenciasAssumption, IInvL, Circulacion \/ Lecturas \/ AbortarBarrido
  PROVE  IInvL'
<1> USE DEF IInvL
<1>1. /\ UNCHANGED <<hoy, licencias, porEntregar, emitidos>>
      /\ campana' \subseteq campana /\ circulan' \subseteq Maquinas
      /\ cambios' \in 0 .. MaxCambios
      /\ barrido' = barrido \/ barrido' = Nada
  BY DEF Circulacion, Lecturas, AbortarBarrido, MoverCirculacion, LeerAviso, Cambia,
         TypeOKL, LicenciasAssumption
<1>2. TypeOKL'
  BY <1>1 DEF TypeOKL
<1>3. BarridoVigente'
  BY <1>1 DEF BarridoVigente, Cargadas, CorrespondeAvisoPrevio, CorrespondeAvisoDeVencimiento
<1>4. MarcasAlDia'
  BY <1>1 DEF MarcasAlDia
<1>5. HayMotivo' <=> HayMotivo
  BY <1>1 DEF HayMotivo, EnVentana, Cargadas
<1>6. ColaConMotivo'
  BY <1>1, <1>5 DEF ColaConMotivo
<1> QED
  BY <1>2, <1>3, <1>4, <1>6

-----------------------------------------------------------------------------
(* The sweep and the delivery                                                *)

LEMMA PasoEmpezarBarrido ==
  ASSUME LicenciasAssumption, IInvL, EmpezarBarrido PROVE IInvL'
<1> USE DEF IInvL
<1>1. /\ barrido' = [dia |-> hoy, filas |-> [l \in Avisables |-> licencias[l]]]
      /\ UNCHANGED <<hoy, circulan, licencias, porEntregar, campana, emitidos, cambios>>
      /\ Avisables # {}
  BY DEF EmpezarBarrido
<1>2. TypeOKL'
  BY <1>1 DEF TypeOKL
<1>3. MarcasAlDia'
  BY <1>1 DEF MarcasAlDia
<1>4. ColaConMotivo'
  BY <1>1 DEF ColaConMotivo, HayMotivo, EnVentana, Cargadas
<1>5. BarridoVigente'
  <2>1. /\ barrido'.dia = hoy /\ DOMAIN barrido'.filas = Avisables
        /\ \A l \in Avisables : barrido'.filas[l] = licencias[l]
    BY <1>1
  <2>2. Avisables \subseteq Cargadas
    BY DEF Avisables, ListarCandidatasAAviso
  <2>3. ASSUME NEW l \in Avisables
        PROVE  /\ licencias[l].vence # Nada /\ licencias[l].vence <= hoy + licencias[l].aviso
               /\ \/ CorrespondeAvisoPrevio(licencias[l], hoy)
                  \/ CorrespondeAvisoDeVencimiento(licencias[l], hoy)
    BY DEF Avisables, ListarCandidatasAAviso, EnVentana
  <2>4. hoy \in 0 .. hoy'
    BY <1>1 DEF TypeOKL
  <2>5. Cargadas' = Cargadas
    BY <1>1 DEF Cargadas
  <2> QED
    BY <1>1, <2>1, <2>2, <2>3, <2>4, <2>5
    DEF BarridoVigente, CorrespondeAvisoPrevio, CorrespondeAvisoDeVencimiento
<1> QED
  BY <1>2, <1>3, <1>4, <1>5

\* Each row announced had not been announced for the expiry it has, and is left marked.
LEMMA FilaBarrida ==
  ASSUME LicenciasAssumption, IInvL, Barrer, NEW l \in DOMAIN barrido.filas
  PROVE  /\ l \in Licencias
         /\ licencias'[l] \in Licencia /\ emitidos'[l] \in Historia
         /\ licencias'[l].vence = licencias[l].vence /\ licencias'[l].aviso = licencias[l].aviso
         /\ emitidos'[l].ajenos = 0 /\ emitidos'[l].previo <= 1 /\ emitidos'[l].final <= 1
         /\ emitidos'[l].previo = 1 => licencias'[l].previo = licencias'[l].vence
         /\ emitidos'[l].final = 1 => licencias'[l].final = licencias'[l].vence
<1> USE DEF IInvL
<1> DEFINE r == licencias[l]
           d == barrido.dia
           venc == r.vence <= d /\ r.final # r.vence
<1>1. /\ l \in Cargadas /\ l \in Licencias /\ d \in Nat
      /\ barrido.filas[l] = r /\ r.vence # Nada
      /\ \/ d < r.vence /\ r.previo # r.vence
         \/ r.vence <= d /\ r.final # r.vence
  BY DEF Barrer, BarridoVigente, Cargadas, TypeOKL, CorrespondeAvisoPrevio,
         CorrespondeAvisoDeVencimiento
<1>2. r \in Licencia /\ r # Nada /\ r.vence \in Nat
  BY <1>1 DEF Cargadas, TypeOKL, Licencia
<1>3. licencias'[l] = MarcarAvisosEnviados(l) /\ emitidos'[l] = Anotado(l)
  BY <1>1 DEF Barrer
<1>4. MarcarAvisosEnviados(l) =
        [r EXCEPT !.previo = r.vence, !.final = IF venc THEN r.vence ELSE r.final]
  BY <1>1, <1>2 DEF MarcarAvisosEnviados, Marcada, CorrespondeAvisoDeVencimiento, Licencia
<1>5. /\ licencias'[l] \in Licencia
      /\ licencias'[l].vence = r.vence /\ licencias'[l].aviso = r.aviso
      /\ licencias'[l].previo = r.vence
      /\ licencias'[l].final = IF venc THEN r.vence ELSE r.final
  BY <1>2, <1>3, <1>4 DEF Licencia
<1>6. Anotado(l) =
        [previo |-> emitidos[l].previo + (IF venc THEN 0 ELSE 1),
         final |-> emitidos[l].final + (IF venc THEN 1 ELSE 0),
         ajenos |-> emitidos[l].ajenos + 0,
         dias |-> emitidos[l].dias \cup (IF venc THEN {r.vence} ELSE {})]
  BY <1>1, <1>2 DEF Anotado, CorrespondeAvisoDeVencimiento
<1>7. emitidos[l] \in Historia
  BY <1>1 DEF TypeOKL
<1>8. /\ emitidos[l].ajenos = 0 /\ emitidos[l].previo \in {0, 1} /\ emitidos[l].final \in {0, 1}
      /\ emitidos[l].previo = 1 => r.previo = r.vence
      /\ emitidos[l].final = 1 => r.final = r.vence
  BY <1>1, <1>7 DEF MarcasAlDia, Historia
<1>9. CASE venc
  <2>1. emitidos[l].final = 0
    BY <1>8, <1>9
  <2>2. /\ emitidos'[l].previo = emitidos[l].previo /\ emitidos'[l].final = 1
        /\ emitidos'[l].ajenos = 0 /\ emitidos'[l] \in Historia
    BY <1>2, <1>3, <1>6, <1>7, <1>8, <1>9, <2>1 DEF Historia
  <2> QED
    BY <1>1, <1>5, <1>8, <1>9, <2>2
<1>10. CASE ~venc
  <2>1. emitidos[l].previo = 0
    BY <1>1, <1>8, <1>10
  <2>2. /\ emitidos'[l].previo = 1 /\ emitidos'[l].final = emitidos[l].final
        /\ emitidos'[l].ajenos = 0 /\ emitidos'[l] \in Historia
    BY <1>2, <1>3, <1>6, <1>7, <1>8, <1>10, <2>1 DEF Historia
  <2> QED
    BY <1>1, <1>5, <1>8, <1>10, <2>2
<1> QED
  BY <1>9, <1>10

LEMMA PasoBarrer ==
  ASSUME LicenciasAssumption, IInvL, Barrer PROVE IInvL'
<1> USE DEF IInvL
<1> DEFINE filas == DOMAIN barrido.filas
           e == [tipo |-> "licencia.por-vencer", cuantas |-> Cardinality(filas)]
<1>1. /\ filas \subseteq Cargadas /\ filas # {} /\ barrido' = Nada
      /\ porEntregar' = Append(porEntregar, e)
      /\ UNCHANGED <<hoy, circulan, campana, cambios>>
      /\ licencias' = [l \in Licencias |->
            IF l \in filas THEN MarcarAvisosEnviados(l) ELSE licencias[l]]
      /\ emitidos' = [l \in Licencias |-> IF l \in filas THEN Anotado(l) ELSE emitidos[l]]
  BY DEF Barrer, BarridoVigente
<1>2. e \in Evento /\ e.tipo = "licencia.por-vencer"
  <2>1. IsFiniteSet(filas)
    BY <1>1, FS_Subset DEF Cargadas, LicenciasAssumption
  <2> QED
    BY <2>1, FS_CardinalityType DEF Evento
<1>3. ASSUME NEW l \in Licencias \ filas
      PROVE  licencias'[l] = licencias[l] /\ emitidos'[l] = emitidos[l]
  BY <1>1
<1>4. licencias' \in [Licencias -> Licencia \cup {Nada}]
  <2>1. \A l \in Licencias : licencias'[l] \in Licencia \cup {Nada}
    BY <1>3, FilaBarrida DEF TypeOKL
  <2> QED
    BY <1>1, <2>1
<1>5. emitidos' \in [Licencias -> Historia]
  <2>1. \A l \in Licencias : emitidos'[l] \in Historia
    BY <1>3, FilaBarrida DEF TypeOKL
  <2> QED
    BY <1>1, <2>1
<1>6. MarcasAlDia'
  <2>1. ASSUME NEW l \in Licencias
        PROVE  /\ emitidos'[l].ajenos = 0 /\ emitidos'[l].previo <= 1 /\ emitidos'[l].final <= 1
               /\ licencias'[l] = Nada => emitidos'[l].previo = 0 /\ emitidos'[l].final = 0
               /\ emitidos'[l].previo = 1 => licencias'[l].previo = licencias'[l].vence
               /\ emitidos'[l].final = 1 => licencias'[l].final = licencias'[l].vence
    <3>1. CASE l \in filas
      <4>1. licencias'[l] # Nada
        BY <3>1, FilaBarrida DEF LicenciasAssumption
      <4> QED
        BY <3>1, <4>1, FilaBarrida
    <3>2. CASE l \notin filas
      BY <1>3, <3>2 DEF MarcasAlDia
    <3> QED
      BY <3>1, <3>2
  <2> QED
    BY <2>1 DEF MarcasAlDia
<1>7. HayMotivo'
  <2>1. PICK l \in filas : TRUE
    BY <1>1
  <2>2. /\ licencias[l].vence # Nada /\ barrido.dia \in 0 .. hoy
        /\ licencias[l].vence <= barrido.dia + licencias[l].aviso
    BY DEF Barrer, BarridoVigente
  <2>3. /\ l \in Licencias /\ licencias'[l] \in Licencia
        /\ licencias'[l].vence = licencias[l].vence /\ licencias'[l].aviso = licencias[l].aviso
    BY FilaBarrida
  <2>4. licencias'[l].vence \in Nat /\ licencias'[l].aviso \in Nat
    BY <2>2, <2>3 DEF Licencia, LicenciasAssumption
  <2>5. licencias'[l].vence <= hoy' + licencias'[l].aviso
    BY <1>1, <2>2, <2>3, <2>4 DEF TypeOKL
  <2> QED
    BY <2>2, <2>3, <2>5 DEF HayMotivo, EnVentana, Cargadas, LicenciasAssumption
<1> HIDE DEF e
<1>8. porEntregar' \in Seq(Evento) /\ porEntregar' # <<>>
  BY <1>1, <1>2 DEF TypeOKL
<1>9. TypeOKL' /\ BarridoVigente' /\ ColaConMotivo'
  BY <1>1, <1>4, <1>5, <1>7, <1>8 DEF TypeOKL, BarridoVigente, ColaConMotivo
<1> QED
  BY <1>6, <1>9

\* Delivered in order, only the last event says how the bell is left.
LEMMA PasoEntregarAvisos ==
  ASSUME LicenciasAssumption, IInvL, Entregar PROVE IInvL'
<1> USE DEF IInvL
<1> DEFINE e == porEntregar[1]
<1>1. /\ porEntregar # <<>> /\ porEntregar' = RemoveAt(porEntregar, 1)
      /\ campana' = IF e.tipo = "licencia.por-vencer" THEN Encargados
                    ELSE IF e.cuantas = 0 THEN {} ELSE campana
      /\ UNCHANGED <<hoy, circulan, licencias, barrido, emitidos, cambios>>
  BY DEF Entregar, Siguiente, NotificarATodosLosAdmins, CerrarAvisosPendientesDe
<1>2. porEntregar' = SubSeq(porEntregar, 2, Len(porEntregar)) /\ porEntregar \in Seq(Evento)
  BY <1>1 DEF RemoveAt, TypeOKL
<1>3. PICK n \in Nat : n = Len(porEntregar) /\ n # 0
  BY <1>1, <1>2
<1>4. /\ porEntregar' \in Seq(Evento) /\ Len(porEntregar') = n - 1
      /\ n > 1 => porEntregar'[n - 1] = porEntregar[n]
  BY <1>2, <1>3
<1>5. TypeOKL'
  BY <1>1, <1>4 DEF TypeOKL
<1>6. BarridoVigente' /\ MarcasAlDia'
  BY <1>1 DEF BarridoVigente, MarcasAlDia, Cargadas, CorrespondeAvisoPrevio,
     CorrespondeAvisoDeVencimiento
<1>7. HayMotivo' <=> HayMotivo
  BY <1>1 DEF HayMotivo, EnVentana, Cargadas
<1>8. ColaConMotivo'
  <2>1. CASE n = 1
    <3>1. porEntregar' = <<>>
      BY <1>4, <2>1
    <3> QED
      BY <1>1, <1>3, <1>7, <2>1, <3>1 DEF ColaConMotivo
  <2>2. CASE n > 1
    <3>1. porEntregar' # <<>> /\ porEntregar'[Len(porEntregar')] = porEntregar[Len(porEntregar)]
      BY <1>3, <1>4, <2>2
    <3> QED
      BY <1>1, <1>7, <3>1 DEF ColaConMotivo
  <2> QED
    BY <1>3, <2>1, <2>2
<1> QED
  BY <1>5, <1>6, <1>8

\* Time only brings licences into their window.
LEMMA PasoNuevoDia ==
  ASSUME LicenciasAssumption, IInvL, NuevoDia PROVE IInvL'
<1> USE DEF IInvL
<1>1. /\ hoy \in Nat /\ hoy' = hoy + 1 /\ hoy' \in 0 .. UltimoDia
      /\ UNCHANGED <<circulan, licencias, barrido, porEntregar, campana, emitidos, cambios>>
  BY DEF NuevoDia, TypeOKL, LicenciasAssumption
<1>2. TypeOKL' /\ MarcasAlDia'
  BY <1>1 DEF TypeOKL, MarcasAlDia
<1>3. BarridoVigente'
  BY <1>1 DEF BarridoVigente, Cargadas, CorrespondeAvisoPrevio, CorrespondeAvisoDeVencimiento
<1>4. HayMotivo => HayMotivo'
  <2>1. ASSUME NEW l \in Cargadas, EnVentana(licencias[l])
        PROVE  licencias[l].vence <= hoy' + licencias[l].aviso
    <3>1. licencias[l].vence \in Nat /\ licencias[l].aviso \in Nat
      BY <2>1 DEF EnVentana, Cargadas, TypeOKL, Licencia, LicenciasAssumption
    <3> QED
      BY <1>1, <2>1, <3>1 DEF EnVentana
  <2> QED
    BY <1>1, <2>1 DEF HayMotivo, EnVentana, Cargadas
<1> QED
  BY <1>1, <1>2, <1>3, <1>4, ColaIgual

-----------------------------------------------------------------------------

\* The inductive invariant of the licences.
THEOREM LicenciasCoherentes == ASSUME LicenciasAssumption PROVE SpecL => []IInvL
<1>1. InitL => IInvL
  BY InicioL
<1>2. IInvL /\ [NextL]_varsL => IInvL'
  <2> SUFFICES ASSUME IInvL, [NextL]_varsL PROVE IInvL'
    OBVIOUS
  <2>1. CASE NextL
    BY <2>1, PasoAltas, PasoRenovaciones, PasoEdiciones, PasoBajas, PasoSinLicencias,
       PasoEmpezarBarrido, PasoBarrer, PasoEntregarAvisos, PasoNuevoDia DEF NextL
  <2>2. CASE UNCHANGED varsL
    BY <2>2 DEF varsL, IInvL, TypeOKL, BarridoVigente, MarcasAlDia, ColaConMotivo, HayMotivo,
       EnVentana, Cargadas, CorrespondeAvisoPrevio, CorrespondeAvisoDeVencimiento
  <2> QED
    BY <2>1, <2>2
<1> QED
  BY <1>1, <1>2, PTL DEF SpecL

\* RF-03.14, for any licences, days and failures: each expiry is announced at
\* most once in advance and once on its day and never for a date that is no
\* longer in force, and an open notice with nothing on its way has its reason.
THEOREM AvisosSiempreConMotivo == ASSUME LicenciasAssumption PROVE SpecL => []AvisosConMotivo
<1>1. ASSUME IInvL PROVE AvisosConMotivo
  <2>1. DosAvisosPorCiclo
    BY <1>1 DEF IInvL, MarcasAlDia, DosAvisosPorCiclo
  <2>2. ASSUME NEW l \in Cargadas, EnVentana(licencias[l])
        PROVE  Estado(licencias[l]) \in {"VENCIDA", "POR_VENCER"}
    <3>1. licencias[l].vence \in Nat /\ hoy \in Nat
      BY <1>1, <2>2 DEF IInvL, TypeOKL, EnVentana, Cargadas, Licencia
    <3> QED
      BY <2>2, <3>1 DEF EnVentana, Estado
  <2>3. CampanaConMotivo
    BY <1>1, <2>2 DEF IInvL, ColaConMotivo, HayMotivo, CampanaConMotivo
  <2> QED
    BY <2>1, <2>3 DEF AvisosConMotivo
<1> QED
  BY <1>1, LicenciasCoherentes, PTL
=============================================================================
