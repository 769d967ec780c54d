------------------------- MODULE StreamControlProofs -------------------------
(***************************************************************************)
(* Proofs about playback control, for every set of streams and volumes and *)
(* every number of files played and starts that fail.                      *)
(*                                                                         *)
(* First, what holds of the programs by themselves: Flow says of every     *)
(* operation of a program what has to follow it and what may not.  It      *)
(* holds of what is built, torn down, cleaned up and rebuilt (BuildFlow to *)
(* CleanupFlow), and of what is left of a program after its first          *)
(* operation (HeadFlow), so it holds of the code of each task at any time. *)
(*                                                                         *)
(* Then an invariant of the tasks (Kept) relates the heap, the pipeline    *)
(* and the requests to what the tasks have still to do.  It is kept by     *)
(* every operation, by the loop and by the handlers, as long as the two    *)
(* tasks are not at the pipeline at once (Sound).                          *)
(***************************************************************************)
EXTENDS StreamControlProps, SequenceTheorems, TLAPS

Objects == Elements \cup {Pipeline}
Opcodes == {"create", "register", "link", "set_uri", "listen", "detach", "run", "rerun",
            "stop", "unregister", "deinit", "set_volume"}
Ops == (Opcodes \X Objects) \cup {<<"give", "mutex">>}

\* The operations that follow place k of a program.
After(c, k) == {c[j] : j \in (k + 1)..Len(c)}

\* What may follow an operation h, and what must: rest is the set of what follows.
FreesInOrder(h, later) ==
  /\ h[1] = "unregister" => <<"deinit", h[2]>> \in later
  /\ h[1] = "deinit" => IF h[2] = Pipeline
                        THEN \A o \in Objects : <<"deinit", o>> \notin later
                        ELSE <<"deinit", Pipeline>> \in later

MakesInOrder(t, h, later) ==
  /\ h[1] \in {"create", "register", "set_uri", "set_volume", "run", "rerun"}
       => \A o \in Objects : <<"deinit", o>> \notin later
  /\ h[1] \in {"register", "set_uri", "set_volume", "run", "rerun"}
       => \A o \in Objects : <<"create", o>> \notin later
  /\ h[1] = "run" => \A o \in Objects : <<"register", o>> \notin later
  /\ h[1] = "set_uri" => h[2] = Source(t)
  /\ h[1] \in {"set_volume", "run"} => <<"set_volume", "i2s">> \notin later
  /\ h[1] = "create"
       => /\ <<"create", Pipeline>> \notin later /\ h \notin later
          /\ h[2] # Pipeline => <<"register", h[2]>> \in later
          /\ \E n \in 1..5 :
               /\ h[2] = Order(t)[n]
               /\ \A m \in (n + 1)..5 : <<"create", Order(t)[m]>> \in later
          /\ \A o \in Objects :
               <<"register", o>> \in later => \E m \in 1..5 : o = Order(t)[m]

Anew(h, later) ==
  /\ h = <<"create", Pipeline>> => <<"create", "i2s">> \in later
  /\ h = <<"deinit", Pipeline>>
       => \A o \in Objects : <<"create", o>> \in later => <<"create", Pipeline>> \in later
  /\ h \in {<<"create", Pipeline>>, <<"deinit", Pipeline>>}
       => (<<"set_uri", "http">> \in later => <<"create", "decoder">> \in later)

Rules(t, h, later) == FreesInOrder(h, later) /\ MakesInOrder(t, h, later) /\ Anew(h, later)

Flow(t, c) == \A k \in 1..Len(c) : Rules(t, c[k], After(c, k))

\* Two programs one after the other.
LEMMA Joined ==
  ASSUME NEW s \in Seq(Ops), NEW u \in Seq(Ops)
  PROVE /\ s \o u \in Seq(Ops) /\ Len(s \o u) = Len(s) + Len(u)
        /\ \A i \in 1..Len(s) : (s \o u)[i] = s[i]
        /\ \A i \in 1..Len(u) : (s \o u)[Len(s) + i] = u[i]
<1> DEFINE z == s \o u
           m == Len(s)
           n == Len(u)
<1>1. /\ z \in Seq(Ops) /\ Len(z) = m + n /\ m \in Nat /\ n \in Nat
      /\ \A i \in 1..(m + n) : z[i] = IF i <= m THEN s[i] ELSE u[i - m]
  BY ConcatProperties
<1> HIDE DEF z, m, n
<1>2. \A i \in 1..m : z[i] = s[i]
  BY <1>1
<1>3. \A i \in 1..n : z[m + i] = u[i]
  <2> TAKE i \in 1..n
  <2>1. m + i \in 1..(m + n) /\ ~(m + i <= m) /\ (m + i) - m = i
    BY <1>1
  <2> QED BY <1>1, <2>1
<1> QED BY <1>1, <1>2, <1>3 DEF z, m, n

\* One operation on each of several objects.
LEMMA EachIs ==
  ASSUME NEW op \in Opcodes, NEW s \in Seq(Objects), NEW n \in Nat, Len(s) = n
  PROVE /\ Each(op, s) \in Seq(Ops) /\ Len(Each(op, s)) = n
        /\ \A i \in 1..n : Each(op, s)[i] = <<op, s[i]>>
<1>1. \A i \in 1..n : <<op, s[i]>> \in Ops
  BY DEF Ops
<1>2. Each(op, s) \in [1..n -> Ops] /\ \A i \in 1..n : Each(op, s)[i] = <<op, s[i]>>
  BY <1>1 DEF Each
<1>3. Each(op, s) \in Seq(Ops)
  BY <1>2, SeqDef
<1>4. Len(Each(op, s)) \in Nat /\ 1..Len(Each(op, s)) = 1..n
  BY <1>2, <1>3, LenProperties
<1>5. Len(Each(op, s)) = n
  BY <1>4
<1> QED BY <1>2, <1>3, <1>5

\* The objects of a pipeline, from the pipeline to the last of its elements.
LEMMA OrderIs ==
  ASSUME NEW t \in Tasks
  PROVE /\ Order(t) \in Seq(Objects) /\ Len(Order(t)) = 5
        /\ Chain(Source(t)) \in Seq(Objects) /\ Len(Chain(Source(t))) = 4
        /\ Order(t)[1] = Pipeline /\ Order(t)[2] = Source(t)
        /\ Order(t)[3] = "decoder" /\ Order(t)[4] = "equalizer" /\ Order(t)[5] = "i2s"
        /\ Chain(Source(t))[1] = Source(t) /\ Chain(Source(t))[2] = "decoder"
        /\ Chain(Source(t))[3] = "equalizer" /\ Chain(Source(t))[4] = "i2s"
        /\ Source(t) = IF t = "main" THEN "http" ELSE "fatfs"
<1>1. Source(t) \in Objects
  BY DEF Source, Tasks, Objects, Elements
<1> DEFINE ch == Chain(Source(t))
           one == <<Pipeline>>
<1>2. /\ ch \in Seq(Objects) /\ Len(ch) = 4 /\ ch[1] = Source(t) /\ ch[2] = "decoder"
      /\ ch[3] = "equalizer" /\ ch[4] = "i2s"
  BY <1>1 DEF Chain, Objects, Elements
<1>3. one \in Seq(Objects) /\ Len(one) = 1 /\ one[1] = Pipeline
  BY DEF Objects
<1> HIDE DEF ch, one
<1> DEFINE o == one \o ch
<1>4. /\ o \in Seq(Objects) /\ Len(o) = 5
      /\ \A i \in 1..5 : o[i] = IF i <= 1 THEN one[i] ELSE ch[i - 1]
  <2>1. /\ o \in Seq(Objects) /\ Len(o) = Len(one) + Len(ch)
        /\ \A i \in 1..(Len(one) + Len(ch)) :
              o[i] = IF i <= Len(one) THEN one[i] ELSE ch[i - Len(one)]
    BY <1>2, <1>3, ConcatProperties
  <2> HIDE DEF o
  <2> QED BY <1>2, <1>3, <2>1
<1>5. Order(t) = o
  BY DEF Order, o, one, ch
<1> HIDE DEF o
<1>6. o[1] = one[1] /\ o[2] = ch[1] /\ o[3] = ch[2] /\ o[4] = ch[3] /\ o[5] = ch[4]
  BY <1>4
<1> QED BY <1>2, <1>3, <1>4, <1>5, <1>6 DEF ch, Source

\* The calls that build a pipeline, up to where they start it.
LEMMA BuildIs ==
  ASSUME NEW t \in Tasks
  PROVE LET b == Build(t) IN
        /\ b \in Seq(Ops) /\ Len(b) = IF t = "main" THEN 13 ELSE 15
        /\ b[1] = <<"create", Pipeline>> /\ b[2] = <<"create", Source(t)>>
        /\ b[3] = <<"create", "decoder">> /\ b[4] = <<"create", "equalizer">>
        /\ b[5] = <<"create", "i2s">>
        /\ b[6] = <<"register", Source(t)>> /\ b[7] = <<"register", "decoder">>
        /\ b[8] = <<"register", "equalizer">> /\ b[9] = <<"register", "i2s">>
        /\ t = "main" =>
             /\ b[10] = <<"link", "http">> /\ b[11] = <<"set_uri", "http">>
             /\ b[12] = <<"listen", Pipeline>> /\ b[13] = <<"run", Pipeline>>
        /\ t = "httpd" =>
             /\ b[10] = <<"link", "fatfs">> /\ b[11] = <<"listen", Pipeline>>
             /\ b[12] = <<"set_uri", "fatfs">> /\ b[13] = <<"set_volume", "i2s">>
             /\ b[14] = <<"run", Pipeline>> /\ b[15] = <<"give", "mutex">>
<1> DEFINE a == Each("create", Order(t))
           r == Each("register", Chain(Source(t)))
           d == Begin(t)
           n == IF t = "main" THEN 4 ELSE 6
<1>1. /\ a \in Seq(Ops) /\ Len(a) = 5 /\ \A i \in 1..5 : a[i] = <<"create", Order(t)[i]>>
      /\ r \in Seq(Ops) /\ Len(r) = 4
      /\ \A i \in 1..4 : r[i] = <<"register", Chain(Source(t))[i]>>
  BY OrderIs, EachIs DEF Opcodes
<1>2. /\ d \in Seq(Ops) /\ Len(d) = n
      /\ t = "main" =>
             /\ d[1] = <<"link", "http">> /\ d[2] = <<"set_uri", "http">>
             /\ d[3] = <<"listen", Pipeline>> /\ d[4] = <<"run", Pipeline>>
      /\ t = "httpd" =>
             /\ d[1] = <<"link", "fatfs">> /\ d[2] = <<"listen", Pipeline>>
             /\ d[3] = <<"set_uri", "fatfs">> /\ d[4] = <<"set_volume", "i2s">>
             /\ d[5] = <<"run", Pipeline>> /\ d[6] = <<"give", "mutex">>
  <2>1. CASE t = "main"
    BY <2>1 DEF Begin, Ops, Opcodes, Objects, Elements
  <2>2. CASE t = "httpd"
    BY <2>2 DEF Begin, Ops, Opcodes, Objects, Elements
  <2> QED BY <2>1, <2>2 DEF Tasks
<1>3. n \in Nat
  OBVIOUS
<1> HIDE DEF a, r, d, n
<1> DEFINE ar == a \o r
           ard == ar \o d
<1>4. /\ ar \in Seq(Ops) /\ Len(ar) = 9
      /\ \A i \in 1..5 : ar[i] = a[i]
      /\ \A i \in 1..4 : ar[5 + i] = r[i]
  <2>1. /\ ar \in Seq(Ops) /\ Len(ar) = Len(a) + Len(r)
        /\ \A i \in 1..Len(a) : ar[i] = a[i]
        /\ \A i \in 1..Len(r) : ar[Len(a) + i] = r[i]
    BY <1>1, Joined
  <2> HIDE DEF ar
  <2> QED BY <1>1, <2>1
<1> HIDE DEF ar
<1>5. /\ ard \in Seq(Ops) /\ Len(ard) = 9 + n
      /\ \A i \in 1..9 : ard[i] = ar[i]
      /\ \A i \in 1..n : ard[9 + i] = d[i]
  <2>1. /\ ard \in Seq(Ops) /\ Len(ard) = Len(ar) + Len(d)
        /\ \A i \in 1..Len(ar) : ard[i] = ar[i]
        /\ \A i \in 1..Len(d) : ard[Len(ar) + i] = d[i]
    BY <1>2, <1>4, Joined
  <2> HIDE DEF ard
  <2> QED BY <1>2, <1>4, <2>1
<1>6. ard = Build(t)
  BY DEF Build, ard, ar, a, r, d
<1> HIDE DEF ard
<1>7. /\ \A i \in 1..5 : ard[i] = <<"create", Order(t)[i]>>
      /\ \A i \in 1..4 : ard[5 + i] = <<"register", Chain(Source(t))[i]>>
  <2>1. \A i \in 1..4 : 5 + i \in 1..9
    OBVIOUS
  <2> QED BY <1>1, <1>4, <1>5, <2>1
<1>8. /\ ard[1] = <<"create", Pipeline>> /\ ard[2] = <<"create", Source(t)>>
      /\ ard[3] = <<"create", "decoder">> /\ ard[4] = <<"create", "equalizer">>
      /\ ard[5] = <<"create", "i2s">>
  BY <1>7, OrderIs
<1>9. /\ ard[6] = <<"register", Source(t)>> /\ ard[7] = <<"register", "decoder">>
      /\ ard[8] = <<"register", "equalizer">> /\ ard[9] = <<"register", "i2s">>
  <2>1. \A i \in 1..4 : ard[5 + i] = <<"register", Chain(Source(t))[i]>>
    BY <1>7
  <2> QED BY <2>1, OrderIs
<1>10. /\ ard[10] = d[1] /\ ard[11] = d[2] /\ ard[12] = d[3] /\ ard[13] = d[4]
       /\ t = "httpd" => ard[14] = d[5] /\ ard[15] = d[6]
  BY <1>5 DEF n
<1>11. /\ t = "main" =>
             /\ ard[10] = <<"link", "http">> /\ ard[11] = <<"set_uri", "http">>
             /\ ard[12] = <<"listen", Pipeline>> /\ ard[13] = <<"run", Pipeline>>
       /\ t = "httpd" =>
             /\ ard[10] = <<"link", "fatfs">> /\ ard[11] = <<"listen", Pipeline>>
             /\ ard[12] = <<"set_uri", "fatfs">> /\ ard[13] = <<"set_volume", "i2s">>
             /\ ard[14] = <<"run", Pipeline>> /\ ard[15] = <<"give", "mutex">>
  BY <1>2, <1>10
<1>12. Len(ard) = IF t = "main" THEN 13 ELSE 15
  BY <1>5 DEF n
<1> QED BY <1>5, <1>6, <1>8, <1>9, <1>11, <1>12, Zenon

\* What is built: nothing is freed, each object is made before it is used.
LEMMA BuildFlow ==
  ASSUME NEW t \in Tasks
  PROVE /\ Flow(t, Build(t))
        /\ \A k \in 1..Len(Build(t)) : Build(t)[k][1] \notin {"deinit", "unregister"}
        /\ t = "main" => \A k \in 1..Len(Build(t)) : Build(t)[k][1] # "set_volume"
        /\ Build(t)[1] = <<"create", Pipeline>> /\ Build(t)[3] = <<"create", "decoder">>
        /\ Len(Build(t)) >= 3
<1> DEFINE b == Build(t)
           len == Len(b)
           src == Source(t)
<1>1. /\ len = IF t = "main" THEN 13 ELSE 15
      /\ b[1] = <<"create", Pipeline>> /\ b[2] = <<"create", src>>
      /\ b[3] = <<"create", "decoder">> /\ b[4] = <<"create", "equalizer">>
      /\ b[5] = <<"create", "i2s">>
      /\ b[6] = <<"register", src>> /\ b[7] = <<"register", "decoder">>
      /\ b[8] = <<"register", "equalizer">> /\ b[9] = <<"register", "i2s">>
      /\ t = "main" =>
             /\ b[10] = <<"link", "http">> /\ b[11] = <<"set_uri", "http">>
             /\ b[12] = <<"listen", Pipeline>> /\ b[13] = <<"run", Pipeline>>
      /\ t = "httpd" =>
             /\ b[10] = <<"link", "fatfs">> /\ b[11] = <<"listen", Pipeline>>
             /\ b[12] = <<"set_uri", "fatfs">> /\ b[13] = <<"set_volume", "i2s">>
             /\ b[14] = <<"run", Pipeline>> /\ b[15] = <<"give", "mutex">>
  BY BuildIs, Zenon
<1>2. /\ src = IF t = "main" THEN "http" ELSE "fatfs"
      /\ Order(t)[1] = Pipeline /\ Order(t)[2] = src
      /\ Order(t)[3] = "decoder" /\ Order(t)[4] = "equalizer" /\ Order(t)[5] = "i2s"
  BY OrderIs
<1> HIDE DEF b, len
<1>3. \A k \in 1..len : \/ k = 1 \/ k = 2 \/ k = 3 \/ k = 4 \/ k = 5 \/ k = 6 \/ k = 7
                        \/ k = 8 \/ k = 9 \/ k = 10 \/ k = 11 \/ k = 12 \/ k = 13
                        \/ t = "httpd" /\ (k = 14 \/ k = 15)
  BY <1>1 DEF Tasks
<1> HIDE DEF src
<1>4. \A k \in 1..len :
        /\ b[k][1] \notin {"deinit", "unregister", "rerun"}
        /\ b[k][1] = "create" <=> k <= 5
        /\ b[k][1] = "register" <=> k \in 6..9
        /\ b[k][1] = "set_uri" => k > 9 /\ b[k][2] = src
        /\ b[k][1] = "set_volume" => t = "httpd" /\ k = 13
        /\ b[k][1] = "run" => k > 9
  <2> TAKE k \in 1..len
  <2>1. \/ k = 1 \/ k = 2 \/ k = 3 \/ k = 4 \/ k = 5
        \/ k = 6 \/ k = 7 \/ k = 8 \/ k = 9 \/ (k > 9 /\ k \in Nat)
    BY <1>3
  <2>2. CASE k > 9 /\ k \in Nat
    <3>1. CASE t = "main"
      BY <1>1, <1>2, <1>3, <2>2, <3>1
    <3>2. CASE t = "httpd"
      BY <1>1, <1>2, <1>3, <2>2, <3>2
    <3> QED BY <3>1, <3>2 DEF Tasks
  <2>3. CASE k = 1 \/ k = 2 \/ k = 3 \/ k = 4 \/ k = 5
    BY <1>1, <2>3
  <2>4. CASE k = 6 \/ k = 7 \/ k = 8 \/ k = 9
    BY <1>1, <2>4
  <2> QED BY <2>1, <2>2, <2>3, <2>4
<1>5. \A k \in 1..len, o \in Objects :
        /\ <<"deinit", o>> \notin After(b, k)
        /\ k >= 5 => <<"create", o>> \notin After(b, k)
        /\ k >= 9 => <<"register", o>> \notin After(b, k)
  BY <1>1, <1>4 DEF After, len
<1>6. ASSUME NEW k \in 1..len PROVE FreesInOrder(b[k], After(b, k))
  BY <1>4, <1>5 DEF FreesInOrder
<1>7. ASSUME NEW k \in 1..len PROVE MakesInOrder(t, b[k], After(b, k))
  <2>1. ASSUME NEW o \in Objects, <<"register", o>> \in After(b, k)
        PROVE \E m \in 1..5 : o = Order(t)[m]
    <3>1. PICK j \in 6..9 : b[j] = <<"register", o>>
      BY <1>4, <2>1 DEF After, len
    <3>2. o \in {src, "decoder", "equalizer", "i2s"}
      BY <1>1, <3>1
    <3> QED BY <1>2, <3>2
  <2>2. ASSUME b[k][1] = "create"
        PROVE /\ <<"create", Pipeline>> \notin After(b, k) /\ b[k] \notin After(b, k)
              /\ b[k][2] # Pipeline => <<"register", b[k][2]>> \in After(b, k)
              /\ \E n \in 1..5 :
                   /\ b[k][2] = Order(t)[n]
                   /\ \A m \in (n + 1)..5 : <<"create", Order(t)[m]>> \in After(b, k)
    <3>1. k \in 1..5 /\ len >= 13 /\ len \in Nat
      BY <1>1, <1>4, <2>2
    <3>2. \A j \in (k + 1)..len : b[j][1] = "create" => j \in (k + 1)..5
      BY <1>4, <3>1
    <3>3. <<"create", Pipeline>> \notin After(b, k) /\ b[k] \notin After(b, k)
      BY <1>1, <1>2, <3>1, <3>2 DEF After, len, Pipeline
    <3>4. \A i \in 1..5 : b[i] = <<"create", Order(t)[i]>>
      BY <1>1, <1>2
    <3>5. /\ b[k][2] = Order(t)[k]
          /\ \A m \in (k + 1)..5 : <<"create", Order(t)[m]>> \in After(b, k)
      BY <3>1, <3>4 DEF After, len
    <3>6. \A i \in 2..5 : b[i + 4] = <<"register", Order(t)[i]>>
      BY <1>1, <1>2
    <3>7. b[k][2] # Pipeline => <<"register", b[k][2]>> \in After(b, k)
      <4> SUFFICES ASSUME b[k][2] # Pipeline PROVE <<"register", b[k][2]>> \in After(b, k)
        OBVIOUS
      <4>1. k \in 2..5
        BY <1>2, <3>1, <3>5
      <4>2. b[k + 4] = <<"register", b[k][2]>>
        BY <3>5, <3>6, <4>1
      <4>3. k + 4 \in (k + 1)..Len(b)
        BY <3>1, <4>1 DEF len
      <4> QED BY <4>2, <4>3 DEF After
    <3> QED BY <3>1, <3>3, <3>5, <3>7
  <2>3. b[k][1] \in {"register", "set_uri", "set_volume", "run", "rerun"} => k >= 5
    BY <1>4
  <2>4. b[k][1] = "run" => k >= 9
    BY <1>4
  <2>5. b[k][1] \in {"set_volume", "run"} => <<"set_volume", "i2s">> \notin After(b, k)
    BY <1>1, <1>3, <1>4 DEF After, len
  <2> QED BY <1>4, <1>5, <2>1, <2>2, <2>3, <2>4, <2>5 DEF MakesInOrder, src
<1>8. ASSUME NEW k \in 1..len PROVE Anew(b[k], After(b, k))
  <2>1. b[k] = <<"create", Pipeline>> => k = 1
    BY <1>1, <1>2, <1>3, <1>4 DEF Pipeline
  <2>2. <<"create", "i2s">> \in After(b, 1) /\ <<"create", "decoder">> \in After(b, 1)
    <3>1. 5 \in 2..len /\ 3 \in 2..len /\ b[5] = <<"create", "i2s">>
          /\ b[3] = <<"create", "decoder">>
      BY <1>1
    <3> QED BY <3>1 DEF After, len
  <2>3. b[k] # <<"deinit", Pipeline>>
    BY <1>4
  <2> QED BY <2>1, <2>2, <2>3 DEF Anew
<1>9. len >= 3
  BY <1>1
<1> QED BY <1>1, <1>4, <1>6, <1>7, <1>8, <1>9 DEF Flow, Rules, b, len

\* A teardown: each element that leaves the pipeline is freed, the pipeline last.
Frees(s) ==
  /\ s \in Seq(Ops)
  /\ \A k \in 1..Len(s) : /\ s[k][1] \in {"stop", "detach", "unregister", "deinit"}
                          /\ FreesInOrder(s[k], After(s, k))

\* The teardown of app_main unregisters all, then frees all.
LEMMA TeardownFrees == Frees(Teardown) /\ <<"deinit", Pipeline>> \in ToSet(Teardown)
<1> DEFINE h == << <<"stop", Pipeline>>, <<"detach", Pipeline>> >>
           c == Chain("http")
           p == <<Pipeline>>
           u == Each("unregister", c)
           cp == c \o p
           d == Each("deinit", cp)
<1>1. /\ c \in Seq(Objects) /\ Len(c) = 4 /\ c[1] = "http" /\ c[2] = "decoder"
      /\ c[3] = "equalizer" /\ c[4] = "i2s"
  <2>1. "main" \in Tasks /\ Source("main") = "http"
    BY DEF Tasks, Source
  <2> QED BY <2>1, OrderIs
<1>2. p \in Seq(Objects) /\ Len(p) = 1 /\ p[1] = Pipeline
  BY DEF Objects
<1>3. /\ h \in Seq(Ops) /\ Len(h) = 2
      /\ h[1] = <<"stop", Pipeline>> /\ h[2] = <<"detach", Pipeline>>
  BY DEF Ops, Opcodes, Objects
<1> HIDE DEF c, p, h
<1>4. /\ cp \in Seq(Objects) /\ Len(cp) = 5
      /\ \A i \in 1..5 : cp[i] = IF i <= 4 THEN c[i] ELSE p[i - 4]
  <2>1. /\ cp \in Seq(Objects) /\ Len(cp) = Len(c) + Len(p)
        /\ \A i \in 1..(Len(c) + Len(p)) :
              cp[i] = IF i <= Len(c) THEN c[i] ELSE p[i - Len(c)]
    BY <1>1, <1>2, ConcatProperties
  <2> HIDE DEF cp
  <2> QED BY <1>1, <1>2, <2>1
<1> HIDE DEF cp
<1>5. /\ u \in Seq(Ops) /\ Len(u) = 4 /\ \A i \in 1..4 : u[i] = <<"unregister", c[i]>>
      /\ d \in Seq(Ops) /\ Len(d) = 5 /\ \A i \in 1..5 : d[i] = <<"deinit", cp[i]>>
  BY <1>1, <1>4, EachIs DEF Opcodes
<1> HIDE DEF u, d
<1> DEFINE hu == h \o u
           z == hu \o d
<1>6. /\ hu \in Seq(Ops) /\ Len(hu) = 6 /\ \A i \in 1..2 : hu[i] = h[i]
      /\ \A i \in 1..4 : hu[2 + i] = u[i]
  <2>1. /\ hu \in Seq(Ops) /\ Len(hu) = Len(h) + Len(u)
        /\ \A i \in 1..Len(h) : hu[i] = h[i]
        /\ \A i \in 1..Len(u) : hu[Len(h) + i] = u[i]
    BY <1>3, <1>5, Joined
  <2> HIDE DEF hu
  <2> QED BY <1>3, <1>5, <2>1
<1> HIDE DEF hu
<1>7. /\ z \in Seq(Ops) /\ Len(z) = 11 /\ \A i \in 1..6 : z[i] = hu[i]
      /\ \A i \in 1..5 : z[6 + i] = d[i]
  <2>1. /\ z \in Seq(Ops) /\ Len(z) = Len(hu) + Len(d)
        /\ \A i \in 1..Len(hu) : z[i] = hu[i]
        /\ \A i \in 1..Len(d) : z[Len(hu) + i] = d[i]
    BY <1>5, <1>6, Joined
  <2> HIDE DEF z
  <2> QED BY <1>5, <1>6, <2>1
<1>8. z = Teardown
  BY DEF Teardown, z, hu, h, u, d, cp, c, p
<1> HIDE DEF z
<1>9. /\ z[1] = h[1] /\ z[2] = h[2]
      /\ \A i \in 1..4 : z[2 + i] = <<"unregister", c[i]>>
      /\ \A i \in 1..4 : z[6 + i] = <<"deinit", c[i]>>
      /\ z[11] = <<"deinit", Pipeline>>
  <2>1. \A i \in 1..4 : 2 + i \in 1..6
    OBVIOUS
  <2>2. \A i \in 1..4 : cp[i] = c[i]
    BY <1>4
  <2>3. cp[5] = Pipeline
    BY <1>2, <1>4
  <2>4. z[6 + 5] = d[5]
    BY <1>7
  <2> QED BY <1>5, <1>6, <1>7, <2>1, <2>2, <2>3, <2>4
<1>10. /\ z[3] = <<"unregister", "http">> /\ z[4] = <<"unregister", "decoder">>
       /\ z[5] = <<"unregister", "equalizer">> /\ z[6] = <<"unregister", "i2s">>
       /\ z[7] = <<"deinit", "http">> /\ z[8] = <<"deinit", "decoder">>
       /\ z[9] = <<"deinit", "equalizer">> /\ z[10] = <<"deinit", "i2s">>
  BY <1>1, <1>9
<1>11. ASSUME NEW k \in 1..Len(z)
       PROVE /\ z[k][1] \in {"stop", "detach", "unregister", "deinit"}
             /\ FreesInOrder(z[k], After(z, k))
  <2>1. \/ k = 1 \/ k = 2 \/ k = 3 \/ k = 4 \/ k = 5 \/ k = 6 \/ k = 7 \/ k = 8
        \/ k = 9 \/ k = 10 \/ k = 11
    BY <1>7
  <2>2. \A j \in (k + 1)..11 : z[j] \in After(z, k)
    BY <1>7 DEF After
  <2>3. z[k][1] \in {"stop", "detach", "unregister", "deinit"}
    <3>1. z[1][1] \in {"stop", "detach"} /\ z[2][1] \in {"stop", "detach"}
      BY <1>3, <1>9
    <3>2. z[11][1] = "deinit"
      BY <1>9
    <3>3. CASE k = 1 \/ k = 2 \/ k = 11
      BY <3>1, <3>2, <3>3
    <3>4. CASE k = 3 \/ k = 4 \/ k = 5 \/ k = 6
      BY <1>10, <3>4
    <3>5. CASE k = 7 \/ k = 8 \/ k = 9 \/ k = 10
      BY <1>10, <3>5
    <3> QED BY <2>1, <3>3, <3>4, <3>5
  <2>4. z[k][1] = "unregister" => <<"deinit", z[k][2]>> \in After(z, k)
    <3> SUFFICES ASSUME z[k][1] = "unregister" PROVE <<"deinit", z[k][2]>> \in After(z, k)
      OBVIOUS
    <3>1. k = 3 \/ k = 4 \/ k = 5 \/ k = 6
      BY <1>3, <1>9, <1>10, <2>1
    <3>2. z[k + 4] = <<"deinit", z[k][2]>>
      BY <1>10, <3>1
    <3>3. k + 4 \in (k + 1)..11
      BY <3>1
    <3> QED BY <2>2, <3>2, <3>3
  <2>5. z[k][1] = "deinit" /\ z[k][2] # Pipeline => <<"deinit", Pipeline>> \in After(z, k)
    <3>1. z[k][1] = "deinit" /\ z[k][2] # Pipeline => 11 \in (k + 1)..11
      BY <1>9, <2>1
    <3> QED BY <1>9, <2>2, <3>1
  <2>6. z[k][1] = "deinit" /\ z[k][2] = Pipeline => After(z, k) = {}
    BY <1>3, <1>7, <1>9, <1>10, <2>1 DEF After, Pipeline
  <2> QED BY <2>3, <2>4, <2>5, <2>6 DEF FreesInOrder
<1>12. z[11] \in ToSet(z)
  BY <1>7, LenProperties DEF ToSet
<1> QED BY <1>7, <1>8, <1>9, <1>11, <1>12 DEF Frees

\* stop_audio_pipeline unregisters and frees the elements one by one.
LEMMA StopPipelineFrees == Frees(StopPipeline) /\ <<"deinit", Pipeline>> \in ToSet(StopPipeline)
<1> DEFINE h == << <<"stop", Pipeline>>, <<"detach", Pipeline>> >>
           e == << <<"deinit", Pipeline>> >>
           h1 == h \o Free("http")
           h2 == h1 \o Free("fatfs")
           h3 == h2 \o Free("decoder")
           h4 == h3 \o Free("equalizer")
           h5 == h4 \o Free("i2s")
           z == h5 \o e
<1>1. \A o \in Objects : /\ Free(o) \in Seq(Ops) /\ Len(Free(o)) = 2
                         /\ Free(o)[1] = <<"unregister", o>>
                         /\ Free(o)[2] = <<"deinit", o>>
  BY DEF Free, Ops, Opcodes
<1>2. /\ h \in Seq(Ops) /\ Len(h) = 2
      /\ h[1] = <<"stop", Pipeline>> /\ h[2] = <<"detach", Pipeline>>
      /\ e \in Seq(Ops) /\ Len(e) = 1 /\ e[1] = <<"deinit", Pipeline>>
  BY DEF Ops, Opcodes, Objects
<1> HIDE DEF h, e
<1> DEFINE Made(s, n, r, o) ==
             /\ s \in Seq(Ops) /\ Len(s) = n + 2 /\ \A i \in 1..n : s[i] = r[i]
             /\ s[n + 1] = <<"unregister", o>> /\ s[n + 2] = <<"deinit", o>>
<1>3. ASSUME NEW s \in Seq(Ops), NEW n \in Nat, Len(s) = n, NEW o \in Objects
      PROVE Made(s \o Free(o), n, s, o)
  <2> DEFINE f == Free(o)
             w == s \o f
  <2>1. /\ w \in Seq(Ops) /\ Len(w) = Len(s) + Len(f)
        /\ \A i \in 1..Len(s) : w[i] = s[i]
        /\ \A i \in 1..Len(f) : w[Len(s) + i] = f[i]
    BY <1>1, <1>3, Joined
  <2>2. Len(f) = 2 /\ f[1] = <<"unregister", o>> /\ f[2] = <<"deinit", o>>
    BY <1>1
  <2> HIDE DEF f, w
  <2>3. Made(w, n, s, o)
    BY <1>3, <2>1, <2>2
  <2> QED BY <2>3 DEF w, f
<1>4. "http" \in Objects /\ "fatfs" \in Objects /\ "decoder" \in Objects
      /\ "equalizer" \in Objects /\ "i2s" \in Objects
  BY DEF Objects, Elements
<1>5. Made(h1, 2, h, "http")
  <2>1. h \in Seq(Ops) /\ Len(h) = 2 /\ 2 \in Nat
    BY <1>2
  <2> HIDE DEF Made
  <2> QED BY <1>3, <1>4, <2>1, Zenon
<1> HIDE DEF h1
<1>6. Made(h2, 4, h1, "fatfs")
  <2>1. h1 \in Seq(Ops) /\ Len(h1) = 4 /\ 4 \in Nat
    BY <1>2, <1>5
  <2> HIDE DEF Made
  <2> QED BY <1>3, <1>4, <2>1, Zenon
<1> HIDE DEF h2
<1>7. Made(h3, 6, h2, "decoder")
  <2>1. h2 \in Seq(Ops) /\ Len(h2) = 6 /\ 6 \in Nat
    BY <1>2, <1>6
  <2> HIDE DEF Made
  <2> QED BY <1>3, <1>4, <2>1, Zenon
<1> HIDE DEF h3
<1>8. Made(h4, 8, h3, "equalizer")
  <2>1. h3 \in Seq(Ops) /\ Len(h3) = 8 /\ 8 \in Nat
    BY <1>2, <1>7
  <2> HIDE DEF Made
  <2> QED BY <1>3, <1>4, <2>1, Zenon
<1> HIDE DEF h4
<1>9. Made(h5, 10, h4, "i2s")
  <2>1. h4 \in Seq(Ops) /\ Len(h4) = 10 /\ 10 \in Nat
    BY <1>2, <1>8
  <2> HIDE DEF Made
  <2> QED BY <1>3, <1>4, <2>1, Zenon
<1> HIDE DEF h5
<1>10. /\ z \in Seq(Ops) /\ Len(z) = 13 /\ \A i \in 1..12 : z[i] = h5[i]
       /\ z[13] = <<"deinit", Pipeline>>
  <2>1. /\ z \in Seq(Ops) /\ Len(z) = Len(h5) + Len(e)
        /\ \A i \in 1..Len(h5) : z[i] = h5[i]
        /\ \A i \in 1..Len(e) : z[Len(h5) + i] = e[i]
    BY <1>2, <1>9, Joined
  <2> HIDE DEF z
  <2>2. z[12 + 1] = e[1]
    BY <1>2, <1>9, <2>1
  <2> QED BY <1>2, <1>9, <2>1, <2>2
<1>11. z = StopPipeline
  BY DEF StopPipeline, z, h5, h4, h3, h2, h1, h, e
<1> HIDE DEF z
<1>12. /\ z[1] = <<"stop", Pipeline>> /\ z[2] = <<"detach", Pipeline>>
       /\ z[3] = <<"unregister", "http">> /\ z[4] = <<"deinit", "http">>
       /\ z[5] = <<"unregister", "fatfs">> /\ z[6] = <<"deinit", "fatfs">>
       /\ z[7] = <<"unregister", "decoder">> /\ z[8] = <<"deinit", "decoder">>
       /\ z[9] = <<"unregister", "equalizer">> /\ z[10] = <<"deinit", "equalizer">>
       /\ z[11] = <<"unregister", "i2s">> /\ z[12] = <<"deinit", "i2s">>
  <2>1. h1[1] = h[1] /\ h1[2] = h[2] /\ h1[3] = <<"unregister", "http">>
        /\ h1[4] = <<"deinit", "http">>
    BY <1>5
  <2>2. /\ \A i \in 1..4 : h2[i] = h1[i]
        /\ h2[5] = <<"unregister", "fatfs">> /\ h2[6] = <<"deinit", "fatfs">>
    BY <1>6
  <2>3. /\ \A i \in 1..6 : h3[i] = h2[i]
        /\ h3[7] = <<"unregister", "decoder">> /\ h3[8] = <<"deinit", "decoder">>
    BY <1>7
  <2>4. /\ \A i \in 1..8 : h4[i] = h3[i]
        /\ h4[9] = <<"unregister", "equalizer">> /\ h4[10] = <<"deinit", "equalizer">>
    BY <1>8
  <2>5. /\ \A i \in 1..10 : h5[i] = h4[i]
        /\ h5[11] = <<"unregister", "i2s">> /\ h5[12] = <<"deinit", "i2s">>
    BY <1>9
  <2>6. \A i \in 1..10 : z[i] = h4[i]
    BY <1>10, <2>5
  <2>7. \A i \in 1..8 : z[i] = h3[i]
    BY <2>4, <2>6
  <2>8. \A i \in 1..6 : z[i] = h2[i]
    BY <2>3, <2>7
  <2>9. \A i \in 1..4 : z[i] = h1[i]
    BY <2>2, <2>8
  <2>10. z[1] = h[1] /\ z[2] = h[2] /\ z[3] = <<"unregister", "http">>
         /\ z[4] = <<"deinit", "http">>
    BY <2>1, <2>9
  <2>11. z[5] = <<"unregister", "fatfs">> /\ z[6] = <<"deinit", "fatfs">>
         /\ z[7] = <<"unregister", "decoder">> /\ z[8] = <<"deinit", "decoder">>
    BY <2>2, <2>3, <2>7, <2>8
  <2>12. z[9] = <<"unregister", "equalizer">> /\ z[10] = <<"deinit", "equalizer">>
         /\ z[11] = <<"unregister", "i2s">> /\ z[12] = <<"deinit", "i2s">>
    BY <1>10, <2>4, <2>5, <2>6
  <2> QED BY <1>2, <2>10, <2>11, <2>12
<1>13. ASSUME NEW k \in 1..Len(z)
       PROVE /\ z[k][1] \in {"stop", "detach", "unregister", "deinit"}
             /\ FreesInOrder(z[k], After(z, k))
  <2>1. \/ k = 1 \/ k = 2 \/ k = 3 \/ k = 4 \/ k = 5 \/ k = 6 \/ k = 7 \/ k = 8
        \/ k = 9 \/ k = 10 \/ k = 11 \/ k = 12 \/ k = 13
    BY <1>10
  <2>2. \A j \in (k + 1)..13 : z[j] \in After(z, k)
    BY <1>10 DEF After
  <2>3. z[k][1] \in {"stop", "detach", "unregister", "deinit"}
    BY <1>10, <1>12, <2>1
  <2>4. z[k][1] = "unregister" => <<"deinit", z[k][2]>> \in After(z, k)
    <3> SUFFICES ASSUME z[k][1] = "unregister" PROVE <<"deinit", z[k][2]>> \in After(z, k)
      OBVIOUS
    <3>1. k = 3 \/ k = 5 \/ k = 7 \/ k = 9 \/ k = 11
      BY <1>10, <1>12, <2>1
    <3>2. z[k + 1] = <<"deinit", z[k][2]>>
      <4>1. CASE k = 3
        BY <1>12, <4>1
      <4>2. CASE k = 5
        BY <1>12, <4>2
      <4>3. CASE k = 7
        BY <1>12, <4>3
      <4>4. CASE k = 9
        BY <1>12, <4>4
      <4>5. CASE k = 11
        BY <1>12, <4>5
      <4> QED BY <3>1, <4>1, <4>2, <4>3, <4>4, <4>5
    <3>3. k + 1 \in (k + 1)..13
      BY <3>1
    <3> QED BY <2>2, <3>2, <3>3
  <2>5. z[k][1] = "deinit" /\ z[k][2] # Pipeline => <<"deinit", Pipeline>> \in After(z, k)
    <3>1. z[k][1] = "deinit" /\ z[k][2] # Pipeline => 13 \in (k + 1)..13
      BY <1>10, <2>1
    <3> QED BY <1>10, <2>2, <3>1
  <2>6. z[k][1] = "deinit" /\ z[k][2] = Pipeline => After(z, k) = {}
    BY <1>10, <1>12, <2>1 DEF After, Pipeline
  <2> QED BY <2>3, <2>4, <2>5, <2>6 DEF FreesInOrder
<1>14. z[13] \in ToSet(z)
  <2>1. 13 \in 1..Len(z) /\ DOMAIN z = 1..Len(z)
    BY <1>10, LenProperties
  <2> QED BY <2>1 DEF ToSet
<1> QED BY <1>10, <1>11, <1>13, <1>14 DEF Frees

\* The same of the program as a set of operations.
LEMMA BuildSet ==
  ASSUME NEW t \in Tasks
  PROVE /\ Build(t) \in Seq(Ops) /\ Flow(t, Build(t)) /\ Build(t) # <<>>
        /\ \A o \in Objects : /\ <<"deinit", o>> \notin ToSet(Build(t))
                             /\ <<"unregister", o>> \notin ToSet(Build(t))
        /\ t = "main" => \A o \in Objects : <<"set_volume", o>> \notin ToSet(Build(t))
        /\ <<"create", Pipeline>> \in ToSet(Build(t))
        /\ <<"create", "decoder">> \in ToSet(Build(t))
<1> DEFINE b == Build(t)
           len == Len(b)
<1>1. b \in Seq(Ops)
  BY BuildIs
<1>2. DOMAIN b = 1..len /\ len \in Nat
  BY <1>1, LenProperties
<1>3. /\ Flow(t, b)
      /\ \A k \in 1..len : b[k][1] \notin {"deinit", "unregister"}
      /\ t = "main" => \A k \in 1..len : b[k][1] # "set_volume"
      /\ b[1] = <<"create", Pipeline>> /\ b[3] = <<"create", "decoder">> /\ len >= 3
  BY BuildFlow
<1>4. b # <<>>
  BY <1>1, <1>3
<1> HIDE DEF b, len
<1>5. 1 \in DOMAIN b /\ 3 \in DOMAIN b
  BY <1>2, <1>3
<1>6. <<"create", Pipeline>> \in ToSet(b) /\ <<"create", "decoder">> \in ToSet(b)
  BY <1>3, <1>5 DEF ToSet
<1>7. \A o \in Objects : /\ <<"deinit", o>> \notin ToSet(b)
                        /\ <<"unregister", o>> \notin ToSet(b)
  BY <1>2, <1>3 DEF ToSet
<1>8. t = "main" => \A o \in Objects : <<"set_volume", o>> \notin ToSet(b)
  BY <1>2, <1>3 DEF ToSet
<1> QED BY <1>1, <1>3, <1>4, <1>6, <1>7, <1>8 DEF b

\* Tearing down and building again: what is built comes after all that is freed.
LEMMA RebuildFlow ==
  ASSUME NEW t \in Tasks, NEW s, Frees(s)
  PROVE /\ s \o Build(t) \in Seq(Ops) /\ Flow(t, s \o Build(t)) /\ s \o Build(t) # <<>>
        /\ ToSet(s \o Build(t)) = ToSet(s) \cup ToSet(Build(t))
<1> DEFINE b == Build(t)
           z == s \o b
           m == Len(s)
           n == Len(b)
<1>1. /\ b \in Seq(Ops) /\ Flow(t, b) /\ b # <<>>
      /\ \A o \in Objects : <<"deinit", o>> \notin ToSet(b)
      /\ <<"create", Pipeline>> \in ToSet(b) /\ <<"create", "decoder">> \in ToSet(b)
  BY BuildSet
<1>2. s \in Seq(Ops)
  BY DEF Frees
<1> HIDE DEF b
<1>3. /\ z \in Seq(Ops) /\ Len(z) = m + n /\ m \in Nat /\ n \in Nat
      /\ \A i \in 1..m : z[i] = s[i]
      /\ \A i \in 1..n : z[m + i] = b[i]
      /\ DOMAIN s = 1..m /\ DOMAIN b = 1..n /\ DOMAIN z = 1..(m + n)
  <2>1. /\ z \in Seq(Ops) /\ Len(z) = m + n
        /\ \A i \in 1..m : z[i] = s[i]
        /\ \A i \in 1..n : z[m + i] = b[i]
    BY <1>1, <1>2, Joined
  <2>2. DOMAIN z = 1..Len(z) /\ m \in Nat /\ n \in Nat /\ DOMAIN s = 1..m /\ DOMAIN b = 1..n
    BY <1>1, <1>2, <2>1, LenProperties
  <2> HIDE DEF z, m, n
  <2> QED BY <2>1, <2>2
<1>4. z # <<>>
  <2>1. n > 0
    BY <1>1
  <2> HIDE DEF z, n, m
  <2> QED BY <1>3, <2>1
<1> HIDE DEF z
<1>5. ASSUME NEW k \in 1..m
      PROVE z[k] = s[k] /\ After(z, k) = After(s, k) \cup ToSet(b)
  <2>1. ASSUME NEW j \in (k + 1)..(m + n) PROVE z[j] \in After(s, k) \cup ToSet(b)
    <3>1. CASE j <= m
      BY <1>3, <3>1 DEF After
    <3>2. CASE ~(j <= m)
      <4>1. j - m \in 1..n /\ m + (j - m) = j
        BY <1>3, <3>2
      <4>2. z[j] = b[j - m]
        BY <1>3, <4>1
      <4> QED BY <1>3, <4>1, <4>2 DEF ToSet
    <3> QED BY <3>1, <3>2
  <2>2. ASSUME NEW j \in (k + 1)..m PROVE s[j] \in After(z, k)
    BY <1>3 DEF After
  <2>3. ASSUME NEW j \in 1..n PROVE b[j] \in After(z, k)
    <3>1. m + j \in (k + 1)..(m + n) /\ z[m + j] = b[j]
      BY <1>3
    <3> QED BY <1>3, <3>1 DEF After
  <2>4. After(z, k) \subseteq After(s, k) \cup ToSet(b)
    BY <1>3, <2>1 DEF After
  <2>5. After(s, k) \subseteq After(z, k)
    BY <2>2 DEF After
  <2>6. ToSet(b) \subseteq After(z, k)
    BY <1>3, <2>3 DEF ToSet
  <2> QED BY <1>3, <2>4, <2>5, <2>6
<1>6. ASSUME NEW k \in 1..n
      PROVE z[m + k] = b[k] /\ After(z, m + k) = After(b, k)
  <2>1. ASSUME NEW j \in (m + k + 1)..(m + n) PROVE z[j] \in After(b, k)
    <3>1. j - m \in (k + 1)..n /\ j - m \in 1..n /\ m + (j - m) = j
      BY <1>3
    <3>2. z[j] = b[j - m]
      BY <1>3, <3>1
    <3> QED BY <3>1, <3>2 DEF After
  <2>2. ASSUME NEW j \in (k + 1)..n PROVE b[j] \in After(z, m + k)
    <3>1. m + j \in ((m + k) + 1)..(m + n) /\ z[m + j] = b[j]
      BY <1>3
    <3> QED BY <1>3, <3>1 DEF After
  <2>3. After(z, m + k) \subseteq After(b, k)
    BY <1>3, <2>1 DEF After
  <2>4. After(b, k) \subseteq After(z, m + k)
    BY <2>2 DEF After
  <2> QED BY <1>3, <2>3, <2>4
<1>7. ASSUME NEW k \in 1..m PROVE Rules(t, z[k], After(z, k))
  <2> DEFINE later == After(s, k) \cup ToSet(b)
  <2>1. /\ s[k][1] \in {"stop", "detach", "unregister", "deinit"}
        /\ FreesInOrder(s[k], After(s, k))
    BY DEF Frees
  <2>2. FreesInOrder(s[k], later)
    BY <1>1, <2>1 DEF FreesInOrder
  <2>3. MakesInOrder(t, s[k], later)
    BY <2>1 DEF MakesInOrder
  <2>4. Anew(s[k], later)
    BY <1>1, <2>1 DEF Anew
  <2> QED BY <1>5, <2>2, <2>3, <2>4 DEF Rules
<1>8. ASSUME NEW k \in 1..n PROVE Rules(t, z[m + k], After(z, m + k))
  BY <1>1, <1>6 DEF Flow
<1>9. ASSUME NEW k \in 1..(m + n) PROVE Rules(t, z[k], After(z, k))
  <2>1. CASE k <= m
    BY <1>3, <1>7, <2>1
  <2>2. CASE ~(k <= m)
    <3>1. k - m \in 1..n /\ m + (k - m) = k
      BY <1>3, <2>2
    <3> QED BY <1>8, <3>1
  <2> QED BY <2>1, <2>2
<1>10. Flow(t, z)
  BY <1>3, <1>9 DEF Flow
<1>11. ToSet(z) = ToSet(s) \cup ToSet(b)
  <2>1. ASSUME NEW j \in 1..(m + n) PROVE z[j] \in ToSet(s) \cup ToSet(b)
    <3>1. CASE j <= m
      BY <1>3, <3>1 DEF ToSet
    <3>2. CASE ~(j <= m)
      <4>1. j - m \in 1..n /\ m + (j - m) = j
        BY <1>3, <3>2
      <4>2. z[j] = b[j - m]
        BY <1>3, <4>1
      <4> QED BY <1>3, <4>1, <4>2 DEF ToSet
    <3> QED BY <3>1, <3>2
  <2>2. ASSUME NEW j \in 1..m PROVE s[j] \in ToSet(z)
    <3>1. z[j] = s[j] /\ j \in 1..(m + n)
      BY <1>3
    <3> QED BY <1>3, <3>1 DEF ToSet
  <2>3. ASSUME NEW j \in 1..n PROVE b[j] \in ToSet(z)
    <3>1. z[m + j] = b[j] /\ m + j \in 1..(m + n)
      BY <1>3
    <3> QED BY <1>3, <3>1 DEF ToSet
  <2>4. ToSet(z) \subseteq ToSet(s) \cup ToSet(b)
    BY <1>3, <2>1 DEF ToSet
  <2>5. ToSet(s) \subseteq ToSet(z)
    BY <1>3, <2>2 DEF ToSet
  <2>6. ToSet(b) \subseteq ToSet(z)
    BY <1>3, <2>3 DEF ToSet
  <2> QED BY <2>4, <2>5, <2>6
<1> QED BY <1>3, <1>4, <1>10, <1>11 DEF z, b

\* What a failed start frees: the first n objects, the pipeline last.
LEMMA CleanupFlow ==
  ASSUME NEW t \in Tasks, NEW n \in 0..5
  PROVE /\ Cleanup(t, n) \in Seq(Ops) /\ Flow(t, Cleanup(t, n))
        /\ \A o \in Objects : \A op \in Opcodes :
              <<op, o>> \in ToSet(Cleanup(t, n))
                <=> op = "deinit" /\ \E m \in 1..n : o = Order(t)[m]
<1> DEFINE o == Order(t)
           s == SubSeq(o, 1, n)
           r == Reverse(s)
           d == Each("deinit", r)
           g == IF t = "httpd" THEN << <<"give", "mutex">> >> ELSE <<>>
           z == d \o g
           e == IF t = "httpd" THEN 1 ELSE 0
<1>1. o \in Seq(Objects) /\ Len(o) = 5 /\ o[1] = Pipeline
  BY OrderIs
<1>2. /\ \A i, j \in 1..5 : i # j => o[i] # o[j]
      /\ \A i \in 1..5 : o[i] \in Objects
  BY OrderIs DEF Pipeline, Objects, Elements
<1>3. /\ g \in Seq(Ops) /\ Len(g) = e /\ e \in Nat
      /\ \A i \in 1..e : g[i] = <<"give", "mutex">>
  <2>1. CASE t = "httpd"
    BY <2>1 DEF Ops
  <2>2. CASE t # "httpd"
    BY <2>2
  <2> QED BY <2>1, <2>2
<1> HIDE DEF o, g, e
<1>4. s \in Seq(Objects) /\ Len(s) = n /\ \A i \in 1..n : s[i] = o[i]
  <2>1. 1 \in Int /\ n \in Int /\ \A i \in 1..n : o[i] \in Objects
    BY <1>2
  <2>2. /\ SubSeq(o, 1, n) \in Seq(Objects)
        /\ Len(SubSeq(o, 1, n)) = IF 1 <= n THEN n - 1 + 1 ELSE 0
        /\ \A i \in 1..(n - 1 + 1) : SubSeq(o, 1, n)[i] = o[1 + i - 1]
    BY <2>1, SubSeqProperties
  <2> HIDE DEF s
  <2>3. s = SubSeq(o, 1, n)
    BY DEF s
  <2>4. Len(s) = n
    BY <2>2, <2>3
  <2>5. \A i \in 1..n : s[i] = o[i]
    BY <2>2, <2>3
  <2> QED BY <2>2, <2>3, <2>4, <2>5
<1> HIDE DEF s
<1>5. /\ r \in Seq(Objects) /\ Len(r) = n
      /\ \A i \in 1..n : r[i] = o[n - i + 1]
  <2>1. \A i \in 1..n : n - i + 1 \in 1..n
    OBVIOUS
  <2>2. r = [i \in 1..n |-> s[(n - i) + 1]]
    BY <1>4 DEF Reverse
  <2>3. \A i \in 1..n : r[i] = o[n - i + 1]
    BY <1>4, <2>1, <2>2
  <2>4. \A i \in 1..n : s[i] \in Objects
    BY <1>4, ElementOfSeq
  <2>5. r \in [1..n -> Objects]
    BY <2>1, <2>2, <2>4
  <2>6. r \in Seq(Objects)
    BY <2>5, SeqDef
  <2>7. Len(r) \in Nat /\ 1..Len(r) = 1..n
    BY <2>5, <2>6, LenProperties
  <2>8. Len(r) = n
    BY <2>7
  <2> QED BY <2>3, <2>6, <2>8
<1> HIDE DEF r
<1>6. d \in Seq(Ops) /\ Len(d) = n /\ \A i \in 1..n : d[i] = <<"deinit", r[i]>>
  BY <1>5, EachIs DEF Opcodes
<1> HIDE DEF d
<1>7. /\ z \in Seq(Ops) /\ Len(z) = n + e
      /\ \A i \in 1..n : z[i] = <<"deinit", o[n - i + 1]>>
      /\ \A i \in 1..e : z[n + i] = <<"give", "mutex">>
      /\ DOMAIN z = 1..(n + e)
  <2>1. /\ z \in Seq(Ops) /\ Len(z) = Len(d) + Len(g)
        /\ \A i \in 1..Len(d) : z[i] = d[i]
        /\ \A i \in 1..Len(g) : z[Len(d) + i] = g[i]
    BY <1>3, <1>6, Joined
  <2>2. DOMAIN z = 1..Len(z)
    BY <2>1, LenProperties
  <2> HIDE DEF z
  <2> QED BY <1>3, <1>5, <1>6, <2>1, <2>2
<1>8. z = Cleanup(t, n)
  BY DEF Cleanup, z, d, r, s, o, g
<1> HIDE DEF z
<1>9. \A i \in n + 1..n + e : z[i] = <<"give", "mutex">>
  <2> TAKE i \in n + 1..n + e
  <2>1. i - n \in 1..e /\ n + (i - n) = i
    BY <1>3
  <2> QED BY <1>7, <2>1
<1>10. ASSUME NEW k \in 1..(n + e) PROVE Rules(t, z[k], After(z, k))
  <2>1. CASE k \in 1..n
    <3>1. z[k] = <<"deinit", o[n - k + 1]>> /\ n - k + 1 \in 1..5
      BY <1>7, <2>1
    <3>2. o[n - k + 1] = Pipeline => k = n
      BY <1>1, <1>2, <2>1, <3>1
    <3>3. k = n => After(z, k) \subseteq {<<"give", "mutex">>}
      BY <1>3, <1>7, <1>9 DEF After
    <3>4. k # n => <<"deinit", Pipeline>> \in After(z, k)
      <4> SUFFICES ASSUME k # n PROVE <<"deinit", Pipeline>> \in After(z, k)
        OBVIOUS
      <4>1. n \in (k + 1)..(n + e) /\ n \in 1..n /\ n - n + 1 = 1
        BY <1>3, <2>1
      <4>2. z[n] = <<"deinit", Pipeline>>
        BY <1>1, <1>7, <4>1
      <4> QED BY <1>7, <4>1, <4>2 DEF After
    <3>5. FreesInOrder(z[k], After(z, k))
      <4>1. CASE z[k][2] = Pipeline
        <5>1. k = n
          BY <3>1, <3>2, <4>1
        <5>2. \A p \in Objects : <<"deinit", p>> \notin After(z, k)
          BY <3>3, <5>1
        <5> QED BY <3>1, <4>1, <5>2 DEF FreesInOrder
      <4>2. CASE z[k][2] # Pipeline
        <5>1. k # n
          BY <1>1, <3>1, <4>2
        <5> QED BY <3>1, <3>4, <4>2, <5>1 DEF FreesInOrder
      <4> QED BY <4>1, <4>2
    <3>6. \A p \in Objects : <<"create", p>> \notin After(z, k)
      BY <1>3, <1>7, <1>9 DEF After
    <3>7. <<"set_uri", "http">> \notin After(z, k)
      BY <1>3, <1>7, <1>9 DEF After
    <3> QED BY <3>1, <3>5, <3>6, <3>7 DEF Rules, MakesInOrder, Anew
  <2>2. CASE k \notin 1..n
    <3>1. z[k] = <<"give", "mutex">>
      BY <1>3, <1>9, <2>2
    <3> QED BY <3>1 DEF Rules, FreesInOrder, MakesInOrder, Anew
  <2> QED BY <2>1, <2>2
<1>11. Flow(t, z)
  BY <1>7, <1>10 DEF Flow
<1>12. ASSUME NEW p \in Objects, NEW op \in Opcodes
       PROVE <<op, p>> \in ToSet(z) <=> op = "deinit" /\ \E m \in 1..n : p = o[m]
  <2>1. op # "give"
    BY DEF Opcodes
  <2>2. ASSUME NEW i \in 1..(n + e), z[i] = <<op, p>>
        PROVE op = "deinit" /\ \E m \in 1..n : p = o[m]
    <3>1. i \in 1..n
      BY <1>3, <1>9, <2>1, <2>2
    <3>2. z[i] = <<"deinit", o[n - i + 1]>> /\ n - i + 1 \in 1..n
      BY <1>7, <3>1
    <3> QED BY <2>2, <3>2
  <2>3. ASSUME NEW m \in 1..n, p = o[m] PROVE <<"deinit", p>> \in ToSet(z)
    <3>1. n - m + 1 \in 1..n /\ n - (n - m + 1) + 1 = m /\ n - m + 1 \in 1..(n + e)
      BY <1>3
    <3>2. z[n - m + 1] = <<"deinit", p>>
      BY <1>7, <2>3, <3>1
    <3> QED BY <1>7, <3>1, <3>2 DEF ToSet
  <2> QED BY <1>7, <2>2, <2>3 DEF ToSet
<1> QED BY <1>7, <1>8, <1>11, <1>12 DEF o

\* An operation that a task carries out, and what it has then still to do.
LEMMA HeadFlow ==
  ASSUME NEW t \in Tasks, NEW c \in Seq(Ops), c # <<>>, Flow(t, c)
  PROVE /\ Tail(c) \in Seq(Ops) /\ Flow(t, Tail(c))
        /\ Head(c) \in Ops /\ ToSet(c) = {Head(c)} \cup ToSet(Tail(c))
        /\ Rules(t, Head(c), ToSet(Tail(c)))
<1> DEFINE n == Len(c)
           z == Tail(c)
<1>1. /\ n \in Nat /\ n >= 1 /\ DOMAIN c = 1..n /\ z \in Seq(Ops) /\ Len(z) = n - 1
      /\ \A i \in 1..(n - 1) : z[i] = c[i + 1]
      /\ Head(c) = c[1] /\ Head(c) \in Ops
  BY HeadTailProperties, LenProperties
<1>2. DOMAIN z = 1..(n - 1)
  BY <1>1, LenProperties
<1> HIDE DEF n, z
<1>3. ASSUME NEW k \in 1..n
      PROVE After(c, k) = {z[j] : j \in k..(n - 1)}
  <2>1. ASSUME NEW j \in (k + 1)..n PROVE c[j] \in {z[i] : i \in k..(n - 1)}
    <3>1. j - 1 \in k..(n - 1) /\ j - 1 \in 1..(n - 1) /\ (j - 1) + 1 = j
      BY <1>1
    <3>2. z[j - 1] = c[j]
      BY <1>1, <3>1
    <3> QED BY <3>1, <3>2
  <2>2. ASSUME NEW j \in k..(n - 1) PROVE z[j] \in {c[i] : i \in (k + 1)..n}
    <3>1. j + 1 \in (k + 1)..n /\ z[j] = c[j + 1]
      BY <1>1
    <3> QED BY <3>1
  <2> QED BY <2>1, <2>2 DEF After, n
<1>4. ToSet(z) = After(c, 1)
  <2>1. After(c, 1) = {z[j] : j \in 1..(n - 1)}
    BY <1>1, <1>3
  <2> QED BY <1>2, <2>1 DEF ToSet
<1>5. Rules(t, Head(c), ToSet(z))
  BY <1>1, <1>4 DEF Flow, n
<1>6. ToSet(c) = {Head(c)} \cup ToSet(z)
  <2>1. ASSUME NEW j \in 1..n PROVE c[j] \in {Head(c)} \cup After(c, 1)
    <3>1. j = 1 \/ j \in (1 + 1)..n
      BY <1>1
    <3> QED BY <1>1, <3>1 DEF After, n
  <2>2. After(c, 1) \subseteq ToSet(c) /\ Head(c) \in ToSet(c)
    <3>1. \A j \in (1 + 1)..n : j \in 1..n
      BY <1>1
    <3> QED BY <1>1, <3>1 DEF After, ToSet, n
  <2> QED BY <1>1, <1>4, <2>1, <2>2 DEF ToSet
<1>7. ASSUME NEW k \in 1..(n - 1) PROVE Rules(t, z[k], After(z, k))
  <2>1. z[k] = c[k + 1] /\ k + 1 \in 1..n
    BY <1>1
  <2>2. After(c, k + 1) = After(z, k)
    BY <1>1, <1>3, <2>1 DEF After
  <2>3. Rules(t, c[k + 1], After(c, k + 1))
    BY <2>1 DEF Flow, n
  <2> QED BY <2>1, <2>2, <2>3
<1>8. Flow(t, z)
  BY <1>1, <1>7 DEF Flow
<1> QED BY <1>1, <1>5, <1>6, <1>8 DEF z
-----------------------------------------------------------------------------
\* What the two tasks have still to do, and the objects they will free, make and
\* register.
Pending(t) == ToSet(code[t])
All == Pending("main") \cup Pending("httpd")
To(op) == {o \in Objects : <<op, o>> \in All}

Types ==
  /\ current_stream_url \in Urls /\ current_volume \in Volumes
  /\ stream_change_requested \in BOOLEAN /\ volume_change_requested \in BOOLEAN
  /\ pipe \in [elements : SUBSET Objects, uri : Urls \cup {None, "file"},
               format : Urls \cup {None, "file"}, volume : Volumes \cup {None},
               playing : {"no", "yes", "ended", "failed"}]
  /\ held \in [url : Urls \cup {None}, volume : Volumes \cup {None}]
  /\ code \in [Tasks -> Seq(Ops)]
  /\ \A t \in Tasks : Flow(t, code[t])

\* Every object allocated has a handle, and is the pipeline, an element of it, or
\* one that a task will free or register; a pipeline is built from nothing.
HeapInv ==
  /\ alive \subseteq handles
  /\ Pipeline \in handles => Pipeline \in alive
  /\ Pipeline \notin alive => alive = {} /\ pipe = Unbuilt
  /\ alive \subseteq {Pipeline} \cup pipe.elements \cup To("deinit")
                       \cup (IF Pipeline \in To("deinit") THEN {} ELSE To("register"))
  /\ To("create") # {} /\ Pipeline \notin To("deinit") =>
       /\ alive \cap To("create") = {} /\ pipe.elements = {} /\ pipe.uri = None
       /\ Pipeline \in To("create") \cup alive
  /\ Pipeline \in handles /\ To("deinit") = {} /\ "i2s" \notin To("create")
       => "i2s" \in handles

\* A volume that is not the last one is flagged, or app_main is about to set the
\* last, while it changes nothing else.
VolumeInv ==
  /\ pipe.volume # None =>
       \/ volume_change_requested \/ pipe.volume = current_volume
       \/ <<"set_volume", "i2s">> \in Pending("main")
  /\ <<"set_volume", "i2s">> \in Pending("main") =>
       /\ volume_change_requested \/ held.volume = current_volume
       /\ To("deinit") = {} /\ To("create") = {}

\* A stream that is not the last one is flagged, or app_main is about to tear the
\* pipeline down; the URL it holds, and the one it chose a decoder for, are the
\* last one or a newer one is flagged.
StreamInv ==
  /\ held.url # None => stream_change_requested \/ held.url = current_stream_url
  /\ Pipeline \in handles /\ pipe.uri \in Urls =>
       \/ stream_change_requested
       \/ pipe.uri = current_stream_url /\ pipe.format = current_stream_url
       \/ loop = "change" /\ held.url # None
       \/ <<"deinit", Pipeline>> \in Pending("main")
  /\ <<"set_uri", "http">> \in Pending("main")
       /\ <<"create", "decoder">> \notin Pending("main")
       => stream_change_requested \/ pipe.format = current_stream_url

Kept == Types /\ HeapInv /\ VolumeInv /\ StreamInv
Sound == ~Over => Kept

\* What is pending is what one task has to do, then what it is left with; app_main
\* has it to do when it is that task.
Moves(t, before, after) ==
  /\ code' \in [Tasks -> Seq(Ops)] /\ \A u \in Tasks : Flow(u, code'[u])
  /\ \A op \in Opcodes, o \in Objects :
       /\ <<op, o>> \in All <=> <<op, o>> \in before
       /\ <<op, o>> \in All' <=> <<op, o>> \in after
       /\ <<op, o>> \in Pending("main") <=> t = "main" /\ <<op, o>> \in All
       /\ <<op, o>> \in Pending("main")' <=> t = "main" /\ <<op, o>> \in All'

\* A task takes another program while the other has at most the mutex to give.
LEMMA Swap ==
  ASSUME NEW t \in Tasks, Types, NEW c \in Seq(Ops), Flow(t, c),
         code' = [code EXCEPT ![t] = c],
         \A u \in Tasks \ {t} : Pending(u) \subseteq {<<"give", "mutex">>}
  PROVE Moves(t, Pending(t), ToSet(c))
<1>1. \A op \in Opcodes, o \in Objects : <<op, o>> # <<"give", "mutex">>
  BY DEF Opcodes
<1>2. code'[t] = c /\ \A u \in Tasks \ {t} : code'[u] = code[u]
  BY DEF Types
<1>3. Pending(t)' = ToSet(c) /\ \A u \in Tasks \ {t} : Pending(u)' = Pending(u)
  BY <1>2 DEF Pending
<1>4. code' \in [Tasks -> Seq(Ops)] /\ \A u \in Tasks : Flow(u, code'[u])
  BY <1>2 DEF Types
<1>5. CASE t = "main"
  <2>1. "httpd" \in Tasks \ {t}
    BY <1>5 DEF Tasks
  <2> QED BY <1>1, <1>3, <1>4, <1>5, <2>1 DEF All, Moves
<1>6. CASE t = "httpd"
  <2>1. "main" \in Tasks \ {t} /\ t # "main"
    BY <1>6 DEF Tasks
  <2> QED BY <1>1, <1>3, <1>4, <1>6, <2>1 DEF All, Moves
<1> QED BY <1>5, <1>6 DEF Tasks

\* A task that has more to do than to give the mutex is alone.
LEMMA Alone ==
  ASSUME NEW t \in Tasks, ~Over, Types, code[t] # <<>>, Head(code[t]) # <<"give", "mutex">>
  PROVE \A u \in Tasks \ {t} : Pending(u) \subseteq {<<"give", "mutex">>}
<1>1. ToSet(<<>>) = {} /\ ToSet(<< <<"give", "mutex">> >>) = {<<"give", "mutex">>}
  BY DEF ToSet
<1>2. CASE t = "main"
  <2>1. code["httpd"] \in {<<>>, << <<"give", "mutex">> >>}
    BY <1>2 DEF Over, Uncontrolled
  <2> QED BY <1>1, <1>2, <2>1 DEF Tasks, Pending
<1>3. CASE t = "httpd"
  <2>1. Head(<< <<"give", "mutex">> >>) = <<"give", "mutex">>
    OBVIOUS
  <2>2. code["main"] = <<>>
    BY <1>3, <2>1 DEF Over, Uncontrolled
  <2> QED BY <1>1, <1>3, <2>2 DEF Tasks, Pending
<1> QED BY <1>2, <1>3 DEF Tasks

Left(t) == ToSet(Tail(code[t]))

\* A task is at an operation: what follows it keeps the rules.
LEMMA Ahead ==
  ASSUME NEW t \in Tasks, Types, NEW p, NEW x, Doing(t, p, x)
  PROVE /\ <<p, x>> \in Ops /\ Rules(t, <<p, x>>, Left(t))
        /\ Pending(t) = {<<p, x>>} \cup Left(t)
        /\ Tail(code[t]) \in Seq(Ops) /\ Flow(t, Tail(code[t]))
<1>1. code[t] \in Seq(Ops) /\ Flow(t, code[t]) /\ code[t] # <<>> /\ Head(code[t]) = <<p, x>>
  BY DEF Types, Doing
<1>2. /\ Head(code[t]) \in Ops /\ Rules(t, Head(code[t]), Left(t))
      /\ Pending(t) = {Head(code[t])} \cup Left(t)
      /\ Tail(code[t]) \in Seq(Ops) /\ Flow(t, Tail(code[t]))
  BY <1>1, HeadFlow DEF Pending, Left
<1> QED BY <1>1, <1>2

\* It carries the operation out.
LEMMA Step ==
  ASSUME NEW t \in Tasks, ~Over, Types, NEW p, NEW x, p # "give", Doing(t, p, x), Done(t)
  PROVE /\ p \in Opcodes /\ x \in Objects /\ Rules(t, <<p, x>>, Left(t))
        /\ Moves(t, {<<p, x>>} \cup Left(t), Left(t))
<1>1. /\ <<p, x>> \in Ops /\ Rules(t, <<p, x>>, Left(t))
      /\ Pending(t) = {<<p, x>>} \cup Left(t)
      /\ Tail(code[t]) \in Seq(Ops) /\ Flow(t, Tail(code[t]))
  BY Ahead
<1>2. code' = [code EXCEPT ![t] = Tail(code[t])]
  BY DEF Done
<1>3. \A u \in Tasks \ {t} : Pending(u) \subseteq {<<"give", "mutex">>}
  BY Alone DEF Doing
<1>4. Moves(t, Pending(t), Left(t))
  BY <1>1, <1>2, <1>3, Swap DEF Left
<1>5. p \in Opcodes /\ x \in Objects
  BY <1>1 DEF Ops
<1> QED BY <1>1, <1>4, <1>5

\* A start that fails: the task turns to the cleanup.
LEMMA Turn ==
  ASSUME NEW t \in Tasks, ~Over, Types, NEW p, NEW x, p # "give", Doing(t, p, x),
         NEW n \in 0..5, code' = [code EXCEPT ![t] = Cleanup(t, n)]
  PROVE /\ p \in Opcodes /\ x \in Objects /\ Rules(t, <<p, x>>, Left(t))
        /\ Moves(t, {<<p, x>>} \cup Left(t),
                 {<<"deinit", o>> : o \in {Order(t)[m] : m \in 1..n}})
<1> DEFINE after == {<<"deinit", o>> : o \in {Order(t)[m] : m \in 1..n}}
           c == Cleanup(t, n)
<1>1. /\ <<p, x>> \in Ops /\ Rules(t, <<p, x>>, Left(t))
      /\ Pending(t) = {<<p, x>>} \cup Left(t)
  BY Ahead
<1>2. /\ c \in Seq(Ops) /\ Flow(t, c)
      /\ \A o \in Objects : \A op \in Opcodes :
           <<op, o>> \in ToSet(c) <=> op = "deinit" /\ \E m \in 1..n : o = Order(t)[m]
  BY CleanupFlow
<1>3. \A u \in Tasks \ {t} : Pending(u) \subseteq {<<"give", "mutex">>}
  BY Alone DEF Doing
<1> HIDE DEF c
<1>4. code' = [code EXCEPT ![t] = c]
  BY DEF c
<1>5. Moves(t, Pending(t), ToSet(c))
  BY <1>2, <1>3, <1>4, Swap
<1>6. \A op \in Opcodes, o \in Objects : <<op, o>> \in ToSet(c) <=> <<op, o>> \in after
  BY <1>2
<1>7. p \in Opcodes /\ x \in Objects
  BY <1>1 DEF Ops
<1> HIDE DEF after
<1>8. Moves(t, Pending(t), after)
  BY <1>5, <1>6 DEF Moves
<1> QED BY <1>1, <1>7, <1>8 DEF after

\* xxx_init: what is made has a handle and will be registered; a pipeline comes
\* first, when nothing is left of the last one.
LEMMA CreateKeeps ==
  ASSUME NEW t \in Tasks, NEW o, Kept, ~Over, Create(t, o)
  PROVE Kept'
<1>1. Types /\ HeapInv /\ VolumeInv /\ StreamInv /\ Doing(t, "create", o) /\ Done(t)
  BY DEF Create, Kept
<1>2. /\ o \in Objects /\ Rules(t, <<"create", o>>, Left(t))
      /\ Moves(t, {<<"create", o>>} \cup Left(t), Left(t))
  BY <1>1, Step
<1>3. {"create", "deinit", "register", "set_uri", "set_volume"} \subseteq Opcodes
  BY DEF Opcodes
<1>4. /\ To("deinit") = {} /\ To("deinit")' = {}
      /\ o \in To("create") /\ To("create")' = To("create") \ {o}
      /\ Pipeline \notin To("create")'
      /\ To("register")' = To("register")
      /\ o # Pipeline => o \in To("register")'
      /\ o = Pipeline => "i2s" \in To("create")'
  <2>1. /\ \A x \in Objects : <<"deinit", x>> \notin Left(t)
        /\ <<"create", Pipeline>> \notin Left(t) /\ <<"create", o>> \notin Left(t)
        /\ o # Pipeline => <<"register", o>> \in Left(t)
        /\ o = Pipeline => <<"create", "i2s">> \in Left(t)
    BY <1>2 DEF Rules, MakesInOrder, Anew
  <2>2. "i2s" \in Objects /\ Pipeline \in Objects
    BY DEF Objects, Elements
  <2>3. To("deinit") = {} /\ To("deinit")' = {}
    BY <1>2, <1>3, <2>1 DEF To, Moves
  <2>4. /\ To("register")' = To("register")
        /\ o # Pipeline => o \in To("register")'
    BY <1>2, <1>3, <2>1 DEF To, Moves
  <2>5. /\ o \in To("create") /\ To("create")' = To("create") \ {o}
        /\ Pipeline \notin To("create")'
    BY <1>2, <1>3, <2>1, <2>2 DEF To, Moves
  <2>6. o = Pipeline => "i2s" \in To("create")'
    BY <1>2, <1>3, <2>1, <2>2 DEF To, Moves
  <2> QED BY <2>3, <2>4, <2>5, <2>6
<1>5. /\ handles' = handles \cup {o} /\ alive' = alive \cup {o}
      /\ pipe' = CASE o = Pipeline -> Unbuilt
                   [] o = "decoder" -> [pipe EXCEPT !.format = Asked(t)]
                   [] OTHER -> pipe
      /\ UNCHANGED <<requests, loop, held>>
  BY DEF Create, rest, Pipeline
<1>6. Asked(t) \in Urls \cup {None, "file"}
  BY DEF Asked, Url, Kept, Types
<1>7. /\ pipe' \in [elements : SUBSET Objects, uri : Urls \cup {None, "file"},
               format : Urls \cup {None, "file"}, volume : Volumes \cup {None},
               playing : {"no", "yes", "ended", "failed"}]
      /\ pipe'.uri = None /\ pipe'.elements = {}
      /\ pipe'.volume = IF o = Pipeline THEN None ELSE pipe.volume
      /\ pipe'.format = IF o = Pipeline THEN None
                        ELSE IF o = "decoder" THEN Asked(t) ELSE pipe.format
  <2>1. pipe.uri = None /\ pipe.elements = {}
    BY <1>4 DEF Kept, HeapInv
  <2>2. CASE o = Pipeline
    <3>1. pipe' = Unbuilt
      BY <1>5, <2>2 DEF Pipeline
    <3> QED BY <2>2, <3>1 DEF Unbuilt
  <2>3. CASE o # Pipeline /\ o = "decoder"
    BY <1>5, <1>6, <2>1, <2>3 DEF Kept, Types
  <2>4. CASE o # Pipeline /\ o # "decoder"
    BY <1>5, <2>1, <2>4 DEF Kept, Types
  <2> QED BY <2>2, <2>3, <2>4
<1>8. Types'
  BY <1>1, <1>2, <1>5, <1>7 DEF Types, requests, Moves
<1>9. HeapInv'
  <2>1. /\ alive \cap To("create") = {} /\ Pipeline \in To("create") \cup alive
        /\ pipe.elements = {}
    BY <1>4 DEF Kept, HeapInv
  <2>2. o = Pipeline => alive = {}
    BY <1>4, <2>1 DEF Kept, HeapInv
  <2>3. o # Pipeline => Pipeline \in alive
    BY <1>4, <2>1
  <2>4. Pipeline \in alive'
    BY <1>5, <2>3
  <2>5. alive' \subseteq handles'
    BY <1>5 DEF Kept, HeapInv
  <2>6. alive' \subseteq {Pipeline} \cup To("register")'
    <3>1. alive \subseteq {Pipeline} \cup To("register")
      BY <1>1, <1>4, <2>1 DEF HeapInv
    <3>2. alive' = alive \cup {o}
      BY <1>5
    <3> QED BY <1>4, <3>1, <3>2
  <2>7. alive' \cap To("create")' = {}
    BY <1>4, <1>5, <2>1
  <2>8. "i2s" \notin To("create")' => "i2s" \in handles'
    <3>1. CASE o = "i2s"
      BY <1>5, <3>1
    <3>2. CASE o # "i2s"
      BY <1>4, <1>5, <2>3, <3>2 DEF Kept, HeapInv
    <3> QED BY <3>1, <3>2
  <2> QED BY <1>4, <1>7, <2>4, <2>5, <2>6, <2>7, <2>8 DEF HeapInv
<1>10. VolumeInv'
  <2>1. <<"set_volume", "i2s">> \notin Pending("main")
    BY <1>4 DEF Kept, VolumeInv
  <2>2. <<"set_volume", "i2s">> \notin Pending("main")'
    <3>1. "i2s" \in Objects
      BY DEF Objects, Elements
    <3> QED BY <1>2, <1>3, <2>1, <3>1 DEF Moves
  <2> QED BY <1>5, <1>7, <2>1, <2>2 DEF Kept, VolumeInv, requests
<1>11. StreamInv'
  <2>1. held'.url # None => stream_change_requested' \/ held'.url = current_stream_url'
    BY <1>5 DEF Kept, StreamInv, requests
  <2>2. pipe'.uri \notin Urls
    BY <1>7, RequestsAssumption
  <2>3. ASSUME <<"set_uri", "http">> \in Pending("main")',
               <<"create", "decoder">> \notin Pending("main")'
        PROVE stream_change_requested' \/ pipe'.format = current_stream_url'
    <3>1. "http" \in Objects /\ "decoder" \in Objects /\ Pipeline \in Objects
      BY DEF Objects, Elements
    <3>2. /\ t = "main" /\ <<"set_uri", "http">> \in Left(t)
          /\ <<"create", "decoder">> \notin Left(t)
      BY <1>2, <1>3, <2>3, <3>1 DEF Moves
    <3>3. o # Pipeline
      BY <1>2, <3>2 DEF Rules, Anew
    <3>4. CASE o = "decoder"
      <4>1. pipe'.format = Url
        BY <1>7, <3>2, <3>3, <3>4 DEF Asked
      <4> QED BY <1>5, <4>1 DEF Url, Kept, StreamInv, requests
    <3>5. CASE o # "decoder"
      <4>1. <<"set_uri", "http">> \in Pending("main") /\ <<"create", "decoder">> \notin Pending("main")
        BY <1>2, <1>3, <3>1, <3>2, <3>5 DEF Moves
      <4> QED BY <1>5, <1>7, <3>3, <3>5, <4>1 DEF Kept, StreamInv, requests
    <3> QED BY <3>4, <3>5
  <2> QED BY <2>1, <2>2, <2>3 DEF StreamInv
<1> QED BY <1>8, <1>9, <1>10, <1>11 DEF Kept

\* A failed xxx_init: what was made before it is what the cleanup frees.
LEMMA CreateFailsKeeps ==
  ASSUME NEW t \in Tasks, NEW o, Kept, ~Over, CreateFails(t, o)
  PROVE Kept'
<1> DEFINE n == (CHOOSE i \in 1..5 : Order(t)[i] = o)
           freed == {Order(t)[m] : m \in 1..(n - 1)}
<1>1. /\ Types /\ HeapInv /\ VolumeInv /\ StreamInv /\ Doing(t, "create", o)
      /\ code' = [code EXCEPT ![t] = Cleanup(t, n - 1)]
  BY DEF CreateFails, Kept
<1>2. o \in Objects /\ Rules(t, <<"create", o>>, Left(t))
  <2>1. <<"create", o>> \in Ops /\ Rules(t, <<"create", o>>, Left(t))
    BY <1>1, Ahead
  <2> QED BY <2>1 DEF Ops
<1>3. \E i \in 1..5 : Order(t)[i] = o
  BY <1>2 DEF Rules, MakesInOrder
<1>4. n \in 1..5 /\ Order(t)[n] = o /\ n - 1 \in 0..5
  <2>1. n \in 1..5 /\ Order(t)[n] = o
    BY <1>3
  <2> HIDE DEF n
  <2> QED BY <2>1
<1> HIDE DEF n
<1>5. Moves(t, {<<"create", o>>} \cup Left(t), {<<"deinit", x>> : x \in freed})
  BY <1>1, <1>4, Turn
<1>6. /\ \A i, j \in 1..5 : i # j => Order(t)[i] # Order(t)[j]
      /\ \A i \in 1..5 : Order(t)[i] \in Objects
      /\ Order(t)[1] = Pipeline
  BY OrderIs DEF Objects, Elements, Pipeline
<1>7. freed \subseteq Objects
  BY <1>4, <1>6
<1> HIDE DEF freed
<1>8. {"create", "deinit", "register", "set_uri", "set_volume"} \subseteq Opcodes
  BY DEF Opcodes
<1>9. /\ To("deinit") = {} /\ To("deinit")' = freed
      /\ o \in To("create") /\ To("create")' = {} /\ To("register")' = {}
  <2>1. \A x \in Objects : <<"deinit", x>> \notin Left(t)
    BY <1>2 DEF Rules, MakesInOrder
  <2>2. To("deinit") = {} /\ o \in To("create")
    BY <1>2, <1>5, <1>8, <2>1 DEF To, Moves
  <2>3. To("deinit")' = freed /\ To("create")' = {} /\ To("register")' = {}
    BY <1>5, <1>7, <1>8 DEF To, Moves
  <2> QED BY <2>2, <2>3
<1>10. /\ handles' = handles \ {o}
       /\ UNCHANGED <<requests, alive, pipe, loop, held>>
  BY DEF CreateFails, Count
<1>11. /\ alive \cap To("create") = {} /\ pipe.elements = {} /\ pipe.uri = None
       /\ alive \subseteq {Pipeline} \cup To("register")
  BY <1>1, <1>9 DEF HeapInv
<1>12. alive \subseteq {Pipeline} \cup freed
  <2> SUFFICES ASSUME NEW x \in alive, x # Pipeline PROVE x \in freed
    OBVIOUS
  <2>1. x \in Objects /\ <<"register", x>> \in Left(t)
    BY <1>5, <1>8, <1>11 DEF To, Moves
  <2>2. PICK m \in 1..5 : x = Order(t)[m]
    BY <1>2, <2>1 DEF Rules, MakesInOrder
  <2>3. PICK i \in 1..5 : /\ o = Order(t)[i]
                          /\ \A j \in (i + 1)..5 : <<"create", Order(t)[j]>> \in Left(t)
    BY <1>2 DEF Rules, MakesInOrder
  <2>4. i = n
    BY <1>4, <1>6, <2>3
  <2>5. x \notin To("create")
    BY <1>11
  <2>6. m # n
    BY <1>4, <1>9, <2>2, <2>5
  <2>7. ~(m > n)
    <3> SUFFICES ASSUME m > n PROVE FALSE
      OBVIOUS
    <3>1. <<"create", x>> \in Left(t)
      BY <1>4, <2>2, <2>3, <2>4
    <3> QED BY <1>5, <1>8, <2>1, <2>5, <3>1 DEF To, Moves
  <2>8. m \in 1..(n - 1)
    BY <1>4, <2>6, <2>7
  <2> QED BY <2>2, <2>8 DEF freed
<1>13. Types'
  BY <1>1, <1>5, <1>10 DEF Types, requests, Moves
<1>14. HeapInv'
  <2>1. alive' \subseteq handles' /\ (Pipeline \in handles' => Pipeline \in alive')
    BY <1>1, <1>9, <1>10, <1>11 DEF HeapInv
  <2>2. alive' \subseteq {Pipeline} \cup pipe'.elements \cup To("deinit")'
    BY <1>9, <1>10, <1>12
  <2>3. ~(Pipeline \in handles' /\ To("deinit")' = {})
    <3>1. CASE n = 1
      BY <1>4, <1>6, <1>10, <3>1
    <3>2. CASE n # 1
      <4>1. 1 \in 1..(n - 1)
        BY <1>4, <3>2
      <4> QED BY <1>9, <4>1 DEF freed
    <3> QED BY <3>1, <3>2
  <2>4. Pipeline \notin alive' => alive' = {} /\ pipe' = Unbuilt
    BY <1>1, <1>10 DEF HeapInv
  <2> QED BY <1>9, <2>1, <2>2, <2>3, <2>4 DEF HeapInv
<1>15. "i2s" \in Objects /\ "http" \in Objects
  BY DEF Objects, Elements
<1>16. VolumeInv'
  <2>1. <<"set_volume", "i2s">> \notin Pending("main")
    BY <1>1, <1>9 DEF VolumeInv
  <2>2. <<"set_volume", "i2s">> \notin Pending("main")'
    BY <1>5, <1>8, <1>15 DEF Moves
  <2> QED BY <1>1, <1>10, <2>1, <2>2 DEF VolumeInv, requests
<1>17. StreamInv'
  <2>1. <<"set_uri", "http">> \notin Pending("main")'
    BY <1>5, <1>8, <1>15 DEF Moves
  <2>2. pipe'.uri \notin Urls
    BY <1>10, <1>11, RequestsAssumption
  <2> QED BY <1>1, <1>10, <2>1, <2>2 DEF StreamInv, requests
<1> QED BY <1>13, <1>14, <1>16, <1>17 DEF Kept

\* An operation that changes only what an element does or what is waiting.
LEMMA QuietStep ==
  ASSUME NEW t \in Tasks, NEW p, NEW o, Kept, ~Over, Doing(t, p, o), Done(t),
         p \in {"link", "listen", "detach", "run", "rerun", "stop"},
         pipe' = pipe \/ /\ Pipeline \in alive
                         /\ \E s \in {"no", "yes"} : pipe' = [pipe EXCEPT !.playing = s],
         UNCHANGED <<requests, handles, alive, loop, held>>
  PROVE Kept'
<1>1. Types /\ HeapInv /\ VolumeInv /\ StreamInv /\ p # "give"
  BY DEF Kept
<1>2. Moves(t, {<<p, o>>} \cup Left(t), Left(t))
  BY <1>1, Step
<1>3. {"create", "deinit", "register", "set_uri", "set_volume"} \subseteq Opcodes
  BY DEF Opcodes
<1>4. \A op \in {"create", "deinit", "register", "set_uri", "set_volume"}, x \in Objects :
        /\ <<op, x>> \in All' <=> <<op, x>> \in All
        /\ <<op, x>> \in Pending("main")' <=> <<op, x>> \in Pending("main")
  BY <1>2, <1>3 DEF Moves
<1>5. /\ To("deinit")' = To("deinit") /\ To("create")' = To("create")
      /\ To("register")' = To("register")
  BY <1>4 DEF To
<1>6. /\ "i2s" \in Objects /\ "http" \in Objects /\ "decoder" \in Objects
      /\ Pipeline \in Objects
  BY DEF Objects, Elements
<1>7. /\ pipe' \in [elements : SUBSET Objects, uri : Urls \cup {None, "file"},
               format : Urls \cup {None, "file"}, volume : Volumes \cup {None},
               playing : {"no", "yes", "ended", "failed"}]
      /\ pipe'.elements = pipe.elements /\ pipe'.uri = pipe.uri
      /\ pipe'.format = pipe.format /\ pipe'.volume = pipe.volume
      /\ pipe' = pipe \/ Pipeline \in alive
  BY <1>1 DEF Types
<1>8. Types'
  BY <1>1, <1>2, <1>7 DEF Types, requests, Moves
<1>9. HeapInv'
  BY <1>1, <1>5, <1>7 DEF HeapInv
<1>10. VolumeInv'
  BY <1>1, <1>4, <1>5, <1>6, <1>7 DEF VolumeInv, requests
<1>11. StreamInv'
  BY <1>1, <1>4, <1>6, <1>7 DEF StreamInv, requests
<1> QED BY <1>8, <1>9, <1>10, <1>11 DEF Kept

\* What an operation may rely on when it does not use freed memory.
LEMMA Used ==
  ASSUME NEW t \in Tasks, NEW p, NEW o, Doing(t, p, o), ~Misuse(t)
  PROVE /\ p \in {"register", "set_uri", "unregister"} => Pipeline \in alive
        /\ p \in {"run", "rerun", "stop"} /\ o = Pipeline => Pipeline \in alive
        /\ p \in {"register", "set_uri"} => o \in alive
        /\ p = "set_volume" /\ o # Pipeline => {o} \cap handles \subseteq alive
<1>1. Uses(p, o) \subseteq alive
  BY DEF Misuse, Doing
<1>2. CASE o = Pipeline
  BY <1>1, <1>2 DEF Uses
<1>3. CASE o # Pipeline
  BY <1>1, <1>3 DEF Uses
<1> QED BY <1>2, <1>3

\* audio_pipeline_register: the element is now freed with the pipeline.
LEMMA RegisterKeeps ==
  ASSUME NEW t \in Tasks, NEW o, Kept, ~Over, ~Misuse(t), Register(t, o)
  PROVE Kept'
<1>1. Types /\ HeapInv /\ VolumeInv /\ StreamInv /\ Doing(t, "register", o) /\ Done(t)
  BY DEF Register, Kept
<1>2. /\ o \in Objects /\ Rules(t, <<"register", o>>, Left(t))
      /\ Moves(t, {<<"register", o>>} \cup Left(t), Left(t))
  BY <1>1, Step
<1>3. {"create", "deinit", "register", "set_uri", "set_volume"} \subseteq Opcodes
  BY DEF Opcodes
<1>4. \A op \in {"create", "deinit", "set_uri", "set_volume"}, x \in Objects :
        /\ <<op, x>> \in All' <=> <<op, x>> \in All
        /\ <<op, x>> \in Pending("main")' <=> <<op, x>> \in Pending("main")
  BY <1>2, <1>3 DEF Moves
<1>5. /\ To("deinit")' = {} /\ To("deinit") = {}
      /\ To("create")' = {} /\ To("create") = {}
      /\ To("register") \subseteq To("register")' \cup {o}
  <2>1. \A x \in Objects : <<"deinit", x>> \notin Left(t) /\ <<"create", x>> \notin Left(t)
    BY <1>2 DEF Rules, MakesInOrder
  <2> QED BY <1>2, <1>3, <2>1 DEF Moves, To
<1>6. /\ "i2s" \in Objects /\ "http" \in Objects /\ "decoder" \in Objects
      /\ Pipeline \in Objects
  BY DEF Objects, Elements
<1>7. /\ pipe' = [pipe EXCEPT !.elements = pipe.elements \cup {o}]
      /\ UNCHANGED <<requests, handles, alive, loop, held>>
  BY DEF Register, rest
<1>8. /\ pipe' \in [elements : SUBSET Objects, uri : Urls \cup {None, "file"},
               format : Urls \cup {None, "file"}, volume : Volumes \cup {None},
               playing : {"no", "yes", "ended", "failed"}]
      /\ pipe'.elements = pipe.elements \cup {o} /\ pipe'.uri = pipe.uri
      /\ pipe'.format = pipe.format /\ pipe'.volume = pipe.volume
  BY <1>1, <1>2, <1>7 DEF Types
<1>9. Pipeline \in alive
  BY <1>1, Used
<1>10. Types'
  BY <1>1, <1>2, <1>7, <1>8 DEF Types, requests, Moves
<1>11. HeapInv'
  BY <1>1, <1>5, <1>7, <1>8, <1>9 DEF HeapInv
<1>12. VolumeInv'
  BY <1>1, <1>4, <1>5, <1>6, <1>7, <1>8 DEF VolumeInv, requests
<1>13. StreamInv'
  BY <1>1, <1>4, <1>6, <1>7, <1>8 DEF StreamInv, requests
<1> QED BY <1>10, <1>11, <1>12, <1>13 DEF Kept

\* audio_element_set_uri: in app_main, the URL read again now and the one the decoder
\* was chosen for are both the last one, or a newer one is flagged.
LEMMA SetUriKeeps ==
  ASSUME NEW t \in Tasks, NEW o, Kept, ~Over, ~Misuse(t), SetUri(t, o)
  PROVE Kept'
<1>1. Types /\ HeapInv /\ VolumeInv /\ StreamInv /\ Doing(t, "set_uri", o) /\ Done(t)
  BY DEF SetUri, Kept
<1>2. /\ o \in Objects /\ Rules(t, <<"set_uri", o>>, Left(t))
      /\ Moves(t, {<<"set_uri", o>>} \cup Left(t), Left(t))
  BY <1>1, Step
<1>3. {"create", "deinit", "register", "set_uri", "set_volume"} \subseteq Opcodes
  BY DEF Opcodes
<1>4. \A op \in {"create", "deinit", "register", "set_volume"}, x \in Objects :
        /\ <<op, x>> \in All' <=> <<op, x>> \in All
        /\ <<op, x>> \in Pending("main")' <=> <<op, x>> \in Pending("main")
  BY <1>2, <1>3 DEF Moves
<1>5. /\ To("deinit")' = {} /\ To("deinit") = {}
      /\ To("create")' = {} /\ To("create") = {}
      /\ To("register") = To("register")'
  <2>1. \A x \in Objects : <<"deinit", x>> \notin Left(t) /\ <<"create", x>> \notin Left(t)
    BY <1>2 DEF Rules, MakesInOrder
  <2> QED BY <1>2, <1>3, <2>1 DEF Moves, To
<1>6. /\ "i2s" \in Objects /\ "http" \in Objects /\ "decoder" \in Objects
      /\ Pipeline \in Objects
  BY DEF Objects, Elements
<1>7. /\ pipe' = [pipe EXCEPT !.uri = Asked(t)]
      /\ UNCHANGED <<requests, handles, alive, loop, held>>
  BY DEF SetUri, rest
<1>8. /\ pipe' \in [elements : SUBSET Objects, uri : Urls \cup {None, "file"},
               format : Urls \cup {None, "file"}, volume : Volumes \cup {None},
               playing : {"no", "yes", "ended", "failed"}]
      /\ pipe'.elements = pipe.elements /\ pipe'.uri = Asked(t)
      /\ pipe'.format = pipe.format /\ pipe'.volume = pipe.volume
  <2>1. Asked(t) \in Urls \cup {None, "file"}
    BY <1>1 DEF Asked, Url, Types
  <2> QED BY <1>1, <1>7, <2>1 DEF Types
<1>9. Pipeline \in alive
  BY <1>1, Used
<1>10. Types'
  BY <1>1, <1>2, <1>7, <1>8 DEF Types, requests, Moves
<1>11. HeapInv'
  BY <1>1, <1>5, <1>7, <1>8, <1>9 DEF HeapInv
<1>12. VolumeInv'
  BY <1>1, <1>4, <1>5, <1>6, <1>7, <1>8 DEF VolumeInv, requests
<1>13. StreamInv'
  <2>1. CASE t = "main"
    <3>1. o = "http" /\ Asked(t) = Url
      BY <1>2, <2>1 DEF Rules, MakesInOrder, Source, Asked
    <3>2. <<"set_uri", "http">> \in Pending("main")
      BY <1>2, <1>3, <1>6, <2>1, <3>1 DEF Moves
    <3>3. <<"create", "decoder">> \notin Pending("main")
      BY <1>5, <1>6 DEF To, All
    <3>4. stream_change_requested \/ pipe.format = current_stream_url
      BY <1>1, <3>2, <3>3 DEF StreamInv
    <3>5. stream_change_requested \/ Url = current_stream_url
      BY <1>1 DEF StreamInv, Url
    <3> QED BY <1>1, <1>7, <1>8, <3>1, <3>4, <3>5 DEF StreamInv, requests
  <2>2. CASE t # "main"
    <3>1. pipe'.uri \notin Urls
      BY <1>8, <2>2, RequestsAssumption DEF Asked
    <3>2. <<"set_uri", "http">> \notin Pending("main")'
      BY <1>2, <1>3, <1>6, <2>2 DEF Moves
    <3> QED BY <1>1, <1>7, <3>1, <3>2 DEF StreamInv, requests
  <2> QED BY <2>1, <2>2
<1> QED BY <1>10, <1>11, <1>12, <1>13 DEF Kept

\* audio_pipeline_unregister: the element that leaves is freed by what follows.
LEMMA UnregisterKeeps ==
  ASSUME NEW t \in Tasks, NEW o, Kept, ~Over, ~Misuse(t), Unregister(t, o)
  PROVE Kept'
<1>1. Types /\ HeapInv /\ VolumeInv /\ StreamInv /\ Doing(t, "unregister", o) /\ Done(t)
  BY DEF Unregister, Kept
<1>2. /\ o \in Objects /\ Rules(t, <<"unregister", o>>, Left(t))
      /\ Moves(t, {<<"unregister", o>>} \cup Left(t), Left(t))
  BY <1>1, Step
<1>3. {"create", "deinit", "register", "set_uri", "set_volume"} \subseteq Opcodes
  BY DEF Opcodes
<1>4. \A op \in {"create", "deinit", "register", "set_uri", "set_volume"}, x \in Objects :
        /\ <<op, x>> \in All' <=> <<op, x>> \in All
        /\ <<op, x>> \in Pending("main")' <=> <<op, x>> \in Pending("main")
  BY <1>2, <1>3 DEF Moves
<1>5. /\ To("deinit")' = To("deinit") /\ To("create")' = To("create")
      /\ To("register") = To("register")' /\ o \in To("deinit")
  <2>1. <<"deinit", o>> \in Left(t)
    BY <1>2 DEF Rules, FreesInOrder
  <2> QED BY <1>2, <1>3, <1>4, <2>1 DEF Moves, To
<1>6. /\ "i2s" \in Objects /\ "http" \in Objects /\ "decoder" \in Objects
      /\ Pipeline \in Objects
  BY DEF Objects, Elements
<1>7. /\ pipe' = IF o \in handles THEN [pipe EXCEPT !.elements = pipe.elements \ {o}] ELSE pipe
      /\ UNCHANGED <<requests, handles, alive, loop, held>>
  BY DEF Unregister, rest
<1>8. /\ pipe' \in [elements : SUBSET Objects, uri : Urls \cup {None, "file"},
               format : Urls \cup {None, "file"}, volume : Volumes \cup {None},
               playing : {"no", "yes", "ended", "failed"}]
      /\ pipe.elements \ {o} \subseteq pipe'.elements
      /\ pipe'.elements \subseteq pipe.elements /\ pipe'.uri = pipe.uri
      /\ pipe'.format = pipe.format /\ pipe'.volume = pipe.volume
  BY <1>1, <1>2, <1>7 DEF Types
<1>9. Pipeline \in alive
  BY <1>1, Used
<1>10. Types'
  BY <1>1, <1>2, <1>7, <1>8 DEF Types, requests, Moves
<1>11. HeapInv'
  BY <1>1, <1>5, <1>7, <1>8, <1>9 DEF HeapInv
<1>12. VolumeInv'
  BY <1>1, <1>4, <1>5, <1>6, <1>7, <1>8 DEF VolumeInv, requests
<1>13. StreamInv'
  BY <1>1, <1>4, <1>6, <1>7, <1>8 DEF StreamInv, requests
<1> QED BY <1>10, <1>11, <1>12, <1>13 DEF Kept

\* audio_element_deinit: the pipeline is freed by what follows.
LEMMA DeinitElementKeeps ==
  ASSUME NEW t \in Tasks, NEW o, Kept, ~Over, DeinitElement(t, o)
  PROVE Kept'
<1>1. /\ Types /\ HeapInv /\ VolumeInv /\ StreamInv /\ Doing(t, "deinit", o) /\ Done(t)
      /\ o # Pipeline
  BY DEF DeinitElement, Kept
<1>2. /\ o \in Objects /\ Rules(t, <<"deinit", o>>, Left(t))
      /\ Moves(t, {<<"deinit", o>>} \cup Left(t), Left(t))
  BY <1>1, Step
<1>3. {"create", "deinit", "register", "set_uri", "set_volume"} \subseteq Opcodes
  BY DEF Opcodes
<1>4. \A op \in {"create", "register", "set_uri", "set_volume"}, x \in Objects :
        /\ <<op, x>> \in All' <=> <<op, x>> \in All
        /\ <<op, x>> \in Pending("main")' <=> <<op, x>> \in Pending("main")
  BY <1>2, <1>3 DEF Moves
<1>5. /\ "i2s" \in Objects /\ "http" \in Objects /\ "decoder" \in Objects
      /\ Pipeline \in Objects
  BY DEF Objects, Elements
<1>6. /\ Pipeline \in To("deinit") /\ Pipeline \in To("deinit")'
      /\ To("deinit") \subseteq To("deinit")' \cup {o}
      /\ <<"deinit", Pipeline>> \in Pending("main")' <=> <<"deinit", Pipeline>> \in Pending("main")
  <2>1. <<"deinit", Pipeline>> \in Left(t)
    BY <1>1, <1>2 DEF Rules, FreesInOrder
  <2> QED BY <1>2, <1>3, <1>5, <2>1 DEF Moves, To
<1>7. /\ alive' = alive \ ({o} \cap handles) /\ handles' = handles \ {o}
      /\ UNCHANGED <<requests, pipe, loop, held>>
  BY DEF DeinitElement, rest
<1>8. Types'
  BY <1>1, <1>2, <1>7 DEF Types, requests, Moves
<1>9. alive' = alive \ {o} /\ alive \subseteq handles
  BY <1>1, <1>7 DEF HeapInv
<1>10. HeapInv'
  BY <1>1, <1>6, <1>7, <1>9 DEF HeapInv
<1>11. VolumeInv'
  <2>1. <<"set_volume", "i2s">> \notin Pending("main")
    BY <1>1, <1>6 DEF VolumeInv
  <2>2. <<"set_volume", "i2s">> \notin Pending("main")'
    BY <1>4, <1>5, <2>1
  <2> QED BY <1>1, <1>7, <2>1, <2>2 DEF VolumeInv, requests
<1>12. StreamInv'
  BY <1>1, <1>4, <1>5, <1>6, <1>7 DEF StreamInv, requests
<1> QED BY <1>8, <1>10, <1>11, <1>12 DEF Kept

\* audio_pipeline_deinit: nothing else is to be freed, so nothing is left.
LEMMA DeinitPipelineKeeps ==
  ASSUME NEW t \in Tasks, Kept, ~Over, DeinitPipeline(t)
  PROVE Kept'
<1>1. Types /\ HeapInv /\ VolumeInv /\ StreamInv /\ Doing(t, "deinit", Pipeline) /\ Done(t)
  BY DEF DeinitPipeline, Kept
<1>2. /\ Rules(t, <<"deinit", Pipeline>>, Left(t))
      /\ Moves(t, {<<"deinit", Pipeline>>} \cup Left(t), Left(t))
  BY <1>1, Step
<1>3. {"create", "deinit", "register", "set_uri", "set_volume"} \subseteq Opcodes
  BY DEF Opcodes
<1>4. \A op \in {"create", "register", "set_uri", "set_volume"}, x \in Objects :
        /\ <<op, x>> \in All' <=> <<op, x>> \in All
        /\ <<op, x>> \in Pending("main")' <=> <<op, x>> \in Pending("main")
  BY <1>2, <1>3 DEF Moves
<1>5. /\ "i2s" \in Objects /\ "http" \in Objects /\ "decoder" \in Objects
      /\ Pipeline \in Objects
  BY DEF Objects, Elements
<1>6. /\ To("deinit") = {Pipeline} /\ To("deinit")' = {}
      /\ To("create")' # {} => Pipeline \in To("create")'
  <2>1. /\ \A x \in Objects : <<"deinit", x>> \notin Left(t)
        /\ \A x \in Objects : <<"create", x>> \in Left(t) => <<"create", Pipeline>> \in Left(t)
    BY <1>2 DEF Rules, FreesInOrder, Anew
  <2> QED BY <1>2, <1>3, <1>5, <2>1 DEF Moves, To
<1>7. /\ alive' = alive \ ({Pipeline} \cup pipe.elements)
      /\ handles' = handles \ {Pipeline} /\ pipe' = Unbuilt
      /\ UNCHANGED <<requests, loop, held>>
  BY DEF DeinitPipeline, rest
<1>8. alive' = {}
  BY <1>1, <1>6, <1>7 DEF HeapInv
<1>9. /\ Unbuilt \in [elements : SUBSET Objects, uri : Urls \cup {None, "file"},
               format : Urls \cup {None, "file"}, volume : Volumes \cup {None},
               playing : {"no", "yes", "ended", "failed"}]
      /\ Unbuilt.elements = {} /\ Unbuilt.uri = None /\ Unbuilt.volume = None
  BY DEF Unbuilt
<1>10. Types'
  BY <1>1, <1>2, <1>7, <1>9 DEF Types, requests, Moves
<1>11. HeapInv'
  BY <1>6, <1>7, <1>8, <1>9 DEF HeapInv
<1>12. VolumeInv'
  <2>1. <<"set_volume", "i2s">> \notin Pending("main")
    BY <1>1, <1>6 DEF VolumeInv
  <2>2. <<"set_volume", "i2s">> \notin Pending("main")'
    BY <1>4, <1>5, <2>1
  <2> QED BY <1>7, <1>9, <2>2 DEF VolumeInv
<1>13. StreamInv'
  <2>1. <<"set_uri", "http">> \in Left(t) => <<"create", "decoder">> \in Left(t)
    BY <1>2 DEF Rules, Anew
  <2>2. ~(/\ <<"set_uri", "http">> \in Pending("main")'
          /\ <<"create", "decoder">> \notin Pending("main")')
    BY <1>2, <1>3, <1>5, <2>1 DEF Moves
  <2> QED BY <1>1, <1>7, <2>2 DEF StreamInv, requests
<1> QED BY <1>10, <1>11, <1>12, <1>13 DEF Kept

\* update_pipeline_volume: without the i2s element there is no pipeline whose volume
\* could be an old one.
LEMMA SetPipelineVolumeKeeps ==
  ASSUME NEW t \in Tasks, Kept, ~Over, ~Misuse(t), SetPipelineVolume(t)
  PROVE Kept'
<1>1. Types /\ HeapInv /\ VolumeInv /\ StreamInv /\ Doing(t, "set_volume", "i2s") /\ Done(t)
  BY DEF SetPipelineVolume, Kept
<1>2. /\ Rules(t, <<"set_volume", "i2s">>, Left(t))
      /\ Moves(t, {<<"set_volume", "i2s">>} \cup Left(t), Left(t))
  BY <1>1, Step
<1>3. {"create", "deinit", "register", "set_uri", "set_volume"} \subseteq Opcodes
  BY DEF Opcodes
<1>4. \A op \in {"create", "deinit", "register", "set_uri"}, x \in Objects :
        /\ <<op, x>> \in All' <=> <<op, x>> \in All
        /\ <<op, x>> \in Pending("main")' <=> <<op, x>> \in Pending("main")
  BY <1>2, <1>3 DEF Moves
<1>5. /\ To("deinit")' = To("deinit") /\ To("create")' = To("create")
      /\ To("register") = To("register")'
  BY <1>4 DEF To
<1>6. /\ "i2s" \in Objects /\ "http" \in Objects /\ "decoder" \in Objects
      /\ Pipeline \in Objects /\ "i2s" # Pipeline
  BY DEF Objects, Elements, Pipeline
<1>7. /\ "i2s" \in handles =>
           pipe' = [pipe EXCEPT !.volume = IF t = "main" THEN held.volume ELSE current_volume]
      /\ "i2s" \notin handles => pipe' = pipe
      /\ held' = IF t = "main" THEN [held EXCEPT !.volume = None] ELSE held
      /\ UNCHANGED <<requests, handles, alive, loop>>
  BY DEF SetPipelineVolume
<1>8. /\ pipe' \in [elements : SUBSET Objects, uri : Urls \cup {None, "file"},
               format : Urls \cup {None, "file"}, volume : Volumes \cup {None},
               playing : {"no", "yes", "ended", "failed"}]
      /\ pipe'.elements = pipe.elements /\ pipe'.uri = pipe.uri
      /\ pipe'.format = pipe.format
      /\ "i2s" \in handles =>
           pipe'.volume = IF t = "main" THEN held.volume ELSE current_volume
  BY <1>1, <1>7 DEF Types
<1>9. held' \in [url : Urls \cup {None}, volume : Volumes \cup {None}] /\ held'.url = held.url
  BY <1>1, <1>7 DEF Types
<1>10. "i2s" \in handles => Pipeline \in alive
  <2>1. {"i2s"} \cap handles \subseteq alive
    BY <1>1, <1>6, Used
  <2> QED BY <1>1, <2>1 DEF HeapInv
<1>11. Types'
  BY <1>1, <1>2, <1>7, <1>8, <1>9 DEF Types, requests, Moves
<1>12. HeapInv'
  BY <1>1, <1>5, <1>7, <1>8, <1>10 DEF HeapInv
<1>13. VolumeInv'
  <2>1. <<"set_volume", "i2s">> \notin Pending("main")'
    <3>1. <<"set_volume", "i2s">> \notin Left(t)
      BY <1>2 DEF Rules, MakesInOrder
    <3> QED BY <1>2, <1>3, <1>6, <3>1 DEF Moves
  <2>2. pipe'.volume # None => volume_change_requested \/ pipe'.volume = current_volume
    <3>1. t = "main" <=> <<"set_volume", "i2s">> \in Pending("main")
      BY <1>2, <1>3, <1>6 DEF Moves
    <3>2. CASE t = "main"
      <4>1. /\ volume_change_requested \/ held.volume = current_volume
            /\ To("deinit") = {} /\ To("create") = {}
        BY <1>1, <3>1, <3>2 DEF VolumeInv
      <4>2. CASE "i2s" \in handles
        BY <1>8, <3>2, <4>1, <4>2
      <4>3. CASE "i2s" \notin handles
        <5>1. pipe = Unbuilt
          BY <1>1, <4>1, <4>3 DEF HeapInv
        <5> QED BY <1>7, <4>3, <5>1 DEF Unbuilt
      <4> QED BY <4>2, <4>3
    <3>3. CASE t # "main"
      BY <1>1, <1>7, <1>8, <3>1, <3>3 DEF VolumeInv
    <3> QED BY <3>2, <3>3
  <2> QED BY <1>7, <2>1, <2>2 DEF VolumeInv, requests
<1>14. StreamInv'
  BY <1>1, <1>4, <1>6, <1>7, <1>8, <1>9 DEF StreamInv, requests
<1> QED BY <1>11, <1>12, <1>13, <1>14 DEF Kept

\* audio_pipeline_run fails: start_audio_pipeline frees all five objects.
LEMMA RunFailsKeeps ==
  ASSUME NEW t \in Tasks, Kept, ~Over, RunFails(t)
  PROVE Kept'
<1>1. /\ Types /\ HeapInv /\ VolumeInv /\ StreamInv
      /\ UNCHANGED <<requests, handles, alive, pipe, loop, held>>
  BY DEF Kept, RunFails, Count, heap
<1>2. CASE ~Doing("main", "run", Pipeline)
  <2>1. Done(t)
    BY <1>2 DEF RunFails, Done
  <2>2. Doing(t, "run", Pipeline) \/ Doing(t, "rerun", Pipeline)
    BY DEF RunFails
  <2> QED BY <1>1, <2>1, <2>2, QuietStep
<1>3. CASE Doing("main", "run", Pipeline)
  <2>1. t = "main"
    <3> SUFFICES ASSUME t = "httpd" PROVE FALSE
      BY DEF Tasks
    <3>1. code[t] # <<>> /\ Head(code[t]) # <<"give", "mutex">>
      BY DEF RunFails, Doing
    <3>2. Pending("main") \subseteq {<<"give", "mutex">>}
      BY <1>1, <3>1, Alone DEF Tasks
    <3>3. <<"run", Pipeline>> \in Pending("main")
      <4>1. "main" \in Tasks
        BY DEF Tasks
      <4> QED BY <1>1, <1>3, <4>1, Ahead
    <3> QED BY <3>2, <3>3
  <2>2. Doing(t, "run", Pipeline) /\ code' = [code EXCEPT ![t] = Cleanup(t, 5)]
    BY <1>3, <2>1 DEF RunFails
  <2> DEFINE freed == {Order(t)[m] : m \in 1..5}
  <2>3. /\ Rules(t, <<"run", Pipeline>>, Left(t))
        /\ Moves(t, {<<"run", Pipeline>>} \cup Left(t), {<<"deinit", x>> : x \in freed})
    <3>1. 5 \in 0..5 /\ "run" # "give"
      OBVIOUS
    <3>2. /\ Rules(t, <<"run", Pipeline>>, Left(t))
          /\ Moves(t, {<<"run", Pipeline>>} \cup Left(t),
                   {<<"deinit", x>> : x \in {Order(t)[m] : m \in 1..5}})
      BY <1>1, <2>2, <3>1, Turn
    <3> QED BY <3>2
  <2>4. /\ \A i \in 1..5 : Order(t)[i] \in Objects
        /\ Order(t)[1] = Pipeline
    BY OrderIs DEF Objects, Elements, Pipeline
  <2>5. freed \subseteq Objects /\ Pipeline \in freed
    BY <2>4
  <2> HIDE DEF freed
  <2>6. {"create", "deinit", "register", "set_uri", "set_volume"} \subseteq Opcodes
    BY DEF Opcodes
  <2>7. /\ To("deinit") = {} /\ To("register") = {} /\ To("create") = {}
        /\ To("deinit")' = freed /\ To("create")' = {} /\ To("register")' = {}
    <3>1. \A x \in Objects : /\ <<"deinit", x>> \notin Left(t)
                           /\ <<"register", x>> \notin Left(t)
                           /\ <<"create", x>> \notin Left(t)
      BY <2>3 DEF Rules, MakesInOrder
    <3>2. To("deinit") = {} /\ To("register") = {} /\ To("create") = {}
      BY <2>3, <2>6, <3>1 DEF To, Moves
    <3>3. To("deinit")' = freed /\ To("create")' = {} /\ To("register")' = {}
      BY <2>3, <2>5, <2>6 DEF To, Moves
    <3> QED BY <3>2, <3>3
  <2>8. "i2s" \in Objects /\ "http" \in Objects
    BY DEF Objects, Elements
  <2>9. /\ <<"set_volume", "i2s">> \notin Pending("main")'
        /\ <<"set_uri", "http">> \notin Pending("main")'
        /\ <<"deinit", Pipeline>> \in Pending("main")'
    BY <2>1, <2>3, <2>4, <2>5, <2>6, <2>8 DEF Moves
  <2>10. <<"set_volume", "i2s">> \notin Pending("main")
    <3>1. <<"set_volume", "i2s">> \notin Left(t)
      BY <2>3 DEF Rules, MakesInOrder
    <3> QED BY <2>1, <2>3, <2>6, <2>8, <3>1 DEF Moves
  <2>11. Types'
    BY <1>1, <2>3 DEF Types, requests, Moves
  <2>12. HeapInv'
    BY <1>1, <2>5, <2>7 DEF HeapInv
  <2>13. VolumeInv'
    BY <1>1, <2>9, <2>10 DEF VolumeInv, requests
  <2>14. StreamInv'
    BY <1>1, <2>9 DEF StreamInv, requests
  <2> QED BY <2>11, <2>12, <2>13, <2>14 DEF Kept
<1> QED BY <1>2, <1>3

\* xSemaphoreGive: the one operation that httpd may have left while app_main acts.
LEMMA GiveKeeps ==
  ASSUME NEW t \in Tasks, Kept, Give(t)
  PROVE Kept'
<1>1. /\ Types /\ HeapInv /\ VolumeInv /\ StreamInv /\ Doing(t, "give", "mutex")
      /\ code' = [code EXCEPT ![t] = Tail(code[t])]
      /\ UNCHANGED <<requests, handles, alive, pipe, loop, held>>
  BY DEF Kept, Give, Done, heap
<1>2. /\ Pending(t) = {<<"give", "mutex">>} \cup Left(t)
      /\ Tail(code[t]) \in Seq(Ops) /\ Flow(t, Tail(code[t]))
  BY <1>1, Ahead
<1>3. code'[t] = Tail(code[t]) /\ \A u \in Tasks \ {t} : code'[u] = code[u]
  BY <1>1 DEF Types
<1>4. Pending(t)' = Left(t) /\ \A u \in Tasks \ {t} : Pending(u)' = Pending(u)
  BY <1>3 DEF Pending, Left
<1>5. \A u \in Tasks : /\ Pending(u)' \subseteq Pending(u)
                     /\ Pending(u) \subseteq Pending(u)' \cup {<<"give", "mutex">>}
  BY <1>2, <1>4
<1>6. \A op \in Opcodes, o \in Objects :
        /\ <<op, o>> \in All' <=> <<op, o>> \in All
        /\ <<op, o>> \in Pending("main")' <=> <<op, o>> \in Pending("main")
  <2>1. \A op \in Opcodes, o \in Objects : <<op, o>> # <<"give", "mutex">>
    BY DEF Opcodes
  <2> QED BY <1>5, <2>1 DEF All, Tasks
<1>7. /\ {"create", "deinit", "register", "set_uri", "set_volume"} \subseteq Opcodes
      /\ "i2s" \in Objects /\ "http" \in Objects /\ "decoder" \in Objects
      /\ Pipeline \in Objects
  BY DEF Opcodes, Objects, Elements
<1>8. /\ To("deinit")' = To("deinit") /\ To("create")' = To("create")
      /\ To("register")' = To("register")
  BY <1>6, <1>7 DEF To
<1>9. Types'
  <2>1. code' \in [Tasks -> Seq(Ops)] /\ \A u \in Tasks : Flow(u, code'[u])
    BY <1>1, <1>2, <1>3 DEF Types
  <2> QED BY <1>1, <2>1 DEF Types, requests
<1>10. HeapInv'
  BY <1>1, <1>8 DEF HeapInv
<1>11. VolumeInv'
  BY <1>1, <1>6, <1>7, <1>8 DEF VolumeInv, requests
<1>12. StreamInv'
  BY <1>1, <1>6, <1>7 DEF StreamInv, requests
<1> QED BY <1>9, <1>10, <1>11, <1>12 DEF Kept

\* Every operation of a task, one that uses freed memory apart.
LEMMA OperationKeeps ==
  ASSUME NEW t \in Tasks, Kept, ~Over, Operation(t), ~Over'
  PROVE Kept'
<1> DEFINE o == Head(code[t])[2]
<1>1. ~Break
  BY DEF Break, Over
<1>2. /\ ~Misuse(t)
      /\ \/ Create(t, o) \/ CreateFails(t, o)
         \/ Register(t, o) \/ Link(t, o) \/ SetUri(t, o)
         \/ Unregister(t, o) \/ DeinitElement(t, o)
         \/ Listen(t) \/ Run(t) \/ RunFails(t) \/ Stop(t)
         \/ DeinitPipeline(t) \/ SetPipelineVolume(t) \/ Give(t)
  BY <1>1, Zenon DEF Operation
<1> HIDE DEF o
<1>3. CASE Create(t, o)
  BY <1>3, CreateKeeps
<1>4. CASE CreateFails(t, o)
  BY <1>4, CreateFailsKeeps
<1>5. CASE Register(t, o)
  BY <1>2, <1>5, RegisterKeeps
<1>6. CASE Link(t, o)
  <2>1. /\ Doing(t, "link", o) /\ Done(t) /\ pipe' = pipe
        /\ UNCHANGED <<requests, handles, alive, loop, held>>
    BY <1>6 DEF Link, heap, rest
  <2> QED BY <2>1, QuietStep
<1>7. CASE SetUri(t, o)
  BY <1>2, <1>7, SetUriKeeps
<1>8. CASE Unregister(t, o)
  BY <1>2, <1>8, UnregisterKeeps
<1>9. CASE DeinitElement(t, o)
  BY <1>9, DeinitElementKeeps
<1>10. CASE Listen(t)
  <2>1. /\ Doing(t, "listen", Pipeline) \/ Doing(t, "detach", Pipeline)
        /\ Done(t) /\ pipe' = pipe
        /\ UNCHANGED <<requests, handles, alive, loop, held>>
    BY <1>10 DEF Listen, heap, rest
  <2> QED BY <2>1, QuietStep
<1>11. CASE Run(t)
  <2>1. /\ Doing(t, "run", Pipeline) \/ Doing(t, "rerun", Pipeline)
        /\ Done(t) /\ pipe' = [pipe EXCEPT !.playing = "yes"]
        /\ UNCHANGED <<requests, handles, alive, loop, held>>
    BY <1>11 DEF Run, rest
  <2>2. Pipeline \in alive
    BY <1>2, <2>1, Used
  <2> QED BY <2>1, <2>2, QuietStep
<1>12. CASE RunFails(t)
  BY <1>12, RunFailsKeeps
<1>13. CASE Stop(t)
  <2>1. /\ Doing(t, "stop", Pipeline) /\ Done(t) /\ pipe' = [pipe EXCEPT !.playing = "no"]
        /\ UNCHANGED <<requests, handles, alive, loop, held>>
    BY <1>13 DEF Stop, rest
  <2>2. Pipeline \in alive
    BY <1>2, <2>1, Used
  <2> QED BY <2>1, <2>2, QuietStep
<1>14. CASE DeinitPipeline(t)
  BY <1>14, DeinitPipelineKeeps
<1>15. CASE SetPipelineVolume(t)
  BY <1>2, <1>15, SetPipelineVolumeKeeps
<1>16. CASE Give(t)
  BY <1>16, GiveKeeps
<1> QED BY <1>2, <1>3, <1>4, <1>5, <1>6, <1>7, <1>8, <1>9, <1>10, <1>11, <1>12, <1>13,
          <1>14, <1>15, <1>16
-----------------------------------------------------------------------------
\* An idle task takes a program to carry out.
LEMMA Starts ==
  ASSUME NEW t \in Tasks, Types, code[t] = <<>>, NEW c \in Seq(Ops), Flow(t, c),
         c # <<>>, c # << <<"give", "mutex">> >>,
         code' = [code EXCEPT ![t] = c], ~Over'
  PROVE /\ Moves(t, {}, ToSet(c))
        /\ To("deinit") = {} /\ To("create") = {} /\ To("register") = {}
        /\ \A op \in Opcodes, o \in Objects : <<op, o>> \notin Pending("main")
<1>1. ToSet(<<>>) = {} /\ ToSet(<< <<"give", "mutex">> >>) = {<<"give", "mutex">>}
  BY DEF ToSet
<1>2. code'[t] = c /\ \A u \in Tasks \ {t} : code'[u] = code[u]
  BY DEF Types
<1>3. \A u \in Tasks \ {t} : Pending(u) \subseteq {<<"give", "mutex">>}
  <2>1. CASE t = "main"
    <3>1. code'["httpd"] \in {<<>>, << <<"give", "mutex">> >>}
      BY <1>2, <2>1 DEF Over, Uncontrolled
    <3> QED BY <1>1, <1>2, <2>1, <3>1 DEF Tasks, Pending
  <2>2. CASE t = "httpd"
    <3>1. code'["main"] = <<>>
      BY <1>2, <2>2 DEF Over, Uncontrolled
    <3> QED BY <1>1, <1>2, <2>2, <3>1 DEF Tasks, Pending
  <2> QED BY <2>1, <2>2 DEF Tasks
<1>4. Pending(t) = {}
  BY <1>1 DEF Pending
<1>5. Moves(t, {}, ToSet(c))
  BY <1>3, <1>4, Swap
<1>6. {"create", "deinit", "register"} \subseteq Opcodes
  BY DEF Opcodes
<1>7. \A op \in Opcodes, o \in Objects : <<op, o>> \notin All
  BY <1>5 DEF Moves
<1> QED BY <1>5, <1>6, <1>7 DEF To, All

\* app_main keeps to its loop with nothing to carry out.
LEMMA Passes ==
  ASSUME Types, code["main"] = <<>>, code' = [code EXCEPT !["main"] = <<>>]
  PROVE code' = code /\ Pending("main") = {} /\ All' = All /\ Pending("main")' = {}
<1>1. code' = code
  BY DEF Types
<1> QED BY <1>1 DEF All, Pending, ToSet

\* The two short programs of the loop.
LEMMA VolumeProgram ==
  LET c == << <<"set_volume", "i2s">> >>
  IN /\ c \in Seq(Ops) /\ c # <<>> /\ c # << <<"give", "mutex">> >>
     /\ ToSet(c) = {<<"set_volume", "i2s">>} /\ Flow("main", c)
<1> DEFINE c == << <<"set_volume", "i2s">> >>
<1>1. <<"set_volume", "i2s">> \in Ops
  BY DEF Ops, Opcodes, Objects, Elements
<1>2. Len(c) = 1 /\ c[1] = <<"set_volume", "i2s">> /\ c \in Seq(Ops)
  BY <1>1
<1>3. DOMAIN c = 1..1
  BY <1>2
<1> HIDE DEF c
<1>4. ToSet(c) = {<<"set_volume", "i2s">>}
  <2>1. \A i \in DOMAIN c : c[i] = <<"set_volume", "i2s">>
    BY <1>2, <1>3
  <2>2. 1 \in DOMAIN c
    BY <1>3
  <2> QED BY <2>1, <2>2 DEF ToSet
<1>5. After(c, 1) = {}
  BY <1>2 DEF After
<1>6. Rules("main", c[1], After(c, 1))
  BY <1>2, <1>5 DEF Rules, FreesInOrder, MakesInOrder, Anew
<1>7. Flow("main", c)
  BY <1>2, <1>6 DEF Flow
<1>8. c # <<>> /\ c # << <<"give", "mutex">> >>
  BY <1>2
<1>9. /\ c \in Seq(Ops) /\ c # <<>> /\ c # << <<"give", "mutex">> >>
      /\ ToSet(c) = {<<"set_volume", "i2s">>} /\ Flow("main", c)
  BY <1>2, <1>4, <1>7, <1>8
<1> QED BY <1>9 DEF c

\* A stopped pipeline is stopped and run again.
LEMMA RestartProgram ==
  LET c == << <<"stop", Pipeline>>, <<"rerun", Pipeline>> >>
  IN /\ c \in Seq(Ops) /\ c # <<>> /\ c # << <<"give", "mutex">> >>
     /\ ToSet(c) = {<<"stop", Pipeline>>, <<"rerun", Pipeline>>} /\ Flow("main", c)
<1> DEFINE c == << <<"stop", Pipeline>>, <<"rerun", Pipeline>> >>
<1>1. <<"stop", Pipeline>> \in Ops /\ <<"rerun", Pipeline>> \in Ops
  BY DEF Ops, Opcodes, Objects
<1>2. /\ Len(c) = 2 /\ c[1] = <<"stop", Pipeline>> /\ c[2] = <<"rerun", Pipeline>>
      /\ c \in Seq(Ops)
  BY <1>1
<1>3. DOMAIN c = 1..2
  BY <1>2
<1> HIDE DEF c
<1>4. ToSet(c) = {<<"stop", Pipeline>>, <<"rerun", Pipeline>>}
  <2>1. 1..2 = {1, 2}
    OBVIOUS
  <2> QED BY <1>2, <1>3, <2>1 DEF ToSet
<1>5. After(c, 2) = {}
  BY <1>2 DEF After
<1>6. Rules("main", c[1], After(c, 1))
  BY <1>2 DEF Rules, FreesInOrder, MakesInOrder, Anew
<1>7. Rules("main", c[2], After(c, 2))
  BY <1>2, <1>5 DEF Rules, FreesInOrder, MakesInOrder, Anew
<1>8. Flow("main", c)
  <2>1. \A k \in 1..Len(c) : k = 1 \/ k = 2
    BY <1>2
  <2> QED BY <1>6, <1>7, <2>1 DEF Flow
<1>9. c # <<>> /\ c # << <<"give", "mutex">> >>
  <2>1. Len(<< <<"give", "mutex">> >>) = 1 /\ Len(<<>>) = 0
    OBVIOUS
  <2> QED BY <1>2, <2>1
<1>10. /\ c \in Seq(Ops) /\ c # <<>> /\ c # << <<"give", "mutex">> >>
       /\ ToSet(c) = {<<"stop", Pipeline>>, <<"rerun", Pipeline>>} /\ Flow("main", c)
  BY <1>2, <1>4, <1>8, <1>9
<1> QED BY <1>10 DEF c

\* The loop takes the requests: what was flagged is now what it holds, and it has
\* nothing to do but to set that volume.
LEMMA TakeRequestsKeeps ==
  ASSUME Kept, TakeRequests, ~Over'
  PROVE Kept'
<1>1. /\ Types /\ HeapInv /\ VolumeInv /\ StreamInv /\ code["main"] = <<>> /\ loop = "take"
      /\ held' =
           [url |-> IF stream_change_requested THEN current_stream_url ELSE None,
            volume |-> IF volume_change_requested THEN current_volume ELSE None]
      /\ stream_change_requested' = FALSE /\ volume_change_requested' = FALSE
      /\ code' = [code EXCEPT !["main"] = IF volume_change_requested
                                          THEN << <<"set_volume", "i2s">> >> ELSE <<>>]
      /\ loop' = "change"
      /\ UNCHANGED <<current_stream_url, current_volume, handles, alive, pipe>>
  BY DEF Kept, TakeRequests, At, Onward, heap
<1>2. /\ held' \in [url : Urls \cup {None}, volume : Volumes \cup {None}]
      /\ stream_change_requested => held'.url = current_stream_url /\ held'.url # None
      /\ ~stream_change_requested => held'.url = None
      /\ volume_change_requested => held'.volume = current_volume
  BY <1>1, RequestsAssumption DEF Types
<1>3. CASE volume_change_requested
  <2> DEFINE c == << <<"set_volume", "i2s">> >>
  <2>1. /\ c \in Seq(Ops) /\ c # <<>> /\ c # << <<"give", "mutex">> >>
        /\ ToSet(c) = {<<"set_volume", "i2s">>} /\ Flow("main", c)
    BY VolumeProgram
  <2> HIDE DEF c
  <2>2. code' = [code EXCEPT !["main"] = c] /\ "main" \in Tasks
    BY <1>1, <1>3 DEF c, Tasks
  <2>3. /\ Moves("main", {}, {<<"set_volume", "i2s">>})
        /\ To("deinit") = {} /\ To("create") = {} /\ To("register") = {}
        /\ \A op \in Opcodes, o \in Objects : <<op, o>> \notin Pending("main")
    BY <1>1, <2>1, <2>2, Starts
  <2>4. /\ {"create", "deinit", "register", "set_uri", "set_volume"} \subseteq Opcodes
        /\ "i2s" \in Objects /\ "http" \in Objects /\ "decoder" \in Objects
        /\ Pipeline \in Objects
    BY DEF Opcodes, Objects, Elements
  <2>5. /\ To("deinit")' = {} /\ To("create")' = {} /\ To("register")' = {}
        /\ <<"set_uri", "http">> \notin Pending("main")'
    BY <2>3, <2>4 DEF Moves, To
  <2>6. Types'
    BY <1>1, <1>2, <2>3 DEF Types, Moves
  <2>7. HeapInv'
    BY <1>1, <2>3, <2>5 DEF HeapInv
  <2>8. VolumeInv'
    <3>1. <<"set_volume", "i2s">> \in Pending("main")'
      BY <2>3, <2>4 DEF Moves
    <3> QED BY <1>1, <1>2, <1>3, <2>5, <3>1 DEF VolumeInv
  <2>9. StreamInv'
    BY <1>1, <1>2, <2>3, <2>4, <2>5 DEF StreamInv
  <2> QED BY <2>6, <2>7, <2>8, <2>9 DEF Kept
<1>4. CASE ~volume_change_requested
  <2>1. code' = code /\ Pending("main") = {} /\ All' = All /\ Pending("main")' = {}
    BY <1>1, <1>4, Passes
  <2>2. /\ To("deinit")' = To("deinit") /\ To("create")' = To("create")
        /\ To("register")' = To("register")
    BY <2>1 DEF To
  <2>3. Types'
    BY <1>1, <1>2, <2>1 DEF Types
  <2>4. HeapInv'
    BY <1>1, <2>2 DEF HeapInv
  <2>5. VolumeInv'
    BY <1>1, <1>4, <2>1 DEF VolumeInv
  <2>6. StreamInv'
    BY <1>1, <1>2, <2>1 DEF StreamInv
  <2> QED BY <2>3, <2>4, <2>5, <2>6 DEF Kept
<1> QED BY <1>3, <1>4

\* The loop goes on with no request, or one it has just read a volume for.
LEMMA LoopKeeps ==
  ASSUME Kept, NEW place \in {"take", "change"}, NEW c, At(loop), loop # "change",
         Onward(place, c), ~Over',
         held' \in [url : {None}, volume : Volumes \cup {None}],
         \/ c = <<>>
         \/ c = << <<"set_volume", "i2s">> >> /\ held'.volume = current_volume
         \/ c = << <<"stop", Pipeline>>, <<"rerun", Pipeline>> >>,
         UNCHANGED <<requests, heap>>
  PROVE Kept'
<1>1. /\ Types /\ HeapInv /\ VolumeInv /\ StreamInv /\ code["main"] = <<>>
      /\ code' = [code EXCEPT !["main"] = c] /\ "main" \in Tasks
      /\ held'.url = None /\ held' \in [url : Urls \cup {None}, volume : Volumes \cup {None}]
      /\ UNCHANGED <<requests, handles, alive, pipe>>
  BY DEF Kept, At, Onward, heap, Tasks
<1>2. /\ {"create", "deinit", "register", "set_uri", "set_volume"} \subseteq Opcodes
      /\ "i2s" \in Objects /\ "http" \in Objects /\ "decoder" \in Objects
      /\ Pipeline \in Objects
  BY DEF Opcodes, Objects, Elements
<1>3. CASE c = <<>>
  <2>1. code' = code /\ Pending("main") = {} /\ All' = All /\ Pending("main")' = {}
    BY <1>1, <1>3, Passes
  <2>2. /\ To("deinit")' = To("deinit") /\ To("create")' = To("create")
        /\ To("register")' = To("register")
    BY <2>1 DEF To
  <2>3. Types'
    BY <1>1, <2>1 DEF Types, requests
  <2>4. HeapInv'
    BY <1>1, <2>2 DEF HeapInv
  <2>5. VolumeInv'
    BY <1>1, <2>1 DEF VolumeInv, requests
  <2>6. StreamInv'
    BY <1>1, <2>1 DEF StreamInv, requests
  <2> QED BY <2>3, <2>4, <2>5, <2>6 DEF Kept
<1>4. CASE c # <<>>
  <2>1. /\ c \in Seq(Ops) /\ c # << <<"give", "mutex">> >> /\ Flow("main", c)
        /\ \A op \in {"create", "deinit", "register", "set_uri"}, o \in Objects :
             <<op, o>> \notin ToSet(c)
        /\ <<"set_volume", "i2s">> \in ToSet(c) => held'.volume = current_volume
    <3>1. CASE c = << <<"set_volume", "i2s">> >> /\ held'.volume = current_volume
      <4>1. /\ c \in Seq(Ops) /\ c # << <<"give", "mutex">> >>
            /\ ToSet(c) = {<<"set_volume", "i2s">>} /\ Flow("main", c)
        BY <3>1, VolumeProgram
      <4> QED BY <3>1, <4>1
    <3>2. CASE c = << <<"stop", Pipeline>>, <<"rerun", Pipeline>> >>
      <4>1. /\ c \in Seq(Ops) /\ c # << <<"give", "mutex">> >>
            /\ ToSet(c) = {<<"stop", Pipeline>>, <<"rerun", Pipeline>>} /\ Flow("main", c)
        BY <3>2, RestartProgram
      <4> QED BY <4>1
    <3> QED BY <1>4, <3>1, <3>2
  <2>2. /\ Moves("main", {}, ToSet(c))
        /\ To("deinit") = {} /\ To("create") = {} /\ To("register") = {}
        /\ \A op \in Opcodes, o \in Objects : <<op, o>> \notin Pending("main")
    BY <1>1, <1>4, <2>1, Starts
  <2>3. /\ To("deinit")' = {} /\ To("create")' = {} /\ To("register")' = {}
        /\ <<"set_uri", "http">> \notin Pending("main")'
        /\ <<"set_volume", "i2s">> \in Pending("main")' => held'.volume = current_volume
    BY <1>2, <2>1, <2>2 DEF Moves, To
  <2>4. Types'
    BY <1>1, <2>2 DEF Types, Moves, requests
  <2>5. HeapInv'
    BY <1>1, <2>2, <2>3 DEF HeapInv
  <2>6. VolumeInv'
    BY <1>1, <1>2, <2>2, <2>3 DEF VolumeInv, requests
  <2>7. StreamInv'
    BY <1>1, <1>2, <2>2, <2>3 DEF StreamInv, requests
  <2> QED BY <2>4, <2>5, <2>6, <2>7 DEF Kept
<1> QED BY <1>3, <1>4

\* The take of the mutex times out.
LEMMA TakeTimesOutKeeps == ASSUME Kept, TakeTimesOut, ~Over' PROVE Kept'
<1>1. /\ At(loop) /\ loop # "change" /\ Onward("change", <<>>) /\ held' = Nothing
      /\ UNCHANGED <<requests, heap>>
  BY DEF TakeTimesOut, At
<1>2. held' \in [url : {None}, volume : Volumes \cup {None}]
  BY <1>1 DEF Nothing
<1> QED BY <1>1, <1>2, LoopKeeps

\* No report to handle.
LEMMA NoEventKeeps == ASSUME Kept, NoEvent, ~Over' PROVE Kept'
<1>1. /\ At(loop) /\ loop # "change" /\ Onward("take", <<>>) /\ held' = Nothing
      /\ UNCHANGED <<requests, heap>>
  BY DEF NoEvent, At
<1>2. held' \in [url : {None}, volume : Volumes \cup {None}]
  BY <1>1 DEF Nothing
<1> QED BY <1>1, <1>2, LoopKeeps

\* A report is handled: a volume is set, or the pipeline is stopped and run again.
LEMMA HandleEventKeeps == ASSUME Kept, HandleEvent, ~Over' PROVE Kept'
<1>1. At(loop) /\ loop # "change" /\ UNCHANGED <<requests, heap>>
  BY DEF HandleEvent, At
<1>2. Nothing \in [url : {None}, volume : Volumes \cup {None}]
  BY DEF Nothing
<1>3. \/ /\ held' = [url |-> None, volume |-> current_volume]
         /\ Onward("take", << <<"set_volume", "i2s">> >>)
      \/ held' = Nothing /\ Onward("take", << <<"stop", Pipeline>>, <<"rerun", Pipeline>> >>)
      \/ held' = Nothing /\ Onward("take", <<>>)
  <2>1. CASE Head(events) = "info"
    BY <2>1 DEF HandleEvent
  <2>2. CASE Head(events) = "stopped" /\ ~cooling
    BY <2>2 DEF HandleEvent
  <2>3. CASE Head(events) # "info" /\ ~(Head(events) = "stopped" /\ ~cooling)
    BY <2>3 DEF HandleEvent
  <2> QED BY <2>1, <2>2, <2>3
<1>4. CASE /\ held' = [url |-> None, volume |-> current_volume]
           /\ Onward("take", << <<"set_volume", "i2s">> >>)
  <2>1. held' \in [url : {None}, volume : Volumes \cup {None}] /\ held'.volume = current_volume
    BY <1>4 DEF Kept, Types
  <2> QED BY <1>1, <1>4, <2>1, LoopKeeps
<1>5. CASE held' = Nothing /\ Onward("take", << <<"stop", Pipeline>>, <<"rerun", Pipeline>> >>)
  BY <1>1, <1>2, <1>5, LoopKeeps
<1>6. CASE held' = Nothing /\ Onward("take", <<>>)
  BY <1>1, <1>2, <1>6, LoopKeeps
<1> QED BY <1>3, <1>4, <1>5, <1>6

\* A task begins to build, after a teardown when there is a pipeline.
LEMMA RebuildKeeps ==
  ASSUME NEW t \in Tasks, Kept, ~Over', code[t] = <<>>, NEW s,
         IF Pipeline \in handles
         THEN Frees(s) /\ <<"deinit", Pipeline>> \in ToSet(s) ELSE s = <<>>,
         code' = [code EXCEPT ![t] = s \o Build(t)],
         UNCHANGED <<requests, heap, held>>,
         t # "main" => loop' = loop
  PROVE Kept'
<1> DEFINE c == s \o Build(t)
<1>1. /\ Types /\ HeapInv /\ VolumeInv /\ StreamInv
      /\ UNCHANGED <<requests, handles, alive, pipe, held>>
  BY DEF Kept, heap
<1>2. /\ {"create", "deinit", "register", "set_uri", "set_volume", "unregister"} \subseteq Opcodes
      /\ "i2s" \in Objects /\ "http" \in Objects /\ "decoder" \in Objects
      /\ Pipeline \in Objects
  BY DEF Opcodes, Objects, Elements
<1>3. /\ Build(t) \in Seq(Ops) /\ Flow(t, Build(t)) /\ Build(t) # <<>>
      /\ \A o \in Objects : /\ <<"deinit", o>> \notin ToSet(Build(t))
                           /\ <<"unregister", o>> \notin ToSet(Build(t))
      /\ t = "main" => \A o \in Objects : <<"set_volume", o>> \notin ToSet(Build(t))
      /\ <<"create", Pipeline>> \in ToSet(Build(t))
      /\ <<"create", "decoder">> \in ToSet(Build(t))
  BY BuildSet
<1>4. /\ c \in Seq(Ops) /\ Flow(t, c) /\ c # <<>>
      /\ <<"create", Pipeline>> \in ToSet(c) /\ <<"create", "decoder">> \in ToSet(c)
      /\ t = "main" => <<"set_volume", "i2s">> \notin ToSet(c)
      /\ Pipeline \in handles => <<"deinit", Pipeline>> \in ToSet(c)
      /\ Pipeline \notin handles => \A o \in Objects : <<"deinit", o>> \notin ToSet(c)
  <2>1. CASE Pipeline \in handles
    <3>1. /\ Frees(s) /\ <<"deinit", Pipeline>> \in ToSet(s)
      BY <2>1
    <3>2. /\ c \in Seq(Ops) /\ Flow(t, c) /\ c # <<>>
          /\ ToSet(c) = ToSet(s) \cup ToSet(Build(t))
      BY <3>1, RebuildFlow
    <3>3. <<"set_volume", "i2s">> \notin ToSet(s)
      <4>1. s \in Seq(Ops) /\ \A k \in 1..Len(s) : s[k][1] # "set_volume"
        BY <3>1 DEF Frees
      <4>2. DOMAIN s = 1..Len(s)
        BY <4>1, LenProperties
      <4> QED BY <4>1, <4>2 DEF ToSet
    <3> QED BY <1>2, <1>3, <2>1, <3>1, <3>2, <3>3
  <2>2. CASE Pipeline \notin handles
    <3>1. c = Build(t)
      BY <1>3, <2>2, ConcatEmptySeq
    <3> QED BY <1>2, <1>3, <2>2, <3>1
  <2> QED BY <2>1, <2>2
<1> HIDE DEF c
<1>5. c # << <<"give", "mutex">> >>
  <2>1. ToSet(<< <<"give", "mutex">> >>) = {<<"give", "mutex">>}
    BY DEF ToSet
  <2>2. <<"create", Pipeline>> # <<"give", "mutex">>
    OBVIOUS
  <2> QED BY <1>4, <2>1, <2>2
<1>6. code' = [code EXCEPT ![t] = c]
  BY DEF c
<1>7. /\ Moves(t, {}, ToSet(c))
      /\ To("deinit") = {} /\ To("create") = {} /\ To("register") = {}
      /\ \A op \in Opcodes, o \in Objects : <<op, o>> \notin Pending("main")
  BY <1>1, <1>4, <1>5, <1>6, Starts
<1>8. /\ Pipeline \in To("create")'
      /\ Pipeline \in handles => Pipeline \in To("deinit")'
      /\ Pipeline \notin handles => To("deinit")' = {}
  BY <1>2, <1>4, <1>7 DEF Moves, To
<1>9. Types'
  BY <1>1, <1>7 DEF Types, Moves, requests
<1>10. HeapInv'
  <2>1. Pipeline \notin handles => alive = {} /\ pipe = Unbuilt
    BY <1>1 DEF HeapInv
  <2>2. Unbuilt.elements = {} /\ Unbuilt.uri = None
    BY DEF Unbuilt
  <2>3. alive \subseteq {Pipeline} \cup pipe.elements
    BY <1>1, <1>7 DEF HeapInv
  <2> QED BY <1>1, <1>8, <2>1, <2>2, <2>3 DEF HeapInv
<1>11. VolumeInv'
  <2>1. <<"set_volume", "i2s">> \notin Pending("main")'
    BY <1>2, <1>4, <1>7 DEF Moves
  <2> QED BY <1>1, <1>2, <1>7, <2>1 DEF VolumeInv, requests
<1>12. StreamInv'
  <2>1. <<"set_uri", "http">> \in Pending("main")' => <<"create", "decoder">> \in Pending("main")'
    BY <1>2, <1>4, <1>7 DEF Moves
  <2>2. t = "main" /\ Pipeline \in handles => <<"deinit", Pipeline>> \in Pending("main")'
    BY <1>2, <1>4, <1>7 DEF Moves
  <2>3. <<"deinit", Pipeline>> \notin Pending("main")
    BY <1>2, <1>7
  <2> QED BY <1>1, <2>1, <2>2, <2>3 DEF StreamInv, requests
<1> QED BY <1>9, <1>10, <1>11, <1>12 DEF Kept

\* The loop changes the stream, starts one, or does neither.
LEMMA ChangeKeeps == ASSUME Kept, Change, ~Over' PROVE Kept'
<1>1. /\ code["main"] = <<>> /\ code' = [code EXCEPT !["main"] = Rebuild]
      /\ loop = "change" /\ "main" \in Tasks
      /\ UNCHANGED <<requests, heap, held>>
  BY DEF Change, At, Onward, Tasks
<1>2. CASE held.url # None /\ Pipeline \in handles
  <2>1. Rebuild = Teardown \o Build("main")
    BY <1>2 DEF Rebuild
  <2> QED BY <1>1, <1>2, <2>1, TeardownFrees, RebuildKeeps
<1>3. CASE Pipeline \notin handles
  <2>1. Build("main") \in Seq(Ops)
    BY <1>1, BuildSet
  <2>2. Rebuild = <<>> \o Build("main")
    BY <1>3, <2>1, ConcatEmptySeq DEF Rebuild
  <2> QED BY <1>1, <1>3, <2>2, RebuildKeeps
<1>4. CASE held.url = None /\ Pipeline \in handles
  <2>1. Rebuild = <<>>
    BY <1>4 DEF Rebuild
  <2>2. code' = code /\ Pending("main") = {} /\ All' = All /\ Pending("main")' = {}
    BY <1>1, <2>1, Passes DEF Kept
  <2>3. /\ To("deinit")' = To("deinit") /\ To("create")' = To("create")
        /\ To("register")' = To("register")
    BY <2>2 DEF To
  <2>4. /\ Types /\ HeapInv /\ VolumeInv /\ StreamInv
        /\ UNCHANGED <<requests, handles, alive, pipe, held>>
    BY <1>1 DEF Kept, heap
  <2>5. Types'
    BY <2>2, <2>4 DEF Types, requests
  <2>6. HeapInv'
    BY <2>3, <2>4 DEF HeapInv
  <2>7. VolumeInv'
    BY <2>2, <2>3, <2>4 DEF VolumeInv, requests
  <2>8. StreamInv'
    BY <1>4, <2>2, <2>4 DEF StreamInv, requests
  <2> QED BY <2>5, <2>6, <2>7, <2>8 DEF Kept
<1> QED BY <1>2, <1>3, <1>4

\* httpd plays a file.
LEMMA PlaySdFileKeeps == ASSUME Kept, PlaySdFile, ~Over' PROVE Kept'
<1>1. /\ code["httpd"] = <<>> /\ "httpd" \in Tasks
      /\ code' = [code EXCEPT !["httpd"] =
                    (IF Pipeline \in handles THEN StopPipeline ELSE <<>>) \o Build("httpd")]
      /\ UNCHANGED <<requests, heap, held, loop>>
  BY DEF PlaySdFile, Ready, Tasks
<1> DEFINE s == IF Pipeline \in handles THEN StopPipeline ELSE <<>>
<1>2. IF Pipeline \in handles
      THEN Frees(s) /\ <<"deinit", Pipeline>> \in ToSet(s) ELSE s = <<>>
  BY StopPipelineFrees
<1>3. code' = [code EXCEPT !["httpd"] = s \o Build("httpd")]
  BY <1>1
<1> HIDE DEF s
<1> QED BY <1>1, <1>2, <1>3, RebuildKeeps

\* A request, a report and the clock change nothing that a task has to do.
LEMMA OutsideKeeps ==
  ASSUME Kept, SetStream \/ SetVolume \/ MusicInfo \/ Finish \/ Fail \/ Cool
  PROVE Kept'
<1>1. Types /\ HeapInv /\ VolumeInv /\ StreamInv
  BY DEF Kept
<1> DEFINE Same == UNCHANGED <<handles, alive, loop, held, code>>
<1>2. ASSUME code' = code
      PROVE /\ All' = All /\ Pending("main")' = Pending("main")
            /\ \A op \in Opcodes : To(op)' = To(op)
  BY <1>2 DEF All, Pending, To
<1>3. {"create", "deinit", "register"} \subseteq Opcodes
  BY DEF Opcodes
<1>4. CASE SetStream
  <2>1. PICK u \in Urls : /\ current_stream_url' = u /\ stream_change_requested' = TRUE
                          /\ UNCHANGED <<current_volume, volume_change_requested, pipe>>
                          /\ Same
    BY <1>4 DEF SetStream, heap, rest
  <2>2. All' = All /\ Pending("main")' = Pending("main") /\ \A op \in Opcodes : To(op)' = To(op)
    BY <1>2, <2>1
  <2>3. Types'
    BY <1>1, <2>1 DEF Types
  <2>4. HeapInv'
    BY <1>1, <1>3, <2>1, <2>2 DEF HeapInv
  <2>5. VolumeInv'
    BY <1>1, <1>3, <2>1, <2>2 DEF VolumeInv
  <2>6. StreamInv'
    BY <1>1, <2>1, <2>2 DEF StreamInv
  <2> QED BY <2>3, <2>4, <2>5, <2>6 DEF Kept
<1>5. CASE SetVolume
  <2>1. PICK v \in Volumes : /\ current_volume' = v /\ volume_change_requested' = TRUE
                             /\ UNCHANGED <<current_stream_url, stream_change_requested, pipe>>
                             /\ Same
    BY <1>5 DEF SetVolume, heap, rest
  <2>2. All' = All /\ Pending("main")' = Pending("main") /\ \A op \in Opcodes : To(op)' = To(op)
    BY <1>2, <2>1
  <2>3. Types'
    BY <1>1, <2>1 DEF Types
  <2>4. HeapInv'
    BY <1>1, <1>3, <2>1, <2>2 DEF HeapInv
  <2>5. VolumeInv'
    BY <1>1, <1>3, <2>1, <2>2 DEF VolumeInv
  <2>6. StreamInv'
    BY <1>1, <2>1, <2>2 DEF StreamInv
  <2> QED BY <2>3, <2>4, <2>5, <2>6 DEF Kept
<1>6. ASSUME NEW s \in {"yes", "ended", "failed"}, NEW r, Reports(s, r) PROVE Kept'
  <2>1. /\ pipe.playing = "yes" /\ pipe' = [pipe EXCEPT !.playing = s]
        /\ UNCHANGED requests /\ Same
    BY <1>6 DEF Reports, rest
  <2>2. All' = All /\ Pending("main")' = Pending("main") /\ \A op \in Opcodes : To(op)' = To(op)
    BY <1>2, <2>1
  <2>3. Pipeline \in alive
    BY <1>1, <2>1 DEF HeapInv, Unbuilt
  <2>4. /\ pipe' \in [elements : SUBSET Objects, uri : Urls \cup {None, "file"},
               format : Urls \cup {None, "file"}, volume : Volumes \cup {None},
               playing : {"no", "yes", "ended", "failed"}]
        /\ pipe'.elements = pipe.elements /\ pipe'.uri = pipe.uri
        /\ pipe'.format = pipe.format /\ pipe'.volume = pipe.volume
    BY <1>1, <2>1 DEF Types
  <2>5. Types'
    BY <1>1, <2>1, <2>4 DEF Types, requests
  <2>6. HeapInv'
    BY <1>1, <1>3, <2>1, <2>2, <2>3, <2>4 DEF HeapInv
  <2>7. VolumeInv'
    BY <1>1, <1>3, <2>1, <2>2, <2>4 DEF VolumeInv, requests
  <2>8. StreamInv'
    BY <1>1, <2>1, <2>2, <2>4 DEF StreamInv, requests
  <2> QED BY <2>5, <2>6, <2>7, <2>8 DEF Kept
<1>7. CASE Cool
  <2>1. UNCHANGED <<requests, pipe>> /\ Same
    BY <1>7 DEF Cool, heap
  <2>2. All' = All /\ Pending("main")' = Pending("main") /\ \A op \in Opcodes : To(op)' = To(op)
    BY <1>2, <2>1
  <2>3. Types'
    BY <1>1, <2>1 DEF Types, requests
  <2>4. HeapInv'
    BY <1>1, <1>3, <2>1, <2>2 DEF HeapInv
  <2>5. VolumeInv'
    BY <1>1, <1>3, <2>1, <2>2 DEF VolumeInv, requests
  <2>6. StreamInv'
    BY <1>1, <2>1, <2>2 DEF StreamInv, requests
  <2> QED BY <2>3, <2>4, <2>5, <2>6 DEF Kept
<1> QED BY <1>4, <1>5, <1>6, <1>7 DEF MusicInfo, Finish, Fail

\* At boot nothing is allocated.
LEMMA InitSound == Init => Sound
<1> SUFFICES ASSUME Init PROVE Kept
  BY DEF Sound
<1>1. code["main"] = <<>> /\ code["httpd"] = <<>> /\ code \in [Tasks -> Seq(Ops)]
  BY DEF Init, Tasks
<1>2. All = {} /\ Pending("main") = {}
  BY <1>1 DEF All, Pending, ToSet
<1>3. To("deinit") = {} /\ To("create") = {} /\ To("register") = {}
  BY <1>2 DEF To
<1>4. \A t \in Tasks : Flow(t, code[t])
  <2>1. Len(<<>>) = 0
    OBVIOUS
  <2> QED BY <1>1, <2>1 DEF Tasks, Flow
<1>5. Types
  BY <1>1, <1>4, RequestsAssumption DEF Init, Types, Unbuilt, Nothing
<1>6. HeapInv
  BY <1>3 DEF Init, HeapInv
<1>7. VolumeInv
  BY <1>2 DEF Init, VolumeInv, Unbuilt
<1>8. StreamInv
  BY <1>2 DEF Init, StreamInv, Nothing
<1> QED BY <1>5, <1>6, <1>7, <1>8 DEF Kept

\* Every step keeps the invariant, or the model ends.
LEMMA NextSound == Sound /\ [Next]_vars => Sound'
<1> SUFFICES ASSUME Sound, [Next]_vars, ~Over' PROVE Kept'
  BY DEF Sound
<1>1. CASE UNCHANGED vars
  <2>1. UNCHANGED <<current_stream_url, stream_change_requested, current_volume,
                    volume_change_requested, handles, alive, pipe, loop, held, code, broken>>
    BY <1>1 DEF vars, requests, heap, rest
  <2>2. Kept
    BY <2>1 DEF Sound, Over, Uncontrolled
  <2>3. Pending("main")' = Pending("main") /\ All' = All
    BY <2>1 DEF Pending, All
  <2>4. /\ To("deinit")' = To("deinit") /\ To("create")' = To("create")
        /\ To("register")' = To("register")
    BY <2>3 DEF To
  <2>5. Types'
    BY <2>1, <2>2 DEF Kept, Types
  <2>6. HeapInv'
    BY <2>1, <2>2, <2>4 DEF Kept, HeapInv
  <2>7. VolumeInv'
    BY <2>1, <2>2, <2>3, <2>4 DEF Kept, VolumeInv
  <2>8. StreamInv'
    BY <2>1, <2>2, <2>3 DEF Kept, StreamInv
  <2> QED BY <2>5, <2>6, <2>7, <2>8 DEF Kept
<1>2. CASE Next
  <2>1. CASE Over
    BY <1>1, <1>2, <2>1 DEF Next
  <2>2. CASE ~Over
    <3>1. Kept /\ "main" \in Tasks /\ "httpd" \in Tasks
      BY <2>2 DEF Sound, Tasks
    <3>2. \/ TakeRequests \/ TakeTimesOut \/ Change \/ HandleEvent \/ NoEvent
          \/ Operation("main") \/ Operation("httpd")
          \/ SetStream \/ SetVolume \/ PlaySdFile
          \/ MusicInfo \/ Finish \/ Fail \/ Cool
      BY <1>2, <2>2, Zenon DEF Next, MainStep
    <3> QED BY <2>2, <3>1, <3>2, TakeRequestsKeeps, TakeTimesOutKeeps, ChangeKeeps,
               HandleEventKeeps, NoEventKeeps, OperationKeeps, PlaySdFileKeeps,
               OutsideKeeps
  <2> QED BY <2>1, <2>2
<1> QED BY <1>1, <1>2

\* The inductive invariant, of which the three theorems are consequences.
THEOREM AlwaysSound == Spec => []Sound
<1>1. Init => Sound
  BY InitSound
<1>2. Sound /\ [Next]_vars => Sound'
  BY NextSound
<1> QED BY <1>1, <1>2, PTL DEF Spec

\* Between two iterations and requests no task has anything to do.
LEMMA AtRest ==
  ASSUME Sound, Rest
  PROVE /\ Kept /\ loop = "take" /\ Pending("main") = {}
        /\ To("deinit") = {} /\ To("create") = {} /\ To("register") = {}
<1>1. Kept /\ loop = "take" /\ code["main"] = <<>> /\ code["httpd"] = <<>>
  BY DEF Sound, Rest, At, Ready
<1>2. All = {} /\ Pending("main") = {}
  BY <1>1 DEF All, Pending, ToSet
<1> QED BY <1>1, <1>2 DEF To

\* Nothing is allocated that no handle names, whatever start failed at whatever
\* call: the labels of start_audio_pipeline free what was made, in its order, and
\* the teardowns free the pipeline after the last element that left it.
THEOREM NothingIsLeft == Spec => []NothingLeft
<1>1. Sound => NothingLeft
  <2>1. ASSUME Sound, Rest PROVE alive \subseteq handles /\ (Pipeline \notin alive => alive = {})
    BY <2>1, AtRest DEF Kept, HeapInv
  <2> QED BY <2>1 DEF NothingLeft
<1> QED BY <1>1, AlwaysSound, PTL

\* The volume that app_main reads under the mutex and sets after it, or that httpd
\* sets as it builds, is the last one, or a newer one is flagged.
THEOREM LastVolumeIsSet == Spec => []LastVolumeSet
<1>1. Sound => LastVolumeSet
  <2>1. ASSUME Sound, Rest, pipe.volume # None
        PROVE volume_change_requested \/ pipe.volume = current_volume
    BY <2>1, AtRest DEF Kept, VolumeInv
  <2> QED BY <2>1 DEF LastVolumeSet
<1> QED BY <1>1, AlwaysSound, PTL

\* The stream that plays, and the one its decoder was chosen for, are the last one
\* asked for or a newer one is flagged, although app_main reads the URL twice.
THEOREM LastStreamIsPlayed == Spec => []LastStreamPlays
<1>1. Sound => LastStreamPlays
  <2>1. ASSUME Sound, Rest, Pipeline \in handles, pipe.uri \in Urls
        PROVE \/ stream_change_requested
              \/ pipe.uri = current_stream_url /\ pipe.format = current_stream_url
    BY <2>1, AtRest DEF Kept, StreamInv
  <2> QED BY <2>1 DEF LastStreamPlays
<1> QED BY <1>1, AlwaysSound, PTL
=============================================================================
