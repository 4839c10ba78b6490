---------------------------- MODULE PthreadLocksMC ----------------------------
(* Programs of two or three threads that use their locks as they should.   *)
EXTENDS PthreadLocks

CONSTANTS m1, m2, s, rw, sem, c, b, A, B, C

do(op, l) == [op |-> op, lock |-> l, mutex |-> m1]

Section(op, l) == <<do(op, l), do("unlock", l)>>
Nest(l, k) == <<do("lock", l), do("lock", k), do("unlock", k), do("unlock", l)>>
Cross(l, k) == <<do("lock", l), do("lock", k), do("unlock", l), do("unlock", k)>>
Waits == <<do("lock", m1), do("wait", c), do("unlock", m1)>>
ReadsTwice == <<do("rdlock", rw), do("lock", m1), do("rdlock", rw)>>
                \o <<do("unlock", rw), do("unlock", m1), do("unlock", rw)>>
Idle == << >>

three(x, y, z) == (A :> x) @@ (B :> y) @@ (C :> z)

LegalPrograms == {
    three(Nest(m1, s) \o Section("lock", s), Cross(m1, s), Section("trylock", m1) \o Section("lock", s)),
    three(Waits, Waits, Section("trylock", m1)),
    three(Section("lock", m1), Section("trylock", m1), Section("lock", m1)),
    three(Nest(m1, s), Cross(m1, s), Idle),
    three(Cross(m1, m2), Section("trylock", m2) \o Section("lock", m2), Idle),
    three(Section("rdlock", rw), Section("rdlock", rw), Section("wrlock", rw)),
    three(ReadsTwice, Section("wrlock", rw), Section("lock", m1)),
    three(Section("wrlock", rw) \o Section("rdlock", rw), Section("wrlock", rw), Idle),
    three(Waits, Section("lock", m1) \o Section("lock", m1), Idle),
    three(Section("trylock", s), Section("lock", s), Section("trylock", s)),
    three(Section("lock", s) \o Section("lock", s), Section("lock", s), Section("lock", s)),
    three(Section("lock", m1) \o <<do("post", sem)>>, <<do("sem_wait", sem)>> \o Section("lock", m1), Idle),
    three(<<do("lock", m1), do("barrier_wait", b), do("unlock", m1)>>,
          Section("lock", m2) \o <<do("barrier_wait", b)>>, Idle)}
=============================================================================
