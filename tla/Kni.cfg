CONSTANTS
  Mbufs = {m1, m2, m3}
  Two = {m1, m2}
  None = None
  sync_va = sync_va
  MAX_MBUF_BURST_NUM = 2
  Callers = {c1, c2}
  Bounds <- Kinds
SPECIFICATION FairSpec
INVARIANTS TypeOK MbufsConserved ChecksSuffice OwnAnswer Backlog
PROPERTIES MbufsReturn RequestsEnd
