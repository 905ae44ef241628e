SPECIFICATION SpecMC
CONSTANTS
  None = None
  r1 = r1
  r2 = r2
  a1 = a1
  a2 = a2
  s1 = s1
  s2 = s2
  bad = bad
  x1 = x1
  runpod1 = runpod1
  pi1 = pi1
  g1 = g1
  g2 = g2
  h1 = h1
  h2 = h2
  n1 = n1
  n2 = n2
  i1 = i1
  i2 = i2
  t1 = t1
  f1 = f1
  j1 = j1
  p1 = p1
  q1 = q1
  q2 = q2
  b1 = b1
  b2 = b2
  m1 = m1
  l1 = l1
  l2 = l2
  c1 = c1
  k1 = k1
  flag = flag
  odd = odd
  w1 = w1
  w2 = w2
  v1 = v1
  tab1 = tab1
  tab2 = tab2
  u0 = u0
  u1 = u1
  pw = pw
  full = full
  own = own
  sc = sc
  ComputeOf <- MCCompute
  NewPodOf <- MCNewPod
  NewEndpointOf <- MCNewEndpoint
  EndpointsOf <- MCEndpoints
  TabsOf <- MCTabs
  HistoryOf <- MCHistory
  BenchmarksOf <- MCBenchmarks
  BenchLogOf <- MCBenchLog
  NewBenchOf <- MCNewBench
  BenchRunOf <- MCBenchRun
  SessionOf <- MCSession
  UsersOf <- MCUsers
  RolesOf <- MCRoles
  ProvidersOf <- MCProviders
INVARIANTS
  ScreensAreFaithful
  RequestsFitTheProvider
PROPERTIES
  UndecidedStayListed
  
  
  PagesSettle
  TrackedRequestsSettle
\* The forms end when they are left, and inputs are bounded.
CHECK_DEADLOCK FALSE
