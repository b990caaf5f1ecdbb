SPECIFICATION Spec
CONSTANTS
  Requests = {r1, r2}
  Routers = {"service", "tests"}
  Routes = {"create", "query", "update"}
  SampleEvery = 2
INVARIANTS TypeOK MetricsAgree CompletionObserved TestsRenderErrors OneDocument
PROPERTIES AllAnswered
