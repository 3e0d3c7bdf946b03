\* Two URLs of every kind, a cache of one, notifications with and without metrics.
SPECIFICATION Spec
CONSTANTS
  Urls = {u1, u2}
  MaxCacheSize = 1
INVARIANTS TypeOK RepeatsPaidFor FailuresExcused CacheIsRight IssuesPaidFor CommentsAreSeen
