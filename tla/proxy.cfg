SPECIFICATION Spec
CONSTANTS
    Tasks = {t1}
    Ads = {a0, a1}
    Workers = {w1}
    Proxies = {p1, p2}
    ZeroAd = a0
    NoAd = NoAd
    NoTask = NoTask
    NoProxy = NoProxy
SYMMETRY Symmetry
INVARIANTS ProxyTypeOK Precedence
